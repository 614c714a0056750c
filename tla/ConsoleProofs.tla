--------------------------- MODULE ConsoleProofs ----------------------------
(***************************************************************************)
(* What the web UI shows, for every number of items, versions, outages,    *)
(* cancelled requests and pages: NeverBack (the refinement of Views),      *)
(* TrafficCovered, DraftsRebased and SuccessShown.                         *)
(***************************************************************************)
EXTENDS Console, TLAPS

Entries == [ver : Nat, error : BOOLEAN]

Requests == [phase : {"idle", "sent", "answered"}, did : BOOLEAN,
             body : {"none", "json", "empty", "error"}, ver : Nat,
             listed : BOOLEAN, items : SUBSET Items]

Forms == [base : SUBSET Items, items : SUBSET Items]

HistoryType ==
    /\ history \in [Keys -> Seq((SUBSET Items) \cup {NoRules})]
    /\ \A k \in Keys : history[k] \in Seq(Listed(k))

QueryType ==
    /\ cache \in [Keys -> Entries]
    /\ fetch \in [Keys -> Runs]
    /\ orphans \subseteq [key : Keys, run : Runs]

StatType ==
    /\ stats \in Nat \cup {NoStats} /\ told \in Nat
    /\ chart \in Seq(Nat) /\ Len(chart) <= MaxPoints

MutationType ==
    /\ mut \in [Mutations -> Requests]
    /\ report \in [Mutations -> {"none", "success", "failure"}]

PageType == page \in Pages /\ dialog \in Items \cup {Nothing} /\ draft \in [Drafts -> Forms]

CoreType == HistoryType /\ QueryType /\ StatType /\ MutationType /\ PageType

\* What an answer carries was listed, and is not older than what is shown.
Fresh ==
    \A k \in Keys :
        /\ cache[k].ver <= Version(k) /\ fetch[k].ans <= Version(k)
        /\ Version(k) >= 1
        /\ fetch[k].ans # 0 => cache[k].ver <= fetch[k].ans

\* The total in the store, or that a request took from it, is not above the highest
\* received: what is added to the chart is no less than the growth since that.
Seen ==
    /\ stats <= told
    /\ \A k \in Keys : fetch[k].prev <= told
    /\ \A o \in orphans : o.run.prev <= told

\* What a mutation knows of what it did is true.
Mutated ==
    \A m \in Mutations :
        /\ mut[m].ver <= Version(KeyOf(m))
        /\ mut[m].body = "json" => mut[m].did
        /\ report[m] = "success" => mut[m].phase = "idle"

\* The key k is being fetched, has been answered since version n, or shows it.
Holds(k, n) ==
    \/ fetch[k].phase = "sent"
    \/ fetch[k].phase = "answered" /\ (fetch[k].ans = 0 \/ fetch[k].ans >= n)
    \/ fetch[k].phase = "idle" /\ (cache[k].ver >= n \/ cache[k].error)

\* SuccessShown, in the form that the steps of a request preserve.
Shows ==
    \A m \in Mutations : report[m] = "success" =>
        mut[m].did /\ (mut[m].listed => Holds(KeyOf(m), mut[m].ver))

IInv == CoreType /\ Fresh /\ Seen /\ Mutated /\ Shows /\ DraftsRebased

-----------------------------------------------------------------------------
(* Operators of the model. *)

\* The key of a mutation is one.
LEMMA KeyOfType == \A m \in Mutations : KeyOf(m) \in Keys
BY DEF KeyOf, Mutations, Keys

\* A version more is the last, and what was listed before is listed still.
LEMMA AppendFacts ==
    ASSUME NEW S, NEW s \in Seq(S), NEW e \in S
    PROVE  /\ Append(s, e) \in Seq(S)
           /\ Len(Append(s, e)) = Len(s) + 1
           /\ \A i \in 1..Len(s) : Append(s, e)[i] = s[i]
OBVIOUS

LEMMA SingleFacts ==
    ASSUME NEW S, NEW e \in S
    PROVE  <<e>> \in Seq(S) /\ Len(<<e>>) = 1
OBVIOUS

\* A request that has been served carries the answer and is otherwise as it was.
LEMMA ServedFields ==
    ASSUME NEW r \in Runs, NEW k \in Keys, Answer(k) \in Nat
    PROVE  /\ Served(r, k) \in Runs
           /\ Served(r, k).phase = "answered"
           /\ Served(r, k).ans = Answer(k)
           /\ Served(r, k).prev = r.prev
BY DEF Served, Runs

\* An answer is a failure or the last version.
LEMMA AnswerFacts ==
    ASSUME HistoryType, NEW k \in Keys
    PROVE  /\ Version(k) \in Nat
           /\ Answer(k) \in Nat
           /\ Answer(k) = 0 \/ Answer(k) = Version(k)
BY DEF HistoryType, Answer, Version

\* A request that starts has no answer, and has seen no more than the store.
LEMMA StartedFields ==
    ASSUME StatType, NEW k \in Keys
    PROVE  /\ Started(k) \in Runs
           /\ Started(k).phase = "sent"
           /\ Started(k).ans = 0
           /\ Started(k).prev = stats \/ Started(k).prev = NoStats
BY DEF Started, Runs, StatType

\* A request of a mutation, in each of the forms it takes.
LEMMA SubmitFields ==
    ASSUME NEW items \in SUBSET Items
    PROVE  LET r == [NoMutation EXCEPT !.phase = "sent", !.items = items]
           IN  r \in Requests /\ r.ver = 0 /\ r.body = "none"
BY DEF Requests, NoMutation

AsExecuted(q, b, n) == [q EXCEPT !.phase = "answered", !.did = TRUE, !.body = b, !.ver = n]

LEMMA ExecutedFields ==
    ASSUME NEW q \in Requests, NEW b, b = "json" \/ b = "empty", NEW n \in Nat
    PROVE  /\ AsExecuted(q, b, n) \in Requests
           /\ AsExecuted(q, b, n).ver = n
           /\ AsExecuted(q, b, n).did
BY DEF Requests, AsExecuted

LEMMA RefusedFields ==
    ASSUME NEW q \in Requests
    PROVE  LET r == [q EXCEPT !.phase = "answered", !.body = "error"]
           IN  r \in Requests /\ r.ver = q.ver /\ r.body = "error"
BY DEF Requests

LEMMA LostFields ==
    ASSUME NEW q \in Requests
    PROVE  LET r == [q EXCEPT !.body = "error"]
           IN  r \in Requests /\ r.ver = q.ver /\ r.body = "error"
BY DEF Requests

LEMMA ReportFields ==
    ASSUME NEW q \in Requests, NEW l \in BOOLEAN
    PROVE  LET r == [q EXCEPT !.phase = "idle", !.listed = l]
           IN  /\ r \in Requests /\ r.ver = q.ver /\ r.body = q.body /\ r.did = q.did
               /\ r.phase = "idle" /\ r.listed = l
BY DEF Requests

-----------------------------------------------------------------------------
(* What a step does, as the parts of the invariant see it. *)

\* The requests of some keys, and no others, are sent anew.
Restarts(new) ==
    /\ QueryType'
    /\ \A k \in Keys :
        /\ cache'[k].ver = cache[k].ver
        /\ k \in new => /\ fetch'[k].phase = "sent" /\ fetch'[k].ans = 0
                        /\ fetch'[k].prev = stats \/ fetch'[k].prev = NoStats
        /\ k \notin new => fetch'[k] = fetch[k] /\ cache'[k] = cache[k]
    /\ \A o \in orphans' : o \in orphans \/ \E k \in Keys : o.run = fetch[k]

\* What is listed stays, or one key has a version more.
Grows ==
    \/ UNCHANGED history
    \/ \E k \in Keys : \E s \in Listed(k) : history' = [history EXCEPT ![k] = Append(@, s)]

LEMMA QueriesStay ==
    ASSUME QueryType, UNCHANGED <<cache, fetch, orphans>>
    PROVE  Restarts({})
BY DEF QueryType, Restarts

LEMMA StartRestarts ==
    ASSUME CoreType, NEW ks \in SUBSET Keys, Start(ks),
           orphans' \subseteq orphans \cup {[key |-> k, run |-> fetch[k]] : k \in Keys}
    PROVE  Restarts(ks)
<1>1. \A k \in Keys : /\ Started(k) \in Runs /\ Started(k).phase = "sent" /\ Started(k).ans = 0
                      /\ Started(k).prev = stats \/ Started(k).prev = NoStats
  BY StartedFields DEF CoreType
<1>2. fetch' \in [Keys -> Runs] /\ cache' \in [Keys -> Entries]
  BY <1>1 DEF Start, CoreType, QueryType, Entries
<1>3. orphans' \subseteq [key : Keys, run : Runs]
  BY DEF CoreType, QueryType
<1>4. ASSUME NEW o \in orphans' PROVE o \in orphans \/ \E k \in Keys : o.run = fetch[k]
  OBVIOUS
<1>5. ASSUME NEW k \in Keys
      PROVE  /\ cache'[k].ver = cache[k].ver
             /\ k \in ks => fetch'[k] = Started(k)
             /\ k \notin ks => fetch'[k] = fetch[k] /\ cache'[k] = cache[k]
  BY DEF Start, HasData, CoreType, QueryType, Entries
<1> QED
  BY <1>1, <1>2, <1>3, <1>4, <1>5 DEF Restarts, QueryType

\* refetch leaves alone only a first request that is under way.
LEMMA RefetchRestarts ==
    ASSUME CoreType, NEW ks \in SUBSET Keys, Refetch(ks)
    PROVE  \E new \in SUBSET Keys : /\ Restarts(new)
                                    /\ \A k \in ks : HasData(k) => k \in new
<1> DEFINE gone == {k \in ks : Fetching(k) /\ Cancels(k)}
           new == gone \cup {k \in ks : ~Fetching(k)}
<1>1. /\ orphans' = orphans \cup {[key |-> k, run |-> fetch[k]] : k \in gone}
      /\ Start(new)
  BY DEF Refetch
<1>2. Restarts(new)
  BY <1>1, StartRestarts
<1>3. \A k \in ks : HasData(k) => k \in new
  BY DEF Cancels
<1> QED
  BY <1>2, <1>3

\* Versions only grow in number, and those before stay as they were.
LEMMA GrowsFacts ==
    ASSUME HistoryType, Grows
    PROVE  /\ HistoryType'
           /\ \A k \in Keys :
               /\ Version(k) \in Nat /\ Version(k)' \in Nat
               /\ Version(k)' >= Version(k)
               /\ \A i \in 1..Version(k) : history'[k][i] = history[k][i]
<1>1. CASE UNCHANGED history
  BY <1>1 DEF HistoryType, Version
<1>2. CASE \E k \in Keys : \E s \in Listed(k) : history' = [history EXCEPT ![k] = Append(@, s)]
  <2>0. PICK k \in Keys : \E s \in Listed(k) : history' = [history EXCEPT ![k] = Append(@, s)]
    BY <1>2
  <2>1. PICK s \in Listed(k) : history' = [history EXCEPT ![k] = Append(@, s)]
    BY <2>0
  <2>2. /\ Append(history[k], s) \in Seq(Listed(k))
        /\ Len(Append(history[k], s)) = Len(history[k]) + 1
        /\ \A i \in 1..Len(history[k]) : Append(history[k], s)[i] = history[k][i]
    BY AppendFacts DEF HistoryType
  <2>6. Append(history[k], s) \in Seq((SUBSET Items) \cup {NoRules})
    <3>1. s \in (SUBSET Items) \cup {NoRules}
      BY DEF Listed
    <3> QED
      BY <3>1, AppendFacts DEF HistoryType
  <2>3. /\ history'[k] = Append(history[k], s)
        /\ \A j \in Keys : j # k => history'[j] = history[j]
    BY <2>1 DEF HistoryType
  <2>4. HistoryType'
    BY <2>1, <2>2, <2>3, <2>6 DEF HistoryType
  <2>5. ASSUME NEW j \in Keys
        PROVE  /\ Version(j) \in Nat /\ Version(j)' \in Nat
               /\ Version(j)' >= Version(j)
               /\ \A i \in 1..Version(j) : history'[j][i] = history[j][i]
    <3>1. Len(history[j]) \in Nat /\ Len(history'[j]) \in Nat
      BY <2>4 DEF HistoryType
    <3>2. CASE j = k
      BY <2>2, <2>3, <3>1, <3>2 DEF Version
    <3>3. CASE j # k
      BY <2>3, <3>1, <3>3 DEF Version
    <3> QED
      BY <3>2, <3>3
  <2> QED
    BY <2>4, <2>5
<1> QED
  BY <1>1, <1>2 DEF Grows

\* What a mutation leaves is a list of items, never null.
LEMMA OutcomesType ==
    ASSUME HistoryType, Fresh, NEW m \in Mutations, NEW items \in SUBSET Items
    PROVE  Outcomes(m, items) \subseteq SUBSET Items
<1>1. Last("nodes") \in SUBSET Items /\ Last("auth-keys") \in SUBSET Items
  <2>1. ASSUME NEW k \in Keys, k # "acl" PROVE Last(k) \in SUBSET Items
    <3>1. history[k] \in Seq(SUBSET Items)
      BY <2>1 DEF HistoryType, Listed
    <3> QED
      BY <3>1 DEF Fresh, Last, Version
  <2> QED
    BY <2>1 DEF Keys
<1>3. CASE m \in {"deleteNode", "deleteKey"}
  BY <1>1, <1>3 DEF Outcomes, KeyOf
<1>4. CASE m = "createKey"
  BY <1>1, <1>4 DEF Outcomes
<1>5. CASE m \in {"saveACL", "saveConfig"}
  BY <1>5 DEF Outcomes
<1> QED
  BY <1>3, <1>4, <1>5 DEF Mutations

\* The steps of a request, which is watched or was cancelled.
RequestStep ==
    /\ UNCHANGED <<history, mut, report>>
    /\ \/ \E k \in Keys : ServerReads(k) \/ Fail(k) \/ Shown(k)
       \/ \E o \in orphans : OrphanServed(o) \/ OrphanEnds(o)

\* All the others.
OtherStep ==
    /\ \E new \in SUBSET Keys : Restarts(new)
    /\ Grows
    /\ UNCHANGED <<chart, told>> /\ (stats' = stats \/ stats' = 0)

LEMMA ReportSteps ==
    ASSUME CoreType, NEW m \in Mutations, Report(m)
    PROVE  OtherStep
<1>1. UNCHANGED <<history, stats, chart, told>>
  BY DEF Report, serverVars, statVars
<1>2. \E new \in SUBSET Keys : Restarts(new)
  <2>1. CASE Refetch({KeyOf(m)})
    BY <2>1, RefetchRestarts, KeyOfType
  <2>2. CASE UNCHANGED <<cache, fetch, orphans>>
    BY <2>2, QueriesStay DEF CoreType
  <2> QED
    BY <2>1, <2>2 DEF Report, Invalidate, queryVars
<1> QED
  BY <1>1, <1>2 DEF OtherStep, Grows

LEMMA StepCases ==
    ASSUME CoreType, Fresh, Next
    PROVE  RequestStep \/ OtherStep
<1> USE DEF apiVars, serverVars, queryVars, statVars, mutVars, pageVars, localVars
<1>1. ASSUME UNCHANGED <<history, cache, fetch, orphans, stats, chart, told>>
      PROVE  OtherStep
  BY <1>1, QueriesStay DEF CoreType, OtherStep, Grows
<1>2. ASSUME NEW ks \in SUBSET Keys, Start(ks), orphans' = orphans,
             UNCHANGED <<history, stats, chart, told>>
      PROVE  OtherStep
  BY <1>2, StartRestarts DEF OtherStep, Grows
<1>3. ASSUME NEW ks \in SUBSET Keys, Refetch(ks), UNCHANGED <<history, stats, chart, told>>
      PROVE  OtherStep
  BY <1>3, RefetchRestarts DEF OtherStep, Grows
<1>4. CASE Outage
  BY <1>4, <1>1 DEF Outage
<1>5. CASE Pushed
  BY <1>5, QueriesStay DEF Pushed, CoreType, OtherStep, Grows
<1>6. ASSUME NEW k \in Keys, Change(k) PROVE OtherStep
  <2>1. Grows
    BY <1>6 DEF Change, Grows
  <2> QED
    BY <1>6, <2>1, QueriesStay DEF Change, CoreType, OtherStep
<1>7. ASSUME NEW k \in Keys, Poll(k) PROVE OtherStep
  BY <1>7, <1>2 DEF Poll
<1>8. ASSUME NEW m \in Mutations, Executed(m) PROVE OtherStep
  <2>1. mut[m].items \in SUBSET Items
    BY DEF CoreType, MutationType, Requests
  <2>2. Outcomes(m, mut[m].items) \subseteq SUBSET Items
    BY <2>1, OutcomesType DEF CoreType
  <2>3. Grows
    BY <1>8, <2>2, KeyOfType DEF Executed, Grows, Listed
  <2> QED
    BY <1>8, <2>3, QueriesStay DEF Executed, CoreType, OtherStep
<1>9. ASSUME NEW m \in Mutations, NotExecuted(m) \/ AnswerLost(m) PROVE OtherStep
  BY <1>9, <1>1 DEF NotExecuted, AnswerLost
<1>10. CASE ApiNext
  BY <1>10, <1>4, <1>5, <1>6, <1>7, <1>8, <1>9
     DEF ApiNext, RequestStep, ServerReads, Fail, OrphanServed, OrphanEnds
<1>11. CASE \E k \in Keys : Shown(k)
  BY <1>11 DEF Shown, Succeed, RequestStep
<1>12. CASE \E m \in Mutations : Told(m)
  BY <1>12, ReportSteps DEF Told
<1>13. CASE Anywhere
  <2>1. ASSUME NEW p \in Pages, Navigate(p) PROVE OtherStep
    <3>1. \E ks \in SUBSET Keys : Start(ks)
      <4>1. Watches(p) \in SUBSET Keys
        BY DEF Pages, Watches, Keys
      <4> QED
        BY <2>1, <4>1 DEF Navigate, Watch
    <3> QED
      BY <2>1, <3>1, <1>2 DEF Navigate
  <2>2. CASE Refresh
    <3>1. Watches(page) \in SUBSET Keys
      BY DEF CoreType, PageType, Pages, Watches, Keys
    <3>2. Refetched(page) \in SUBSET Keys
      BY <3>1 DEF Refetched, Keys
    <3> QED
      BY <2>2, <3>2, <1>3 DEF Refresh
  <2>3. CASE CloseDialog \/ \E s \in Searches : Search(s)
    BY <2>3, <1>1 DEF CloseDialog, OpenDialog, Search
  <2> QED
    BY <1>13, <2>1, <2>2, <2>3 DEF Anywhere
<1>14. CASE Listings
  BY <1>14, <1>1 DEF Listings, AskDelete, OpenDialog, Select, PeerDetails, ConfirmDelete, Submit,
                     Filter
<1>15. CASE Settings
  <2>1. CASE ACLRetry
    BY <2>1, <1>3 DEF ACLRetry, Keys
  <2>2. CASE Settings /\ ~ACLRetry
    BY <2>2, <1>1 DEF Settings, ShowCreate, CreateKey, SaveACL, SaveConfig, TypeToken, DeleteKey,
                      Send, Submit, Edit
  <2> QED
    BY <1>15, <2>1, <2>2
<1> QED
  BY <1>10, <1>11, <1>12, <1>13, <1>14, <1>15 DEF Next, Background

-----------------------------------------------------------------------------
(* The steps of a request preserve the parts about queries and the chart. *)

\* The orphans after one of them has been served.
LEMMA OrphanServedFacts ==
    ASSUME CoreType, NEW o \in orphans, OrphanServed(o)
    PROVE  /\ QueryType'
           /\ \A q \in orphans' : q \in orphans \/ q.run.prev = o.run.prev
<1>1. o.key \in Keys /\ o.run \in Runs
  BY DEF CoreType, QueryType
<1>2. Answer(o.key) \in Nat
  BY <1>1, AnswerFacts DEF CoreType
<1>3. /\ Served(o.run, o.key) \in Runs
      /\ Served(o.run, o.key).prev = o.run.prev
  BY <1>1, <1>2, ServedFields
<1>4. orphans' = (orphans \ {o}) \cup {[key |-> o.key, run |-> Served(o.run, o.key)]}
  BY DEF OrphanServed
<1>5. orphans' \subseteq [key : Keys, run : Runs]
  BY <1>1, <1>3, <1>4 DEF CoreType, QueryType
<1>6. ASSUME NEW q \in orphans' PROVE q \in orphans \/ q.run.prev = o.run.prev
  BY <1>3, <1>4
<1> QED
  BY <1>5, <1>6 DEF OrphanServed, CoreType, QueryType

\* The point added is the last, and the chart is no longer than it may be.
LEMMA PointAdded ==
    ASSUME chart \in Seq(Nat), Len(chart) <= MaxPoints, NEW growth \in Nat, AddPoint(growth)
    PROVE  /\ chart' \in Seq(Nat) /\ Len(chart') <= MaxPoints
           /\ chart'[Len(chart')] = growth
<1> DEFINE points == Append(chart, growth)
<1>1. MaxPoints \in Nat \ {0}
  BY WebApiAssumption
<1>2. points \in Seq(Nat) /\ Len(points) = Len(chart) + 1 /\ points[Len(points)] = growth
  OBVIOUS
<1>3. chart' = IF Len(points) > MaxPoints THEN Tail(points) ELSE points
  BY DEF AddPoint
<1> HIDE DEF points
<1>4. CASE Len(points) > MaxPoints
  <2>1. Len(points) > 1 /\ Len(points) = MaxPoints + 1
    BY <1>1, <1>2, <1>4
  <2>2. /\ Tail(points) \in Seq(Nat) /\ Len(Tail(points)) = Len(points) - 1
        /\ Tail(points)[Len(points) - 1] = points[Len(points)]
    BY <1>2, <2>1
  <2> QED
    BY <1>1, <1>2, <1>3, <1>4, <2>1, <2>2
<1>5. CASE ~(Len(points) > MaxPoints)
  BY <1>1, <1>2, <1>3, <1>5
<1> QED
  BY <1>4, <1>5

\* The effects of an answer on the store and the chart.
LEMMA EffectsFacts ==
    ASSUME StatType, stats <= told, NEW k \in Keys,
           NEW run \in Runs, run.prev <= told, Effects(k, run)
    PROVE  /\ StatType'
           /\ stats' <= told' /\ told <= told'
           /\ told' # told => chart'[Len(chart')] >= told' - told
<1>1. run.ans \in Nat /\ run.prev \in Nat \cup {NoStats}
  BY DEF Runs
<1>2. CASE k = "stats"
  <2> DEFINE growth == Delta(run.ans, run.prev)
  <2>1. growth \in Nat /\ (run.ans > told => growth >= run.ans - told)
    BY <1>1 DEF Delta, StatType, NoStats
  <2>2. AddPoint(growth) /\ stats' = run.ans /\ told' = IF run.ans > told THEN run.ans ELSE told
    BY <1>2 DEF Effects
  <2> HIDE DEF growth
  <2>3. /\ chart' \in Seq(Nat) /\ Len(chart') <= MaxPoints
        /\ chart'[Len(chart')] = growth
    BY <2>1, <2>2, PointAdded DEF StatType
  <2> QED
    BY <1>1, <2>1, <2>2, <2>3 DEF StatType
<1>3. CASE k # "stats"
  BY <1>3 DEF Effects, statVars, StatType
<1> QED
  BY <1>2, <1>3

LEMMA RequestStepQuery ==
    ASSUME CoreType, Fresh, Seen, RequestStep
    PROVE  HistoryType' /\ QueryType' /\ StatType' /\ Fresh' /\ Seen'
<1> USE DEF apiVars, serverVars, queryVars, statVars
<1>1. HistoryType' /\ \A k \in Keys : Version(k)' = Version(k) /\ Version(k) \in Nat
  BY DEF RequestStep, CoreType, HistoryType, Version
<1>2. QueryType /\ StatType
  BY DEF CoreType
<1>3. ASSUME NEW k \in Keys, ServerReads(k)
      PROVE  QueryType' /\ StatType' /\ Fresh' /\ Seen'
  <2>1. fetch[k] \in Runs
    BY <1>2 DEF QueryType
  <2>2. Answer(k) \in Nat /\ (Answer(k) = 0 \/ Answer(k) = Version(k))
    BY AnswerFacts DEF CoreType
  <2>3. /\ Served(fetch[k], k) \in Runs
        /\ Served(fetch[k], k).ans = Answer(k)
        /\ Served(fetch[k], k).prev = fetch[k].prev
    BY <2>1, <2>2, ServedFields
  <2>4. fetch' = [fetch EXCEPT ![k] = Served(fetch[k], k)] /\ UNCHANGED <<cache, orphans, stats, chart, told>>
    BY <1>3 DEF ServerReads
  <2>5. QueryType' /\ StatType'
    BY <1>2, <2>3, <2>4 DEF QueryType, StatType
  <2>6. /\ fetch'[k] = Served(fetch[k], k)
        /\ \A j \in Keys : j # k => fetch'[j] = fetch[j]
    BY <1>2, <2>4 DEF QueryType
  <2>7. Fresh'
    BY <1>1, <2>2, <2>3, <2>4, <2>6 DEF Fresh
  <2>8. Seen'
    BY <2>3, <2>4, <2>6 DEF Seen
  <2> QED
    BY <2>5, <2>7, <2>8
<1>4. ASSUME NEW k \in Keys, Succeed(k)
      PROVE  QueryType' /\ StatType' /\ Fresh' /\ Seen'
  <2>1. fetch[k] \in Runs /\ fetch[k].ans \in Nat /\ fetch[k].prev <= told
    BY <1>2 DEF QueryType, Runs, Seen
  <2>2. StatType' /\ stats' <= told' /\ told <= told'
    BY <1>2, <1>4, <2>1, EffectsFacts DEF Succeed, Seen
  <2>3. /\ cache' = [cache EXCEPT ![k] = [ver |-> fetch[k].ans, error |-> FALSE]]
        /\ fetch' = [fetch EXCEPT ![k] = Idle]
        /\ UNCHANGED orphans
    BY <1>4 DEF Succeed
  <2>4. Idle \in Runs /\ Idle.ans = 0 /\ Idle.prev = NoStats
    BY DEF Idle, Runs
  <2>5. QueryType'
    BY <1>2, <2>1, <2>3, <2>4 DEF QueryType, Entries
  <2>6. /\ cache'[k].ver = fetch[k].ans /\ fetch'[k] = Idle
        /\ \A j \in Keys : j # k => cache'[j] = cache[j] /\ fetch'[j] = fetch[j]
    BY <1>2, <2>3 DEF QueryType
  <2>7. Fresh'
    BY <1>1, <2>4, <2>6 DEF Fresh
  <2>8. \A j \in Keys : fetch[j].prev \in Int
    BY <1>2 DEF QueryType, Runs, NoStats
  <2>9. \A o \in orphans : o.run.prev \in Int
    BY <1>2 DEF QueryType, Runs, NoStats
  <2>10. told \in Int /\ told' \in Nat
    BY <1>2, <2>2 DEF StatType
  <2>11. Seen'
    BY <2>2, <2>3, <2>4, <2>6, <2>8, <2>9, <2>10 DEF Seen, NoStats
  <2> QED
    BY <2>2, <2>5, <2>7, <2>11
<1>5. ASSUME NEW k \in Keys, Fail(k)
      PROVE  QueryType' /\ StatType' /\ Fresh' /\ Seen'
  <2>1. /\ cache' = [cache EXCEPT ![k] = [ver |-> cache[k].ver, error |-> TRUE]]
        /\ fetch' = [fetch EXCEPT ![k] = Idle]
        /\ UNCHANGED <<orphans, stats, chart, told>>
    BY <1>5 DEF Fail
  <2>2. Idle \in Runs /\ Idle.ans = 0 /\ Idle.prev = NoStats
    BY DEF Idle, Runs
  <2>3. QueryType' /\ StatType'
    BY <1>2, <2>1, <2>2 DEF QueryType, StatType, Entries
  <2>4. /\ cache'[k].ver = cache[k].ver /\ fetch'[k] = Idle
        /\ \A j \in Keys : j # k => cache'[j] = cache[j] /\ fetch'[j] = fetch[j]
    BY <1>2, <2>1 DEF QueryType
  <2>5. Fresh'
    BY <1>1, <2>2, <2>4 DEF Fresh
  <2>6. Seen'
    BY <1>2, <2>1, <2>2, <2>4 DEF Seen, NoStats, StatType
  <2> QED
    BY <2>3, <2>5, <2>6
<1>6. ASSUME NEW o \in orphans, OrphanServed(o)
      PROVE  QueryType' /\ StatType' /\ Fresh' /\ Seen'
  <2>1. QueryType' /\ \A q \in orphans' : q \in orphans \/ q.run.prev = o.run.prev
    BY <1>6, OrphanServedFacts
  <2>2. UNCHANGED <<cache, fetch, stats, chart, told>>
    BY <1>6 DEF OrphanServed
  <2>3. StatType' /\ Fresh'
    BY <1>1, <1>2, <2>2 DEF StatType, Fresh
  <2>4. Seen'
    BY <2>1, <2>2 DEF Seen
  <2> QED
    BY <2>1, <2>3, <2>4
<1>7. ASSUME NEW o \in orphans, OrphanEnds(o)
      PROVE  QueryType' /\ StatType' /\ Fresh' /\ Seen'
  <2>1. o.key \in Keys /\ o.run \in Runs /\ o.run.prev <= told
    BY <1>2 DEF QueryType, Seen
  <2>2. StatType' /\ stats' <= told' /\ told <= told'
    <3>1. CASE Effects(o.key, o.run)
      BY <1>2, <2>1, <3>1, EffectsFacts DEF Seen
    <3>2. CASE UNCHANGED <<stats, chart, told>>
      BY <1>2, <3>2 DEF StatType, Seen
    <3> QED
      BY <1>7, <3>1, <3>2 DEF OrphanEnds
  <2>3. orphans' \subseteq orphans /\ UNCHANGED <<cache, fetch>>
    BY <1>7 DEF OrphanEnds, Kept
  <2>4. QueryType' /\ Fresh'
    BY <1>1, <1>2, <2>3 DEF QueryType, Fresh
  <2>5. \A k \in Keys : fetch[k].prev \in Int
    BY <1>2 DEF QueryType, Runs, NoStats
  <2>6. \A q \in orphans : q.run.prev \in Int
    BY <1>2 DEF QueryType, Runs, NoStats
  <2>7. told \in Int /\ told' \in Nat
    BY <1>2, <2>2 DEF StatType
  <2>8. Seen'
    BY <2>2, <2>3, <2>5, <2>6, <2>7 DEF Seen
  <2> QED
    BY <2>2, <2>4, <2>8
<1> QED
  BY <1>1, <1>3, <1>4, <1>5, <1>6, <1>7 DEF RequestStep, Shown

LEMMA OtherStepQuery ==
    ASSUME CoreType, Fresh, Seen, OtherStep
    PROVE  HistoryType' /\ QueryType' /\ StatType' /\ Fresh' /\ Seen'
<1>1. /\ HistoryType'
      /\ \A k \in Keys : Version(k) \in Nat /\ Version(k)' \in Nat /\ Version(k)' >= Version(k)
  BY GrowsFacts DEF OtherStep, CoreType
<1>2. PICK new \in SUBSET Keys : Restarts(new)
  BY DEF OtherStep
<1>3. QueryType /\ QueryType' /\ StatType
  BY <1>2 DEF Restarts, CoreType
<1>4. StatType' /\ stats' <= told' /\ UNCHANGED <<chart, told>>
  BY <1>3 DEF OtherStep, StatType, Seen, NoStats
<1>5. \A k \in Keys : /\ cache[k].ver \in Nat /\ fetch[k].ans \in Nat
                      /\ fetch[k].prev \in Int /\ fetch'[k].prev \in Int
  BY <1>3 DEF QueryType, Entries, Runs, NoStats
<1>6. \A k \in Keys : /\ cache'[k].ver = cache[k].ver
                      /\ \/ fetch'[k] = fetch[k]
                         \/ fetch'[k].ans = 0 /\ (fetch'[k].prev = stats \/ fetch'[k].prev = NoStats)
  BY <1>2 DEF Restarts
<1>7. Fresh'
  BY <1>1, <1>5, <1>6 DEF Fresh
<1>8. \A k \in Keys : fetch'[k].prev <= told
  BY <1>3, <1>5, <1>6 DEF Seen, StatType, NoStats
<1>9. \A o \in orphans' : o.run.prev <= told
  BY <1>2 DEF Restarts, Seen
<1>10. Seen'
  BY <1>4, <1>8, <1>9 DEF Seen
<1> QED
  BY <1>1, <1>3, <1>4, <1>7, <1>10

-----------------------------------------------------------------------------
(* The mutations. *)

LEMMA HoldsOn ==
    ASSUME CoreType, Fresh, RequestStep \/ OtherStep,
           NEW k \in Keys, NEW n \in Nat, n <= Version(k), Holds(k, n)
    PROVE  Holds(k, n)'
<1> USE DEF apiVars, serverVars, queryVars, statVars
<1>1. QueryType
  BY DEF CoreType
<1>2. /\ cache[k] \in Entries /\ fetch[k] \in Runs
      /\ cache[k].ver \in Nat /\ fetch[k].ans \in Nat
  BY <1>1 DEF QueryType, Entries, Runs
<1>3. CASE cache'[k] = cache[k] /\ fetch'[k] = fetch[k]
  BY <1>3 DEF Holds
<1>4. ASSUME NEW j \in Keys, ServerReads(j) PROVE Holds(k, n)'
  <2>1. CASE j = k
    <3>1. /\ Answer(k) \in Nat /\ (Answer(k) = 0 \/ Answer(k) = Version(k))
          /\ Version(k) \in Nat
      BY AnswerFacts DEF CoreType
    <3>2. Served(fetch[k], k).phase = "answered" /\ Served(fetch[k], k).ans = Answer(k)
      BY <1>2, <3>1, ServedFields
    <3>3. fetch'[k] = Served(fetch[k], k)
      BY <1>1, <1>4, <2>1 DEF ServerReads, QueryType
    <3> QED
      BY <3>1, <3>2, <3>3 DEF Holds
  <2>2. CASE j # k
    BY <1>1, <1>3, <1>4, <2>2 DEF ServerReads, QueryType
  <2> QED
    BY <2>1, <2>2
<1>5. ASSUME NEW j \in Keys, Fail(j) PROVE Holds(k, n)'
  <2>1. CASE j = k
    BY <1>1, <1>5, <2>1 DEF Fail, QueryType, Holds, Idle
  <2>2. CASE j # k
    BY <1>1, <1>3, <1>5, <2>2 DEF Fail, QueryType
  <2> QED
    BY <2>1, <2>2
<1>6. ASSUME NEW j \in Keys, Succeed(j) PROVE Holds(k, n)'
  <2>1. CASE j = k
    <3>1. fetch[k].phase = "answered" /\ fetch[k].ans >= n
      BY <1>6, <2>1 DEF Succeed, Holds
    <3>2. cache'[k].ver = fetch[k].ans /\ fetch'[k].phase = "idle"
      BY <1>1, <1>6, <2>1 DEF Succeed, QueryType, Idle
    <3> QED
      BY <3>1, <3>2 DEF Holds
  <2>2. CASE j # k
    BY <1>1, <1>3, <1>6, <2>2 DEF Succeed, QueryType
  <2> QED
    BY <2>1, <2>2
<1>7. ASSUME NEW o \in orphans, OrphanServed(o) \/ OrphanEnds(o) PROVE Holds(k, n)'
  BY <1>3, <1>7 DEF OrphanServed, OrphanEnds, Kept
<1>8. CASE OtherStep
  <2>1. PICK new \in SUBSET Keys : Restarts(new)
    BY <1>8 DEF OtherStep
  <2>2. fetch'[k].phase = "sent" \/ (fetch'[k] = fetch[k] /\ cache'[k] = cache[k])
    BY <2>1 DEF Restarts
  <2> QED
    BY <1>3, <2>2 DEF Holds
<1> QED
  BY <1>4, <1>5, <1>6, <1>7, <1>8 DEF RequestStep, Shown

\* The steps of a mutation.
MutStep(m) ==
    \/ \E items \in SUBSET Items : Submit(m, items)
    \/ Executed(m) \/ NotExecuted(m) \/ AnswerLost(m) \/ Report(m)

LEMMA MutCases ==
    ASSUME CoreType, Next
    PROVE  UNCHANGED <<mut, report>> \/ \E m \in Mutations : MutStep(m)
<1> USE DEF apiVars, serverVars, queryVars, statVars, mutVars, pageVars, localVars
<1>1. CASE ApiNext
  BY <1>1 DEF ApiNext, MutStep, Outage, Pushed, Change, Poll, ServerReads, Fail, OrphanServed,
              OrphanEnds
<1>2. CASE \E k \in Keys : Shown(k)
  BY <1>2 DEF Shown, Succeed
<1>3. CASE \E m \in Mutations : Told(m)
  BY <1>3 DEF Told, MutStep
<1>4. CASE Anywhere
  BY <1>4 DEF Anywhere, Navigate, Refresh, CloseDialog, OpenDialog, Search
<1>5. CASE Listings
  <2>1. CASE ConfirmDelete
    <3>1. dialog \in Items
      BY <2>1 DEF ConfirmDelete, CoreType, PageType
    <3> QED
      BY <2>1, <3>1 DEF ConfirmDelete, MutStep, Mutations
  <2>2. CASE Listings /\ ~ConfirmDelete
    BY <2>2 DEF Listings, AskDelete, OpenDialog, Select, PeerDetails, Filter
  <2> QED
    BY <1>5, <2>1, <2>2
<1>6. CASE Settings
  <2>1. draft["acl"].items \in SUBSET Items /\ draft["config"].items \in SUBSET Items
    BY DEF CoreType, PageType, Forms, Drafts
  <2>2. CASE CreateKey
    BY <2>2 DEF CreateKey, Send, MutStep, Mutations
  <2>3. CASE SaveACL
    BY <2>1, <2>3 DEF SaveACL, Send, MutStep, Mutations
  <2>4. CASE SaveConfig
    BY <2>1, <2>4 DEF SaveConfig, Send, MutStep, Mutations
  <2>5. ASSUME NEW i \in Items, DeleteKey(i)
        PROVE  \E m \in Mutations : MutStep(m)
    BY <2>5 DEF DeleteKey, Send, MutStep, Mutations
  <2>6. CASE \/ ACLRetry \/ TypeToken
             \/ \E b \in BOOLEAN : ShowCreate(b)
             \/ \E k \in Drafts, items \in SUBSET Items : Edit(k, items)
    BY <2>6 DEF ACLRetry, TypeToken, ShowCreate, Edit
  <2> QED
    BY <1>6, <2>2, <2>3, <2>4, <2>5, <2>6 DEF Settings
<1> QED
  BY <1>1, <1>2, <1>3, <1>4, <1>5, <1>6 DEF Next, Background

\* What a step of a mutation does to it, and to the others nothing.
LEMMA MutStepFacts ==
    ASSUME CoreType, NEW m \in Mutations, MutStep(m)
    PROVE  /\ MutationType'
           /\ \A n \in Mutations : n # m => mut'[n] = mut[n] /\ report'[n] = report[n]
           /\ \/ report'[m] # "success" /\ mut'[m].ver = 0 /\ mut'[m].body = "none"
              \/ /\ mut[m].phase # "idle" /\ report'[m] = report[m]
                 /\ mut'[m].did /\ mut'[m].ver = Version(KeyOf(m))'
              \/ /\ mut[m].phase # "idle" /\ report'[m] = report[m]
                 /\ mut'[m].body = "error" /\ mut'[m].ver = mut[m].ver
              \/ /\ mut[m].phase = "answered" /\ mut'[m].phase = "idle"
                 /\ mut'[m].ver = mut[m].ver /\ mut'[m].body = mut[m].body
                 /\ mut'[m].did = mut[m].did
                 /\ report'[m] = "success" =>
                       /\ mut[m].body = "json"
                       /\ mut'[m].listed => fetch'[KeyOf(m)].phase = "sent"
<1> USE DEF serverVars, queryVars, statVars
<1>1. mut[m] \in Requests /\ MutationType /\ KeyOf(m) \in Keys
  BY KeyOfType DEF CoreType, MutationType
<1>2. ASSUME NEW r, mut' = [mut EXCEPT ![m] = r]
      PROVE  mut'[m] = r /\ \A n \in Mutations : n # m => mut'[n] = mut[n]
  BY <1>1, <1>2 DEF MutationType
<1>3. ASSUME NEW items \in SUBSET Items, Submit(m, items)
      PROVE  /\ MutationType'
             /\ \A n \in Mutations : n # m => mut'[n] = mut[n] /\ report'[n] = report[n]
             /\ report'[m] # "success" /\ mut'[m].ver = 0 /\ mut'[m].body = "none"
  <2> DEFINE r == [NoMutation EXCEPT !.phase = "sent", !.items = items]
  <2>1. r \in Requests /\ r.ver = 0 /\ r.body = "none"
    BY SubmitFields
  <2>2. mut' = [mut EXCEPT ![m] = r] /\ report' = [report EXCEPT ![m] = "none"]
    BY <1>3 DEF Submit
  <2> HIDE DEF r
  <2>3. mut'[m] = r /\ \A n \in Mutations : n # m => mut'[n] = mut[n]
    BY <1>1, <2>2 DEF MutationType
  <2> QED
    BY <1>1, <2>1, <2>2, <2>3 DEF MutationType
<1>4. ASSUME Executed(m)
      PROVE  /\ MutationType'
             /\ \A n \in Mutations : n # m => mut'[n] = mut[n] /\ report'[n] = report[n]
             /\ mut[m].phase # "idle" /\ report'[m] = report[m]
             /\ mut'[m].did /\ mut'[m].ver = Version(KeyOf(m))'
  <2>1. BodyOf(m) = "json" \/ BodyOf(m) = "empty"
    BY DEF BodyOf
  <2>2. Version(KeyOf(m)) + 1 \in Nat /\ Version(KeyOf(m))' = Version(KeyOf(m)) + 1
    <3>1. mut[m].items \in SUBSET Items
      BY <1>1 DEF Requests
    <3>2. PICK s \in Outcomes(m, mut[m].items) :
              history' = [history EXCEPT ![KeyOf(m)] = Append(@, s)]
      BY <1>4 DEF Executed
    <3>3. history'[KeyOf(m)] = Append(history[KeyOf(m)], s)
      BY <1>1, <3>2 DEF CoreType, HistoryType
    <3>4. history[KeyOf(m)] \in Seq((SUBSET Items) \cup {NoRules})
      BY <1>1 DEF CoreType, HistoryType
    <3> QED
      BY <3>3, <3>4 DEF Version
  <2> DEFINE r == AsExecuted(mut[m], BodyOf(m), Version(KeyOf(m)) + 1)
  <2>3. r \in Requests /\ r.ver = Version(KeyOf(m)) + 1 /\ r.did
    BY <1>1, <2>1, <2>2, ExecutedFields
  <2>4. mut' = [mut EXCEPT ![m] = r] /\ UNCHANGED report /\ mut[m].phase = "sent"
    BY <1>4 DEF Executed, AsExecuted
  <2> HIDE DEF r
  <2>5. mut'[m] = r /\ \A n \in Mutations : n # m => mut'[n] = mut[n]
    BY <1>1, <2>4 DEF MutationType
  <2> QED
    BY <1>1, <2>2, <2>3, <2>4, <2>5 DEF MutationType
<1>5. ASSUME NotExecuted(m) \/ AnswerLost(m)
      PROVE  /\ MutationType'
             /\ \A n \in Mutations : n # m => mut'[n] = mut[n] /\ report'[n] = report[n]
             /\ mut[m].phase # "idle" /\ report'[m] = report[m]
             /\ mut'[m].body = "error" /\ mut'[m].ver = mut[m].ver
  <2>1. ASSUME NEW r \in Requests, r.body = "error", r.ver = mut[m].ver,
               mut' = [mut EXCEPT ![m] = r], UNCHANGED report
        PROVE  /\ MutationType'
               /\ \A n \in Mutations : n # m => mut'[n] = mut[n] /\ report'[n] = report[n]
               /\ report'[m] = report[m]
               /\ mut'[m].body = "error" /\ mut'[m].ver = mut[m].ver
    BY <1>1, <2>1 DEF MutationType
  <2>2. CASE NotExecuted(m)
    <3> DEFINE r == [mut[m] EXCEPT !.phase = "answered", !.body = "error"]
    <3>1. r \in Requests /\ r.body = "error" /\ r.ver = mut[m].ver
      BY <1>1, RefusedFields
    <3>2. mut' = [mut EXCEPT ![m] = r] /\ UNCHANGED report /\ mut[m].phase = "sent"
      BY <2>2 DEF NotExecuted
    <3> HIDE DEF r
    <3> QED
      BY <2>1, <3>1, <3>2
  <2>3. CASE AnswerLost(m)
    <3> DEFINE r == [mut[m] EXCEPT !.body = "error"]
    <3>1. r \in Requests /\ r.body = "error" /\ r.ver = mut[m].ver
      BY <1>1, LostFields
    <3>2. mut' = [mut EXCEPT ![m] = r] /\ UNCHANGED report /\ mut[m].phase = "answered"
      BY <2>3 DEF AnswerLost
    <3> HIDE DEF r
    <3> QED
      BY <2>1, <3>1, <3>2
  <2> QED
    BY <1>5, <2>2, <2>3
<1>6. ASSUME Report(m)
      PROVE  /\ MutationType'
             /\ \A n \in Mutations : n # m => mut'[n] = mut[n] /\ report'[n] = report[n]
             /\ mut[m].phase = "answered" /\ mut'[m].phase = "idle"
             /\ mut'[m].ver = mut[m].ver /\ mut'[m].body = mut[m].body
             /\ mut'[m].did = mut[m].did
             /\ report'[m] = "success" =>
                   /\ mut[m].body = "json"
                   /\ mut'[m].listed => fetch'[KeyOf(m)].phase = "sent"
  <2> DEFINE k == KeyOf(m)
             l == HasData(k) /\ k \in watched
             r == [mut[m] EXCEPT !.phase = "idle", !.listed = l]
  <2>1. /\ r \in Requests /\ r.ver = mut[m].ver /\ r.body = mut[m].body /\ r.did = mut[m].did
        /\ r.phase = "idle" /\ r.listed = l
    <3>1. l \in BOOLEAN
      OBVIOUS
    <3> QED
      BY <1>1, <3>1, ReportFields
  <2>2. mut' = [mut EXCEPT ![m] = r] /\ mut[m].phase = "answered"
    BY <1>6 DEF Report
  <2>3. CASE Succeeds(m)
    <3>1. report' = [report EXCEPT ![m] = "success"] /\ mut[m].body = "json"
      BY <1>6, <2>3 DEF Report, Succeeds
    <3>2. ASSUME l PROVE fetch'[k].phase = "sent"
      <4>1. Refetch({k})
        BY <1>6, <2>3, <3>2 DEF Report, Invalidate
      <4>2. \E new \in SUBSET Keys : Restarts(new) /\ k \in new
        BY <1>1, <3>2, <4>1, RefetchRestarts
      <4> QED
        BY <1>1, <4>2 DEF Restarts
    <3> HIDE DEF r, l
    <3>3. mut'[m] = r /\ \A n \in Mutations : n # m => mut'[n] = mut[n]
      BY <1>1, <2>2 DEF MutationType
    <3> QED
      BY <1>1, <2>1, <2>2, <3>1, <3>2, <3>3 DEF MutationType
  <2>4. CASE ~Succeeds(m)
    <3>1. report' = [report EXCEPT ![m] = "failure"]
      BY <1>6, <2>4 DEF Report
    <3> HIDE DEF r, l
    <3>2. mut'[m] = r /\ \A n \in Mutations : n # m => mut'[n] = mut[n]
      BY <1>1, <2>2 DEF MutationType
    <3> QED
      BY <1>1, <2>1, <2>2, <3>1, <3>2 DEF MutationType
  <2> QED
    BY <2>3, <2>4
<1> QED
  BY <1>3, <1>4, <1>5, <1>6 DEF MutStep

\* A step preserves what is known of the mutations.
LEMMA NextMutated ==
    ASSUME CoreType, Fresh, Mutated, Shows, Next
    PROVE  MutationType' /\ Mutated' /\ Shows'
<1>1. RequestStep \/ OtherStep
  BY StepCases
<1>2. \A k \in Keys : Version(k) \in Nat /\ Version(k)' \in Nat /\ Version(k)' >= Version(k)
  <2>1. Grows
    BY <1>1 DEF RequestStep, OtherStep, Grows
  <2> QED
    BY <2>1, GrowsFacts DEF CoreType
<1>3. \A m \in Mutations : mut[m].ver \in Nat /\ mut[m].ver <= Version(KeyOf(m))
  BY DEF CoreType, MutationType, Requests, Mutated
<1>4. ASSUME NEW m \in Mutations, mut'[m] = mut[m], report'[m] = report[m]
      PROVE  /\ mut'[m].ver <= Version(KeyOf(m))'
             /\ mut'[m].body = "json" => mut'[m].did
             /\ report'[m] = "success" => mut'[m].phase = "idle"
             /\ report'[m] = "success" =>
                   mut'[m].did /\ (mut'[m].listed => Holds(KeyOf(m), mut[m].ver)')
  <2>1. KeyOf(m) \in Keys
    BY KeyOfType
  <2>2. Holds(KeyOf(m), mut[m].ver) => Holds(KeyOf(m), mut[m].ver)'
    <3> DEFINE n == mut[m].ver
    <3>1. n \in Nat /\ n <= Version(KeyOf(m)) /\ mut'[m].ver = n
      BY <1>3, <1>4
    <3>2. n' = n
      BY <3>1
    <3> HIDE DEF n
    <3>3. ASSUME Holds(KeyOf(m), n) PROVE Holds(KeyOf(m), n)'
      BY <1>1, <2>1, <3>1, <3>2, <3>3, HoldsOn
    <3> QED
      BY <3>3 DEF n
  <2> QED
    BY <1>2, <1>3, <1>4, <2>1, <2>2 DEF Mutated, Shows
<1>5. CASE UNCHANGED <<mut, report>>
  BY <1>4, <1>5 DEF CoreType, MutationType, Mutated, Shows
<1>6. ASSUME NEW m \in Mutations, MutStep(m)
      PROVE  MutationType' /\ Mutated' /\ Shows'
  <2>1. MutationType' /\ \A n \in Mutations : n # m => mut'[n] = mut[n] /\ report'[n] = report[n]
    BY <1>6, MutStepFacts
  <2>2. KeyOf(m) \in Keys
    BY KeyOfType
  <2>3. /\ mut'[m].ver <= Version(KeyOf(m))'
        /\ mut'[m].body = "json" => mut'[m].did
        /\ report'[m] = "success" => mut'[m].phase = "idle"
        /\ report'[m] = "success" =>
              mut'[m].did /\ (mut'[m].listed => fetch'[KeyOf(m)].phase = "sent")
    BY <1>2, <1>3, <1>6, <2>2, MutStepFacts DEF Mutated
  <2>4. Mutated'
    BY <1>4, <2>1, <2>3 DEF Mutated
  <2>5. Shows'
    BY <1>4, <2>1, <2>3 DEF Shows, Holds
  <2> QED
    BY <2>1, <2>4, <2>5
<1> QED
  BY <1>5, <1>6, MutCases
-----------------------------------------------------------------------------
(* The pages. *)

\* An entry of the history is a list of items, or the rules are null.
LEMMA EntryType ==
    ASSUME HistoryType, NEW k \in Keys, NEW v \in Nat, v # 0, v <= Version(k)
    PROVE  history[k][v] \in (SUBSET Items) \cup {NoRules}
BY DEF HistoryType, Version

\* A form that was filled with a list is one.
LEMMA FormFields ==
    ASSUME NEW s \in SUBSET Items
    PROVE  [base |-> s, items |-> s] \in Forms
BY DEF Forms

\* The page stays, and what its forms were filled with.
Calm ==
    /\ page' = page /\ dialog' \in Items \cup {Nothing}
    /\ draft' \in [Drafts -> Forms]
    /\ \A k \in Drafts : draft'[k].base = draft[k].base

\* All steps leave the page calm, but a new page and an answer that is shown.
LEMMA PageCases ==
    ASSUME CoreType, Next
    PROVE  \/ \E p \in Pages : Navigate(p)
           \/ \E k \in Keys : Shown(k)
           \/ Calm
<1> USE DEF apiVars, serverVars, queryVars, statVars, mutVars, pageVars, localVars
<1>1. PageType
  BY DEF CoreType
<1>2. ASSUME UNCHANGED <<page, draft>>, dialog' = dialog \/ dialog' \in Items \cup {Nothing}
      PROVE  Calm
  BY <1>1, <1>2 DEF PageType, Calm
<1>3. CASE ApiNext /\ UNCHANGED pageVars
  BY <1>2, <1>3
<1>4. CASE \E m \in Mutations : Told(m)
  BY <1>2, <1>4 DEF Told
<1>5. CASE Refresh \/ CloseDialog \/ \E s \in Searches : Search(s)
  BY <1>2, <1>5 DEF Refresh, CloseDialog, OpenDialog, Search
<1>6. CASE Listings
  BY <1>2, <1>6 DEF Listings, AskDelete, OpenDialog, Select, PeerDetails, ConfirmDelete, Filter
<1>7. CASE Settings
  <2>1. ASSUME NEW k \in Drafts, NEW items \in SUBSET Items, Edit(k, items)
        PROVE  Calm
    <3> DEFINE r == [base |-> draft[k].base, items |-> items]
    <3>1. r \in Forms
      BY <1>1 DEF PageType, Forms
    <3>2. draft' = [draft EXCEPT ![k] = r] /\ UNCHANGED <<page, dialog>>
      BY <2>1 DEF Edit
    <3>3. r.base = draft[k].base
      OBVIOUS
    <3> HIDE DEF r
    <3>4. draft' \in [Drafts -> Forms] /\ draft'[k] = r
          /\ \A j \in Drafts : j # k => draft'[j] = draft[j]
      BY <1>1, <3>1, <3>2 DEF PageType
    <3> QED
      BY <1>1, <3>2, <3>3, <3>4 DEF PageType, Calm
  <2>2. CASE \/ ACLRetry \/ TypeToken \/ CreateKey \/ SaveACL \/ SaveConfig
             \/ \E b \in BOOLEAN : ShowCreate(b)
             \/ \E i \in Items : DeleteKey(i)
    BY <1>2, <2>2 DEF ACLRetry, TypeToken, CreateKey, SaveACL, SaveConfig, ShowCreate, DeleteKey, Send
  <2> QED
    BY <1>7, <2>1, <2>2 DEF Settings
<1> QED
  BY <1>3, <1>4, <1>5, <1>6, <1>7 DEF Next, Background, Anywhere

\* The versions shown stay, but for an answer that is shown.
LEMMA VersionsStay ==
    ASSUME CoreType, RequestStep \/ OtherStep
    PROVE  \/ \E k \in Keys : Shown(k)
           \/ Grows /\ \A k \in Keys : cache'[k].ver = cache[k].ver
<1>1. QueryType
  BY DEF CoreType
<1>2. CASE OtherStep
  BY <1>2 DEF OtherStep, Restarts
<1>3. ASSUME RequestStep, UNCHANGED cache
      PROVE  Grows /\ \A k \in Keys : cache'[k].ver = cache[k].ver
  BY <1>3 DEF RequestStep, Grows
<1>4. ASSUME RequestStep, NEW k \in Keys, Fail(k)
      PROVE  Grows /\ \A j \in Keys : cache'[j].ver = cache[j].ver
  <2>1. cache' = [cache EXCEPT ![k] = [ver |-> cache[k].ver, error |-> TRUE]]
    BY <1>4 DEF Fail
  <2>2. \A j \in Keys : cache'[j].ver = cache[j].ver
    BY <1>1, <2>1 DEF QueryType
  <2> QED
    BY <1>4, <2>2 DEF RequestStep, Grows
<1>5. CASE RequestStep
  BY <1>3, <1>4, <1>5 DEF RequestStep, ServerReads, OrphanServed, OrphanEnds, Kept
<1> QED
  BY <1>2, <1>5

LEMMA NextPage ==
    ASSUME CoreType, Fresh, DraftsRebased, Next
    PROVE  PageType' /\ DraftsRebased'
<1> USE DEF serverVars
<1>1. PageType /\ QueryType /\ HistoryType /\ Drafts \subseteq Keys
  BY DEF CoreType, Drafts, Keys
<1>2. \A k \in Keys : /\ cache[k].ver \in Nat /\ cache[k].ver <= Version(k)
                      /\ fetch[k].ans \in Nat /\ fetch[k].ans <= Version(k)
  BY <1>1 DEF QueryType, Entries, Runs, Fresh
<1>3. ASSUME NEW p \in Pages, Navigate(p)
      PROVE  PageType' /\ DraftsRebased'
  <2>1. page' = p /\ dialog' = Nothing /\ UNCHANGED history
        /\ draft' = [k \in Drafts |-> IF p = "settings" THEN FilledFrom(k) ELSE Unfilled]
    BY <1>3 DEF Navigate
  <2>2. \A k \in Drafts : FilledFrom(k) \in Forms /\ (HasData(k) /\ Data(k) # NoRules => FilledFrom(k).base = Data(k))
    <3>1. ASSUME NEW k \in Drafts, HasData(k), Data(k) # NoRules
          PROVE  FilledFrom(k) \in Forms /\ FilledFrom(k).base = Data(k)
      <4>1. history[k][cache[k].ver] \in (SUBSET Items) \cup {NoRules}
        BY <1>1, <1>2, <3>1, EntryType DEF HasData
      <4>2. Data(k) \in SUBSET Items
        BY <3>1, <4>1 DEF Data
      <4>3. FilledFrom(k) = [base |-> Data(k), items |-> Data(k)]
        BY <3>1 DEF FilledFrom
      <4> QED
        BY <4>2, <4>3, FormFields
    <3>2. ASSUME NEW k \in Drafts, ~(HasData(k) /\ Data(k) # NoRules)
          PROVE  FilledFrom(k) \in Forms
      BY <3>2, FormFields DEF FilledFrom, Unfilled
    <3> QED
      BY <3>1, <3>2
  <2>3. Unfilled \in Forms
    BY DEF Unfilled, Forms
  <2>4. PageType'
    BY <2>1, <2>2, <2>3 DEF PageType
  <2>5. \A k \in Keys : cache'[k].ver = cache[k].ver
    <3>1. PICK ks \in SUBSET Keys : Start(ks)
      <4>1. Watches(p) \in SUBSET Keys
        BY DEF Pages, Watches, Keys
      <4> QED
        BY <1>3, <4>1 DEF Navigate, Watch
    <3>2. orphans' = orphans
      BY <1>3 DEF Navigate
    <3>3. Restarts(ks)
      BY <3>1, <3>2, StartRestarts
    <3> QED
      BY <3>3 DEF Restarts
  <2>6. DraftsRebased'
    BY <1>1, <2>1, <2>2, <2>5 DEF DraftsRebased, HasData, Data
  <2> QED
    BY <2>4, <2>6
<1>4. ASSUME NEW k \in Keys, Shown(k)
      PROVE  PageType' /\ DraftsRebased'
  <2> DEFINE s == history[k][fetch[k].ans]
             r == [base |-> s, items |-> s]
  <2>1. /\ fetch[k].ans # 0 /\ UNCHANGED <<history, page, dialog>>
        /\ cache' = [cache EXCEPT ![k] = [ver |-> fetch[k].ans, error |-> FALSE]]
        /\ draft' = IF page = "settings" /\ k \in Drafts /\ Refilled(k)
                    THEN [draft EXCEPT ![k] = r] ELSE draft
    BY <1>4 DEF Shown, Succeed
  <2>2. Refilled(k) => r \in Forms /\ r.base = s
    <3>1. s \in (SUBSET Items) \cup {NoRules}
      BY <1>1, <1>2, <2>1, EntryType
    <3>2. Refilled(k) => s # NoRules
      BY DEF Refilled
    <3> QED
      BY <3>1, <3>2, FormFields
  <2>3. cache'[k].ver = fetch[k].ans /\ \A j \in Keys : j # k => cache'[j] = cache[j]
    BY <1>1, <2>1 DEF QueryType
  <2>4. ~Refilled(k) => s = NoRules \/ (HasData(k) /\ s = Data(k))
    BY DEF Refilled
  <2> HIDE DEF r
  <2>6. PageType'
    BY <1>1, <2>1, <2>2 DEF PageType
  <2>7. ASSUME page = "settings", NEW j \in Drafts, cache'[j].ver # 0,
               history[j][cache'[j].ver] # NoRules
        PROVE  draft'[j].base = history[j][cache'[j].ver]
    <3>1. CASE j = k /\ Refilled(k)
      <4>1. draft'[k] = r
        BY <1>1, <2>1, <2>7, <3>1 DEF PageType
      <4> QED
        BY <2>2, <2>3, <3>1, <4>1
    <3>2. CASE j = k /\ ~Refilled(k)
      <4>1. draft' = draft
        BY <2>1, <3>2
      <4>2. HasData(k) /\ s = Data(k)
        BY <2>3, <2>4, <2>7, <3>2
      <4>3. draft[k].base = Data(k)
        BY <2>3, <2>7, <3>2, <4>2 DEF DraftsRebased
      <4> QED
        BY <2>3, <3>2, <4>1, <4>2, <4>3
    <3>3. CASE j # k
      <4>1. draft'[j] = draft[j]
        BY <1>1, <2>1, <3>3 DEF PageType
      <4>2. cache'[j] = cache[j]
        BY <1>1, <2>3, <3>3
      <4> QED
        BY <2>7, <4>1, <4>2 DEF DraftsRebased, HasData, Data
    <3> QED
      BY <3>1, <3>2, <3>3
  <2>8. DraftsRebased'
    BY <2>1, <2>7 DEF DraftsRebased, HasData, Data
  <2> QED
    BY <2>6, <2>8
<1>5. ASSUME Calm, Grows, \A k \in Keys : cache'[k].ver = cache[k].ver
      PROVE  PageType' /\ DraftsRebased'
  <2>1. PageType'
    BY <1>1, <1>5 DEF PageType, Calm
  <2>2. \A k \in Keys : \A i \in 1..Version(k) : history'[k][i] = history[k][i]
    BY <1>1, <1>5, GrowsFacts
  <2>3. \A k \in Keys : cache[k].ver # 0 => cache[k].ver \in 1..Version(k)
    BY <1>1, <1>2 DEF HistoryType, Version
  <2>4. DraftsRebased'
    BY <1>1, <1>5, <2>2, <2>3 DEF Calm, DraftsRebased, HasData, Data
  <2> QED
    BY <2>1, <2>4
<1> QED
  BY <1>3, <1>4, <1>5, PageCases, StepCases, VersionsStay

-----------------------------------------------------------------------------
(* The invariant. *)

LEMMA InitIInv == Init => IInv
<1> SUFFICES ASSUME Init PROVE IInv
  OBVIOUS
<1> USE DEF Init, ApiInit
<1>1. NoStats = -1 /\ Idle.ans = 0 /\ Idle.prev = NoStats /\ Idle \in Runs
      /\ [Idle EXCEPT !.phase = "sent"] \in Runs /\ [Idle EXCEPT !.phase = "sent"].ans = 0
      /\ [Idle EXCEPT !.phase = "sent"].prev = NoStats
  BY DEF NoStats, Idle, Runs
<1>2. HistoryType /\ \A k \in Keys : Version(k) = 1
  <2>1. \A k \in Keys : history[k] = <<IF k = "acl" THEN NoRules ELSE {}>>
    OBVIOUS
  <2>2. \A k \in Keys : history[k] \in Seq(Listed(k)) /\ Len(history[k]) = 1
    <3>1. ASSUME NEW k \in Keys
          PROVE  history[k] \in Seq(Listed(k)) /\ Len(history[k]) = 1
      <4>1. PICK e \in Listed(k) : history[k] = <<e>>
        BY <2>1 DEF Listed
      <4>2. <<e>> \in Seq(Listed(k)) /\ Len(<<e>>) = 1
        BY SingleFacts
      <4> QED
        BY <4>1, <4>2
    <3> QED
      BY <3>1
  <2>3. history \in [Keys -> Seq((SUBSET Items) \cup {NoRules})]
    <3>1. \A k \in Keys : <<IF k = "acl" THEN NoRules ELSE {}>> \in Seq((SUBSET Items) \cup {NoRules})
      BY SingleFacts
    <3> QED
      BY <3>1
  <2> QED
    BY <2>2, <2>3 DEF HistoryType, Version
<1>3. QueryType /\ \A k \in Keys : cache[k].ver = 0 /\ fetch[k].ans = 0 /\ fetch[k].prev = NoStats
  BY <1>1 DEF QueryType, Entries
<1>4. StatType /\ Fresh /\ Seen
  BY <1>1, <1>2, <1>3, WebApiAssumption DEF StatType, Fresh, Seen
<1>5. NoMutation \in Requests /\ NoMutation.ver = 0 /\ NoMutation.body = "none"
  BY DEF NoMutation, Requests
<1>6. MutationType /\ Mutated /\ Shows
  BY <1>2, <1>5, KeyOfType DEF MutationType, Mutated, Shows
<1>7. PageType
  BY DEF PageType, Unfilled, Forms
<1>8. DraftsRebased
  BY <1>3 DEF DraftsRebased, HasData, Drafts, Keys
<1> QED
  BY <1>2, <1>3, <1>4, <1>6, <1>7, <1>8 DEF IInv, CoreType

LEMMA NextIInv == IInv /\ [Next]_vars => IInv'
<1> SUFFICES ASSUME IInv, [Next]_vars PROVE IInv'
  OBVIOUS
<1>1. CASE UNCHANGED vars
  BY <1>1 DEF IInv, CoreType, HistoryType, QueryType, StatType, MutationType, PageType, Fresh, Seen,
              Mutated, Shows, Holds, DraftsRebased, HasData, Data, Version, vars, apiVars,
              serverVars, queryVars, statVars, mutVars, localVars
<1>2. CASE Next
  <2>1. RequestStep \/ OtherStep
    BY <1>2, StepCases DEF IInv
  <2>2. HistoryType' /\ QueryType' /\ StatType' /\ Fresh' /\ Seen'
    BY <2>1, RequestStepQuery, OtherStepQuery DEF IInv
  <2>3. MutationType' /\ Mutated' /\ Shows'
    BY <1>2, NextMutated DEF IInv
  <2>4. PageType' /\ DraftsRebased'
    BY <1>2, NextPage DEF IInv
  <2> QED
    BY <2>2, <2>3, <2>4 DEF IInv, CoreType
<1> QED
  BY <1>1, <1>2

\* What is shown, fetched and reported agrees, in every state.
THEOREM Invariance == Spec => []IInv
<1> QED
  BY InitIInv, NextIInv, PTL DEF Spec

\* The growth of the highest total is in the point that shows it, for every number of
\* pushes and cancelled requests, and every length of the chart.
LEMMA NextCovers ==
    ASSUME IInv, Next, told' # told
    PROVE  chart'[Len(chart')] >= told' - told
<1> USE DEF statVars
<1>1. QueryType /\ StatType /\ Seen
  BY DEF IInv, CoreType
<1>2. ASSUME NEW k \in Keys, Succeed(k) PROVE chart'[Len(chart')] >= told' - told
  <2>1. fetch[k] \in Runs /\ fetch[k].prev <= told /\ Effects(k, fetch[k])
    BY <1>1, <1>2 DEF QueryType, Seen, Succeed
  <2> QED
    BY <1>1, <2>1, EffectsFacts DEF Seen
<1>3. ASSUME NEW o \in orphans, OrphanEnds(o) PROVE chart'[Len(chart')] >= told' - told
  <2>1. o.key \in Keys /\ o.run \in Runs /\ o.run.prev <= told /\ Effects(o.key, o.run)
    BY <1>1, <1>3 DEF QueryType, Seen, OrphanEnds
  <2> QED
    BY <1>1, <2>1, EffectsFacts DEF Seen
<1>4. RequestStep
  BY StepCases DEF IInv, OtherStep
<1> QED
  BY <1>2, <1>3, <1>4 DEF RequestStep, Shown, ServerReads, Fail, OrphanServed

\* The chart misses no traffic, whatever is pushed, cancelled and left in between.
THEOREM ChartCoversTraffic == Spec => TrafficCovered
<1>1. IInv /\ [Next]_vars => [told' # told => chart'[Len(chart')] >= told' - told]_vars
  BY NextCovers
<1> QED
  BY <1>1, Invariance, PTL DEF Spec, TrafficCovered

\* A form of the settings starts from the newest answer, however it came.
THEOREM DraftsAreRebased == Spec => []DraftsRebased
<1>1. IInv => DraftsRebased
  BY DEF IInv
<1> QED
  BY <1>1, Invariance, PTL

\* A reported success is real, and shown unless fetching it fails.
THEOREM SuccessIsShown == Spec => []SuccessShown
<1>1. IInv => SuccessShown
  BY DEF IInv, Shows, Holds, SuccessShown, FetchedSince
<1> QED
  BY <1>1, Invariance, PTL

-----------------------------------------------------------------------------
(* The types of the rest: what the administrator sets, and the bounds. *)

\* The coordinator, the token and what is counted.
OuterType ==
    /\ access \in {"open", "right", "wrong"} /\ up \in BOOLEAN
    /\ outages \in 0..MaxOutages /\ pushes \in 0..MaxPushes /\ navs \in 0..MaxNavs

\* The page's own state; the page watches its own queries and no others.
LocalType ==
    /\ watched = Watches(page) /\ stale \subseteq Keys
    /\ search \subseteq Items /\ filter \in {"all", "active", "inactive"}
    /\ creating \in BOOLEAN /\ selected \in Items \cup {Nothing}

\* The coordinator's outages, the hub's pushes, and the token typed.
LEMMA NextOuter == ASSUME OuterType, Next PROVE OuterType'
<1> USE WebApiAssumption, ConsoleAssumption
        DEF OuterType, apiVars, serverVars, queryVars, statVars, mutVars, pageVars, localVars
<1>1. CASE UNCHANGED <<access, up, outages, pushes, navs>>
  BY <1>1
<1>2. \A k \in Keys : \A run : Effects(k, run) => UNCHANGED pushes
  BY DEF Effects
<1>3. ASSUME NEW o \in orphans, OrphanEnds(o), UNCHANGED navs PROVE OuterType'
  BY <1>1, <1>3 DEF OrphanEnds, Effects
<1>4. CASE ApiNext /\ UNCHANGED pageVars
  <2>1. CASE \E k \in Keys : Change(k) \/ Poll(k) \/ ServerReads(k) \/ Fail(k)
    BY <1>1, <1>4, <2>1 DEF Change, Poll, ServerReads, Fail
  <2>2. CASE \E o \in orphans : OrphanServed(o)
    BY <1>1, <1>4, <2>2 DEF OrphanServed
  <2>3. CASE \E m \in Mutations : Executed(m) \/ NotExecuted(m) \/ AnswerLost(m)
    BY <1>1, <1>4, <2>3 DEF Executed, NotExecuted, AnswerLost
  <2>4. UNCHANGED navs
    BY <1>4
  <2>5. CASE Outage
    BY <2>4, <2>5 DEF Outage
  <2>6. CASE Pushed
    BY <2>4, <2>6 DEF Pushed
  <2>7. QED
    BY <1>3, <1>4, <2>1, <2>2, <2>3, <2>4, <2>5, <2>6 DEF ApiNext
<1>5. CASE \E k \in Keys : Shown(k)
  BY <1>1, <1>2, <1>5 DEF Shown, Succeed
<1>6. CASE \E m \in Mutations : Told(m)
  BY <1>1, <1>6 DEF Told, Report
<1>7. CASE Anywhere
  <2>1. ASSUME NEW p \in Pages, Navigate(p) PROVE OuterType'
    BY <2>1 DEF Navigate
  <2>2. CASE Refresh \/ CloseDialog \/ \E s \in Searches : Search(s)
    BY <1>1, <2>2 DEF Refresh, CloseDialog, OpenDialog, Search
  <2>3. QED
    BY <1>7, <2>1, <2>2 DEF Anywhere
<1>8. CASE Listings
  BY <1>1, <1>8 DEF Listings, AskDelete, OpenDialog, Select, PeerDetails, ConfirmDelete, Filter
<1>9. CASE Settings
  <2>1. CASE TypeToken
    BY <2>1 DEF TypeToken
  <2>2. CASE Settings /\ ~ TypeToken
    BY <1>1, <2>2 DEF Settings, ShowCreate, CreateKey, SaveACL, SaveConfig, ACLRetry, DeleteKey, Send, Edit
  <2>3. QED
    BY <1>9, <2>1, <2>2
<1>10. QED
  BY <1>4, <1>5, <1>6, <1>7, <1>8, <1>9 DEF Next, Background

\* Opening a page replaces what is watched; nothing else does.
LEMMA NextLocal == ASSUME LocalType, Next PROVE LocalType'
<1> USE DEF LocalType, apiVars, serverVars, queryVars, statVars, mutVars, pageVars, localVars
<1>1. CASE UNCHANGED <<watched, page, stale, search, filter, creating, selected>>
  BY <1>1
<1>2. CASE ApiNext /\ UNCHANGED pageVars
  BY <1>1, <1>2 DEF ApiNext, Outage, Pushed, Change, Poll, ServerReads, Fail, OrphanServed, OrphanEnds,
                    Executed, NotExecuted, AnswerLost
<1>3. CASE \E k \in Keys : Shown(k)
  BY <1>3 DEF Shown, Succeed
<1>4. ASSUME NEW m \in Mutations, Told(m) PROVE LocalType'
  <2>1. stale' \subseteq Keys
    BY <1>4, KeyOfType DEF Told, Report, Invalidate
  <2>2. creating' \in BOOLEAN
    BY <1>4 DEF Told
  <2>3. QED
    BY <1>4, <2>1, <2>2 DEF Told, Report
<1>5. CASE Anywhere
  <2>1. ASSUME NEW p \in Pages, Navigate(p) PROVE LocalType'
    BY <2>1 DEF Navigate, Watch
  <2>2. CASE \E s \in Searches : Search(s)
    BY <2>2, ConsoleAssumption DEF Search
  <2>3. CASE Refresh \/ CloseDialog
    BY <1>1, <2>3 DEF Refresh, CloseDialog, OpenDialog
  <2>4. QED
    BY <1>5, <2>1, <2>2, <2>3 DEF Anywhere
<1>6. CASE Listings
  <2>1. ASSUME NEW i \in Items, Select(i) PROVE LocalType'
    BY <2>1 DEF Select
  <2>2. ASSUME NEW f \in {"all", "active", "inactive"}, Filter(f) PROVE LocalType'
    BY <2>2 DEF Filter
  <2>3. CASE ConfirmDelete \/ \E i \in Items : AskDelete(i) \/ PeerDetails(i)
    BY <1>1, <2>3 DEF AskDelete, OpenDialog, PeerDetails, ConfirmDelete
  <2>4. QED
    BY <1>6, <2>1, <2>2, <2>3 DEF Listings
<1>7. CASE Settings
  <2>1. ASSUME NEW b \in BOOLEAN, ShowCreate(b) PROVE LocalType'
    BY <2>1 DEF ShowCreate
  <2>2. CASE \/ CreateKey \/ SaveACL \/ SaveConfig \/ ACLRetry \/ TypeToken
             \/ \E i \in Items : DeleteKey(i)
             \/ \E k \in Drafts, items \in SUBSET Items : Edit(k, items)
    BY <1>1, <2>2 DEF CreateKey, SaveACL, SaveConfig, ACLRetry, TypeToken, DeleteKey, Send, Edit
  <2>3. QED
    BY <1>7, <2>1, <2>2 DEF Settings
<1>8. QED
  BY <1>2, <1>3, <1>4, <1>5, <1>6, <1>7 DEF Next, Background

\* Everything has its type, in every state: what is shown and what an answer carries
\* was listed, and only the queries of the mounted page are watched.
THEOREM ConsoleTypes == Spec => []TypeOK
<1>1. Init => OuterType /\ LocalType
  <2> SUFFICES ASSUME Init PROVE OuterType /\ LocalType
    OBVIOUS
  <2>1. access \in {"open", "right", "wrong"} /\ up = TRUE /\ outages = 0 /\ pushes = 0 /\ navs = 0
    BY DEF Init, ApiInit
  <2>2. /\ watched = Watches(page) /\ stale = {} /\ search = Items /\ filter = "all"
        /\ creating = FALSE /\ selected = Nothing
    BY DEF Init, ApiInit
  <2>3. OuterType
    BY <2>1, WebApiAssumption, ConsoleAssumption DEF OuterType
  <2>4. LocalType
    BY <2>2 DEF LocalType
  <2>5. QED
    BY <2>3, <2>4
<1>2. OuterType /\ LocalType /\ [Next]_vars => (OuterType /\ LocalType)'
  <2>1. OuterType /\ LocalType /\ UNCHANGED vars => (OuterType /\ LocalType)'
    BY DEF OuterType, LocalType, vars, apiVars, serverVars, queryVars, statVars, mutVars, localVars
  <2>2. QED
    BY <2>1, NextOuter, NextLocal
<1>3. IInv /\ OuterType /\ LocalType => TypeOK
  <2> SUFFICES ASSUME IInv, OuterType, LocalType PROVE TypeOK
    OBVIOUS
  <2>1. /\ history \in [Keys -> Seq((SUBSET Items) \cup {NoRules})]
        /\ \A k \in Keys : history[k] \in Seq(Listed(k))
        /\ cache \in [Keys -> [ver : Nat, error : BOOLEAN]]
        /\ fetch \in [Keys -> Runs]
        /\ orphans \subseteq [key : Keys, run : Runs]
    BY DEF IInv, CoreType, HistoryType, QueryType, Entries
  <2>2. \A k \in Keys : cache[k].ver <= Version(k) /\ fetch[k].ans <= Version(k)
    BY DEF IInv, Fresh
  <2>3. StatType /\ MutationType /\ PageType
    BY DEF IInv, CoreType
  <2>4. QED
    BY <2>1, <2>2, <2>3, Zenon DEF StatType, MutationType, PageType, OuterType, LocalType, TypeOK, Requests, Forms
<1>4. QED
  BY <1>1, <1>2, <1>3, Invariance, PTL DEF Spec

-----------------------------------------------------------------------------
(* The refinement: every query is a view that never goes back. *)

LEMMA StepRefines ==
    ASSUME IInv, Next
    PROVE  [Promise!Next]_<<[k \in Keys |-> Version(k)], [k \in Keys |-> cache[k].ver]>>
<1> DEFINE current == [k \in Keys |-> Version(k)]
           view == [k \in Keys |-> cache[k].ver]
<1>1. HistoryType /\ QueryType /\ Fresh
  BY DEF IInv, CoreType
<1>2. ASSUME NEW k \in Keys, Shown(k)
      PROVE  Promise!Refresh(k)
  <2>1. /\ fetch[k].ans # 0 /\ UNCHANGED history
        /\ cache' = [cache EXCEPT ![k] = [ver |-> fetch[k].ans, error |-> FALSE]]
    BY <1>2 DEF Shown, Succeed, serverVars
  <2>2. fetch[k].ans \in 1..Version(k) /\ fetch[k].ans >= cache[k].ver
    <3>1. fetch[k].ans \in Nat /\ Version(k) \in Nat /\ cache[k].ver \in Nat
      BY <1>1 DEF QueryType, Runs, Entries, HistoryType, Version
    <3> QED
      BY <1>1, <2>1, <3>1 DEF Fresh
  <2>3. view' = [view EXCEPT ![k] = fetch[k].ans]
    BY <1>1, <2>1 DEF QueryType
  <2>4. current' = current
    BY <2>1 DEF Version
  <2> QED
    BY <2>2, <2>3, <2>4 DEF Promise!Refresh
<1>3. ASSUME Grows, \A k \in Keys : cache'[k].ver = cache[k].ver
      PROVE  (\E k \in Keys : Promise!Change(k)) \/ UNCHANGED <<current, view>>
  <2>1. view' = view
    BY <1>3
  <2>2. CASE UNCHANGED history
    BY <2>1, <2>2 DEF Version
  <2>3. ASSUME NEW k \in Keys, NEW s \in Listed(k),
               history' = [history EXCEPT ![k] = Append(@, s)]
        PROVE  Promise!Change(k)
    <3>1. Version(k)' = Version(k) + 1 /\ \A j \in Keys : j # k => Version(j)' = Version(j)
      <4>1. history'[k] = Append(history[k], s) /\ history[k] \in Seq(Listed(k))
            /\ \A j \in Keys : j # k => history'[j] = history[j]
        BY <1>1, <2>3 DEF HistoryType
      <4> QED
        BY <4>1 DEF Version
    <3>2. current' = [current EXCEPT ![k] = current[k] + 1]
      BY <3>1
    <3> QED
      BY <2>1, <3>2 DEF Promise!Change
  <2> QED
    BY <1>3, <2>2, <2>3 DEF Grows
<1>4. RequestStep \/ OtherStep
  BY StepCases DEF IInv
<1> QED
  BY <1>2, <1>3, <1>4, VersionsStay DEF Promise!Next, IInv

\* Every query the UI shows implements Views: it never goes back.
THEOREM ViewsImplemented == Spec => NeverBack
<1>1. Init => Promise!Init
  BY DEF Init, ApiInit, Promise!Init, Version
<1>2. IInv /\ [Next]_vars => [Promise!Next]_<<[k \in Keys |-> Version(k)],
                                              [k \in Keys |-> cache[k].ver]>>
  <2>1. ASSUME UNCHANGED vars
        PROVE  UNCHANGED <<[k \in Keys |-> Version(k)], [k \in Keys |-> cache[k].ver]>>
    BY <2>1 DEF vars, apiVars, serverVars, queryVars, Version
  <2> QED
    BY <2>1, StepRefines
<1> QED
  BY <1>1, <1>2, Invariance, PTL DEF Spec, NeverBack, Promise!Spec
=============================================================================
