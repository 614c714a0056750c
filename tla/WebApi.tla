------------------------------- MODULE WebApi -------------------------------
(***************************************************************************)
(* The client of the coordinator's API in the web UI: the queries and      *)
(* mutations of web/src/lib/api.ts, the store they feed                    *)
(* (web/src/lib/store.ts) and the query cache they run on (react-query,    *)
(* which is not under src/ and is modelled as this code configures it).    *)
(*                                                                         *)
(* A query has a key.  What the coordinator would answer is the last entry *)
(* of the key's history, a set of items: nodes, peers, auth keys or rules; *)
(* the total of the status, which only grows here, is its length.  The     *)
(* cache holds the number of the entry it was given.  A request stands for *)
(* its first try and the three that follow a failure.                      *)
(***************************************************************************)
EXTENDS Integers, Sequences, FiniteSets

CONSTANTS
    Items,          \* what is listed
    NoRules,        \* the rules of a coordinator that was never given any: null
    MaxPoints,      \* MAX_TRAFFIC_HISTORY (30)
    MaxVersion,     \* bound: versions of what a key lists
    MaxOutages,     \* bound: times the coordinator is out of reach
    MaxPushes,      \* bound: status messages from the hub
    MaxOrphans      \* bound: cancelled requests that are still under way

ASSUME WebApiAssumption ==
    /\ \A s \in SUBSET Items : s # NoRules
    /\ MaxPoints \in Nat \ {0}
    /\ MaxVersion \in Nat \ {0}
    /\ MaxOutages \in Nat
    /\ MaxPushes \in Nat
    /\ MaxOrphans \in Nat

Keys == {"stats", "nodes", "peers", "topology", "auth-keys", "acl", "config"}

\* The keys whose path begins with /v1/admin: the token is sent with these.
Admin == {"nodes", "auth-keys", "acl", "config"}

\* MUTANT of Polled: the list of nodes is fetched once.
PolledNot == {"stats", "peers", "topology"}

\* The keys with a refetchInterval.
Polled == {"stats", "nodes", "peers", "topology"}

Mutations == {"deleteNode", "createKey", "deleteKey", "saveACL", "saveConfig"}

\* What a mutation changes, and invalidates when it succeeds.
KeyOf(m) == CASE m = "deleteNode" -> "nodes"
              [] m \in {"createKey", "deleteKey"} -> "auth-keys"
              [] m = "saveACL" -> "acl"
              [] m = "saveConfig" -> "config"

VARIABLES
    access,         \* no admin secret is configured, or the token kept is right, or not
    up,             \* the coordinator can be reached
    history,        \* per key: what it has listed, up to now
    watched,        \* the keys the mounted page observes
    cache,          \* per key: the entry shown (0: none) and the error of the last fetch
    stale,          \* the keys invalidated since they were last fetched
    fetch,          \* per key: the request under way
    orphans,        \* requests cancelled in favour of another
    stats,          \* store.stats: the total in it, or NoStats
    chart,          \* store.trafficHistory: the growth of each point
    told,           \* history: the highest total received
    mut,            \* per mutation: its request
    report,         \* per mutation: what the last toast said
    outages, pushes \* bounded

serverVars == <<up, history, outages>>
queryVars == <<cache, stale, fetch, orphans>>
statVars == <<stats, chart, told, pushes>>
mutVars == <<mut, report>>
apiVars == <<serverVars, access, watched, queryVars, statVars, mutVars>>

NoStats == -1

Version(k) == Len(history[k])

\* What may be listed under a key.
Listed(k) == (SUBSET Items) \cup (IF k = "acl" THEN {NoRules} ELSE {})

\* fetch: idle; sent; answered with an entry of the history, or 0 for a failure.
\* prev is what the queryFn of the statistics took from the store beforehand.
Idle == [phase |-> "idle", ans |-> 0, prev |-> NoStats]

NoMutation == [phase |-> "idle", did |-> FALSE, body |-> "none", ver |-> 0, listed |-> FALSE,
               items |-> {}]

ApiInit ==
    /\ access \in {"open", "right", "wrong"}
    /\ up = TRUE /\ outages = 0
    /\ history = [k \in Keys |-> <<IF k = "acl" THEN NoRules ELSE {}>>]
    /\ cache = [k \in Keys |-> [ver |-> 0, error |-> FALSE]]
    /\ stale = {}
    /\ orphans = {}
    /\ stats = NoStats /\ chart = <<>> /\ told = 0 /\ pushes = 0
    /\ mut = [m \in Mutations |-> NoMutation]
    /\ report = [m \in Mutations |-> "none"]

-----------------------------------------------------------------------------
(* The coordinator. *)

\* Somebody else changes what a key lists.  A policy that is put without rules, and a
\* restart from a file without any, leave rules that are null.
Change(k) ==
    /\ Version(k) < MaxVersion
    /\ \E s \in Listed(k) : history' = [history EXCEPT ![k] = Append(@, s)]
    /\ UNCHANGED <<up, outages, access, watched, queryVars, statVars, mutVars>>

\* The coordinator goes out of reach, or comes back.
Outage ==
    /\ up => outages < MaxOutages
    /\ up' = ~up
    /\ outages' = IF up THEN outages + 1 ELSE outages
    /\ UNCHANGED <<history, access, watched, queryVars, statVars, mutVars>>

\* The handlers of the admin paths accept the token; those of peers, topology and
\* status would too, but fetchApi does not send it there.
Allowed(k) == access = "open" \/ (k \in Admin /\ access = "right")

\* What the answer to a request for k carries: 0 stands for a failure.
Answer(k) == IF up /\ Allowed(k) THEN Version(k) ELSE 0

-----------------------------------------------------------------------------
(* Queries. *)

HasData(k) == cache[k].ver # 0

Fetching(k) == fetch[k].phase # "idle"

\* isLoading: nothing to show, and a first answer is awaited.
Loading(k) == Fetching(k) /\ ~HasData(k)

Started(k) ==
    [phase |-> "sent", ans |-> 0, prev |-> IF k = "stats" THEN stats ELSE NoStats]

\* Requests for the keys in ks leave.  Without data an old error is forgotten.
Start(ks) ==
    /\ fetch' = [k \in Keys |-> IF k \in ks THEN Started(k) ELSE fetch[k]]
    /\ cache' = [k \in Keys |-> IF k \in ks /\ ~HasData(k) THEN [ver |-> 0, error |-> FALSE]
                                ELSE cache[k]]

\* refetch and invalidateQueries cancel a request under way, if there is data.
Cancels(k) == HasData(k)

\* refetch: of the requests under way some are cancelled, the others are left.
Refetch(ks) ==
    LET gone == {k \in ks : Fetching(k) /\ Cancels(k)}
        new == gone \cup {k \in ks : ~Fetching(k)}
    IN  /\ orphans' = orphans \cup {[key |-> k, run |-> fetch[k]] : k \in gone}
        /\ Cardinality(orphans') <= MaxOrphans
        /\ Start(new)

\* An interval has passed, or the window has the focus again: a key that is
\* watched is fetched, unless it is being fetched.
Poll(k) ==
    /\ k \in watched
    /\ ~Fetching(k)
    /\ Start({k})
    /\ UNCHANGED <<serverVars, access, watched, stale, orphans, statVars, mutVars>>

\* The coordinator receives a request and answers it, or the last try has failed.
Served(run, k) == [run EXCEPT !.phase = "answered", !.ans = Answer(k)]

ServerReads(k) ==
    /\ fetch[k].phase = "sent"
    /\ fetch' = [fetch EXCEPT ![k] = Served(@, k)]
    /\ UNCHANGED <<serverVars, access, watched, cache, stale, orphans, statVars, mutVars>>

\* MUTANT of Delta: the store is asked for the total again, after setStats.
DeltaOf(total, prev) == 0

\* What useStats adds to the chart: the growth since the total it saw.
Delta(total, prev) == IF prev = NoStats THEN total
                      ELSE IF total > prev THEN total - prev ELSE 0

\* addTrafficPoint: the oldest point goes when there are too many.
AddPoint(growth) ==
    LET points == Append(chart, growth)
    IN  chart' = IF Len(points) > MaxPoints THEN Tail(points) ELSE points

\* What the queryFn does besides returning the answer.
Effects(k, run) ==
    IF k = "stats"
    THEN /\ stats' = run.ans
         /\ AddPoint(Delta(run.ans, run.prev))
         /\ told' = IF run.ans > told THEN run.ans ELSE told
         /\ UNCHANGED pushes
    ELSE UNCHANGED statVars

\* An answer arrives and becomes what is shown.
Succeed(k) ==
    /\ fetch[k].phase = "answered" /\ fetch[k].ans # 0
    /\ cache' = [cache EXCEPT ![k] = [ver |-> fetch[k].ans, error |-> FALSE]]
    /\ stale' = stale \ {k}
    /\ Effects(k, fetch[k])
    /\ fetch' = [fetch EXCEPT ![k] = Idle]
    /\ UNCHANGED <<serverVars, access, watched, orphans, mutVars>>

\* All tries have failed: the error is shown; the data stay.
Fail(k) ==
    /\ fetch[k].phase = "answered" /\ fetch[k].ans = 0
    /\ cache' = [cache EXCEPT ![k] = [ver |-> cache[k].ver, error |-> TRUE]]
    /\ fetch' = [fetch EXCEPT ![k] = Idle]
    /\ UNCHANGED <<serverVars, access, watched, stale, orphans, statVars, mutVars>>

\* A cancelled request goes on: nobody aborts it.
OrphanServed(o) ==
    /\ o.run.phase = "sent"
    /\ orphans' = (orphans \ {o}) \cup {[key |-> o.key, run |-> Served(o.run, o.key)]}
    /\ UNCHANGED <<serverVars, access, watched, cache, stale, fetch, statVars, mutVars>>

\* MUTANT of Kept: the answer of a cancelled request is shown like another.
KeptAll(o) == IF o.run.ans = 0 THEN cache
              ELSE [cache EXCEPT ![o.key] = [ver |-> o.run.ans, error |-> FALSE]]

\* What the cache holds when a cancelled request has ended.
Kept(o) == cache

\* Its queryFn feeds the store all the same.
OrphanEnds(o) ==
    /\ o.run.phase = "answered"
    /\ orphans' = orphans \ {o}
    /\ IF o.run.ans = 0 THEN UNCHANGED statVars ELSE Effects(o.key, o.run)
    /\ cache' = Kept(o)
    /\ UNCHANGED <<serverVars, access, watched, stale, fetch, mutVars>>

\* The hub pushes its status, whose totals are always zero, into the store
\* (OnMessage of LiveUpdates).
Pushed ==
    /\ pushes < MaxPushes
    /\ stats' = 0
    /\ pushes' = pushes + 1
    /\ UNCHANGED <<serverVars, access, watched, queryVars, chart, told, mutVars>>

-----------------------------------------------------------------------------
(* Mutations.  Each hook has one request at a time: its button is disabled. *)

Pending(m) == mut[m].phase # "idle"

\* mutateAsync: items is what the request deletes, or the list it saves.
Submit(m, items) ==
    /\ ~Pending(m)
    /\ Version(KeyOf(m)) < MaxVersion
    /\ mut' = [mut EXCEPT ![m] = [NoMutation EXCEPT !.phase = "sent", !.items = items]]
    /\ report' = [report EXCEPT ![m] = "none"]

Last(k) == history[k][Version(k)]

\* What is listed when the mutation has been carried out.
Outcomes(m, items) ==
    CASE m \in {"deleteNode", "deleteKey"} -> {Last(KeyOf(m)) \ items}
      [] m = "createKey" -> {Last("auth-keys") \cup {i} : i \in Items \ Last("auth-keys")}
      [] m \in {"saveACL", "saveConfig"} -> {items}

\* A node or a key that is not there is not found.
Refused(m, items) ==
    \/ ~up \/ ~Allowed(KeyOf(m))
    \/ m \in {"deleteNode", "deleteKey"} /\ ~(items \subseteq Last(KeyOf(m)))

\* The body of the answer: 204 and the 200 of the ACL have none.
BodyOf(m) == IF m \in {"createKey", "saveConfig"} THEN "json" ELSE "empty"

\* The coordinator carries the request out.
Executed(m) ==
    /\ mut[m].phase = "sent"
    /\ ~Refused(m, mut[m].items)
    /\ \E s \in Outcomes(m, mut[m].items) :
        history' = [history EXCEPT ![KeyOf(m)] = Append(@, s)]
    /\ mut' = [mut EXCEPT ![m] = [@ EXCEPT !.phase = "answered", !.did = TRUE,
                                  !.body = BodyOf(m), !.ver = Version(KeyOf(m)) + 1]]
    /\ UNCHANGED <<up, outages, access, watched, queryVars, statVars, report>>

\* It refuses the request, or the rules or configuration in it, or cannot be reached.
NotExecuted(m) ==
    /\ mut[m].phase = "sent"
    /\ m \in {"saveACL", "saveConfig"} \/ Refused(m, mut[m].items)
    /\ mut' = [mut EXCEPT ![m] = [@ EXCEPT !.phase = "answered", !.body = "error"]]
    /\ UNCHANGED <<serverVars, access, watched, queryVars, statVars, report>>

\* The answer of a request that was carried out does not arrive.
AnswerLost(m) ==
    /\ mut[m].phase = "answered" /\ mut[m].did
    /\ ~up
    /\ mut' = [mut EXCEPT ![m] = [@ EXCEPT !.body = "error"]]
    /\ UNCHANGED <<serverVars, access, watched, queryVars, statVars, report>>

\* fetchApi: the status is 2xx and the body is JSON.
Succeeds(m) == mut[m].body = "json"

\* MUTANT of Invalidate: a fetch under way is taken to bring the change.
InvalidateIdle(k) ==
    /\ IF k \in watched /\ ~Fetching(k) THEN Refetch({k}) ELSE UNCHANGED <<cache, fetch, orphans>>
    /\ stale' = stale \cup {k}

\* onSuccess: the key is invalidated, and fetched anew if the page watches it.
Invalidate(k) ==
    /\ IF k \in watched THEN Refetch({k}) ELSE UNCHANGED <<cache, fetch, orphans>>
    /\ stale' = stale \cup {k}

\* The mutation ends for the UI.
Report(m) ==
    /\ mut[m].phase = "answered"
    /\ mut' = [mut EXCEPT ![m] = [@ EXCEPT !.phase = "idle",
                                  !.listed = HasData(KeyOf(m)) /\ KeyOf(m) \in watched]]
    /\ IF Succeeds(m)
       THEN /\ report' = [report EXCEPT ![m] = "success"]
            /\ Invalidate(KeyOf(m))
       ELSE /\ report' = [report EXCEPT ![m] = "failure"]
            /\ UNCHANGED queryVars
    /\ UNCHANGED <<serverVars, access, watched, statVars>>

-----------------------------------------------------------------------------

\* A page is mounted: what it watches and has no data, or stale data, is fetched;
\* data younger than staleTime is not.  Requests of the page before go on.
Watch(ks) ==
    /\ watched' = ks
    /\ \E old \in SUBSET {k \in ks : HasData(k)} :
        Start({k \in ks : ~Fetching(k) /\ (~HasData(k) \/ k \in stale \/ k \in old)})

ApiNext ==
    \/ Outage \/ Pushed
    \/ \E k \in Keys : Change(k) \/ Poll(k) \/ ServerReads(k) \/ Fail(k)
    \/ \E o \in orphans : OrphanServed(o) \/ OrphanEnds(o)
    \/ \E m \in Mutations : Executed(m) \/ NotExecuted(m) \/ AnswerLost(m)
=============================================================================
