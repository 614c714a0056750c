------------------------------ MODULE Console -------------------------------
(***************************************************************************)
(* The pages of the web UI (web/src/pages/), one of which is mounted: what *)
(* each shows of the queries it watches, which controls it offers, and     *)
(* what they do.  A page keeps its own state only while it is mounted; the *)
(* cache, the store and the requests outlive it.                           *)
(*                                                                         *)
(* Opening, typing and clicking are the administrator's actions, and may   *)
(* come at any time the page offers them.  A search is the set of items    *)
(* that match it, a rule or a field of the configuration an item.          *)
(***************************************************************************)
EXTENDS WebApi

CONSTANTS
    Searches,       \* what may be searched for
    Connected,      \* the peers whose state is Direct or Relayed
    MaxNavs         \* bound: pages opened after the first

ASSUME ConsoleAssumption ==
    /\ Searches \subseteq SUBSET Items
    /\ Connected \subseteq Items
    /\ MaxNavs \in Nat
    /\ "nothing" \notin Items

Pages == {"dashboard", "topology", "nodes", "peers", "settings"}

Drafts == {"acl", "config"}

VARIABLES
    page,           \* the page that is mounted
    search,         \* searchQuery of the nodes and peers pages
    filter,         \* the tab of the peers page
    dialog,         \* the item of the page's dialog (nodeToDelete, selectedPeer)
    creating,       \* showCreateDialog
    draft,          \* per form of the settings: what it was filled with, what it contains
    selected,       \* store.selectedNode
    navs            \* bounded

localVars == <<search, filter, dialog, creating, draft>>
vars == <<apiVars, page, localVars, selected, navs>>

Nothing == "nothing"

\* What a page watches.
Watches(p) ==
    CASE p = "dashboard" -> {"stats", "nodes", "peers"}
      [] p = "topology"  -> {"topology", "nodes"}
      [] p = "nodes"     -> {"nodes"}
      [] p = "peers"     -> {"peers"}
      [] p = "settings"  -> {"auth-keys", "acl", "config"}

\* The data of a key that has some.
Data(k) == history[k][cache[k].ver]

\* data ?? []: what a page lists.
Rows(k) == IF HasData(k) THEN Data(k) ELSE {}

Unfilled == [base |-> {}, items |-> {}]

\* The effects of the settings page fill the forms from the cache, but not with rules
\* that are null.
FilledFrom(k) == IF HasData(k) /\ Data(k) # NoRules THEN [base |-> Data(k), items |-> Data(k)]
                 ELSE Unfilled

Init ==
    /\ ApiInit
    /\ page \in Pages /\ navs = 0
    /\ watched = Watches(page)
    /\ fetch = [k \in Keys |-> IF k \in watched THEN [Idle EXCEPT !.phase = "sent"] ELSE Idle]
    /\ search = Items /\ filter = "all" /\ dialog = Nothing /\ creating = FALSE
    /\ draft = [k \in Drafts |-> Unfilled]
    /\ selected = Nothing

-----------------------------------------------------------------------------
(* What the pages show. *)

Matching(k) == Rows(k) \cap search

\* The error replaces the page; the rows, or "none found", follow the skeleton.
ListView(k, rows) ==
    IF cache[k].error THEN "error"
    ELSE IF Loading(k) THEN "skeleton"
    ELSE IF rows = {} THEN "empty" ELSE "rows"

NodesView == ListView("nodes", Matching("nodes"))

\* The tabs of the peers page tell the connected peers from the others.
PeerRows == {i \in Matching("peers") : filter = "all" \/ (filter = "active" <=> i \in Connected)}

PeersView == ListView("peers", PeerRows)

\* Any error, and any first load, is that of the whole dashboard.
DashboardView ==
    IF \E k \in Watches("dashboard") : cache[k].error THEN "error"
    ELSE IF \E k \in Watches("dashboard") : Loading(k) THEN "skeleton" ELSE "rows"

\* Of its two queries only that of the topology counts.
TopologyView ==
    IF cache["topology"].error THEN "error"
    ELSE IF Loading("topology") THEN "skeleton" ELSE "rows"

\* An error of the auth keys replaces the settings, tabs and all.
SettingsView == ListView("auth-keys", Rows("auth-keys"))

\* The rules shown are those of the form.
ACLView == ListView("acl", draft["acl"].items)

\* The form of the configuration is shown also when nothing could be loaded.
ConfigView == IF Loading("config") THEN "skeleton" ELSE "rows"

View(p) ==
    CASE p = "dashboard" -> DashboardView
      [] p = "topology"  -> TopologyView
      [] p = "nodes"     -> NodesView
      [] p = "peers"     -> PeersView
      [] p = "settings"  -> SettingsView

-----------------------------------------------------------------------------
(* What every page offers. *)

pageVars == <<page, localVars, selected, navs>>

\* A link of the header or the sidebar: the page is mounted with a state of its own.
Navigate(p) ==
    /\ p # page /\ navs < MaxNavs
    /\ page' = p /\ navs' = navs + 1
    /\ Watch(Watches(p))
    /\ search' = Items /\ filter' = "all" /\ dialog' = Nothing /\ creating' = FALSE
    /\ draft' = [k \in Drafts |-> IF p = "settings" THEN FilledFrom(k) ELSE Unfilled]
    /\ UNCHANGED <<serverVars, access, stale, orphans, statVars, mutVars, selected>>

\* What the page's refresh button, or the retry button of its error, fetches.
Refetched(p) == IF p = "settings" THEN {"auth-keys"}
                ELSE IF p = "topology" THEN {"topology"} ELSE Watches(p)

\* Refresh is disabled during the first load (the topology has none); an error
\* offers a retry instead.
Refresh ==
    /\ View(page) = "error" \/ (View(page) # "skeleton" /\ page # "topology")
    /\ Refetch(Refetched(page))
    /\ UNCHANGED <<serverVars, access, watched, stale, statVars, mutVars, pageVars>>

\* The search field of nodes and peers; an empty table offers to clear it.
Search(s) ==
    /\ page \in {"nodes", "peers"} /\ View(page) # "error"
    /\ search' = s
    /\ UNCHANGED <<apiVars, page, filter, dialog, creating, draft, selected, navs>>

OpenDialog(i) ==
    /\ dialog' = i
    /\ UNCHANGED <<apiVars, page, search, filter, creating, draft, selected, navs>>

\* Cancel, or a click beside the dialog.
CloseDialog ==
    /\ dialog # Nothing
    /\ View(page) # "error"
    /\ OpenDialog(Nothing)

-----------------------------------------------------------------------------
(* Nodes, peers and the topology. *)

\* The menu of a row of nodes: delete, which asks first.
AskDelete(i) ==
    /\ page = "nodes" /\ NodesView = "rows" /\ i \in Matching("nodes")
    /\ dialog = Nothing
    /\ OpenDialog(i)

\* handleDelete: disabled while a deletion is under way.
ConfirmDelete ==
    /\ page = "nodes" /\ NodesView # "error" /\ dialog # Nothing
    /\ Submit("deleteNode", {dialog})
    /\ UNCHANGED <<serverVars, access, watched, queryVars, statVars, pageVars>>

\* View details, or a click on a node of the topology that the list has, too.
Select(i) ==
    /\ \/ page = "nodes" /\ NodesView = "rows" /\ i \in Matching("nodes")
       \/ page = "topology" /\ TopologyView = "rows" /\ i \in Rows("topology") \cap Rows("nodes")
    /\ selected' = i
    /\ UNCHANGED <<apiVars, page, localVars, navs>>

\* The tabs of the peers page.
Filter(f) ==
    /\ page = "peers" /\ PeersView # "error"
    /\ filter' = f
    /\ UNCHANGED <<apiVars, page, search, dialog, creating, draft, selected, navs>>

\* The details of a peer, as it was when they were opened.
PeerDetails(i) ==
    /\ page = "peers" /\ PeersView = "rows" /\ i \in PeerRows
    /\ dialog = Nothing
    /\ OpenDialog(i)

-----------------------------------------------------------------------------
(* Settings. *)

OnSettings == page = "settings" /\ SettingsView # "error"

\* Create Key, of the tab or of an empty list, and Cancel.
ShowCreate(b) ==
    /\ OnSettings /\ creating # b
    /\ creating' = b
    /\ UNCHANGED <<apiVars, page, search, filter, dialog, draft, selected, navs>>

\* handleCreateKey, handleDeleteKey, handleSaveACL and the configuration's save.
Send(m, items) ==
    /\ Submit(m, items)
    /\ UNCHANGED <<serverVars, access, watched, queryVars, statVars, pageVars>>

CreateKey == OnSettings /\ creating /\ Send("createKey", {})

DeleteKey(i) == OnSettings /\ SettingsView = "rows" /\ i \in Rows("auth-keys")
                    /\ Send("deleteKey", {i})

\* Without rules there is nothing to save them with.
SaveACL == OnSettings /\ draft["acl"].items # {} /\ Send("saveACL", draft["acl"].items)

SaveConfig == OnSettings /\ ConfigView = "rows" /\ Send("saveConfig", draft["config"].items)

\* Add Rule is offered always; a rule shown can be changed or removed, and a field
\* of the configuration typed.
Edit(k, items) ==
    /\ OnSettings /\ items # draft[k].items
    /\ IF k = "config" THEN ConfigView = "rows"
       ELSE ACLView = "rows" \/ \E i \in Items : items = draft[k].items \cup {i}
    /\ draft' = [draft EXCEPT ![k] = [base |-> draft[k].base, items |-> items]]
    /\ UNCHANGED <<apiVars, page, search, filter, dialog, creating, selected, navs>>

\* The retry of the rules' error fetches the auth keys.
ACLRetry ==
    /\ OnSettings /\ ACLView = "error"
    /\ Refetch({"auth-keys"})
    /\ UNCHANGED <<serverVars, access, watched, stale, statVars, mutVars, pageVars>>

\* The admin token is stored as it is typed.
TypeToken ==
    /\ OnSettings
    /\ access # "open"
    /\ access' = IF access = "right" THEN "wrong" ELSE "right"
    /\ UNCHANGED <<serverVars, watched, queryVars, statVars, mutVars, pageVars>>

-----------------------------------------------------------------------------
(* Answers, as the mounted page takes them. *)

\* MUTANT of Refilled: a form is filled once.
RefilledOnce(k) == ~HasData(k) /\ history[k][fetch[k].ans] # NoRules

\* A form is filled anew when what is fetched is not what was; rules that are null
\* leave it as it is.
Refilled(k) ==
    /\ ~HasData(k) \/ history[k][fetch[k].ans] # Data(k)
    /\ history[k][fetch[k].ans] # NoRules

\* An answer is shown, and fills the form of the settings if it has one.
Shown(k) ==
    /\ Succeed(k)
    /\ draft' = IF page = "settings" /\ k \in Drafts /\ Refilled(k)
                THEN [draft EXCEPT ![k] = [base |-> history[k][fetch[k].ans],
                                           items |-> history[k][fetch[k].ans]]]
                ELSE draft
    /\ UNCHANGED <<page, search, filter, dialog, creating, selected, navs>>

\* A mutation ends: a success closes the dialog of its page, whatever it shows.
Told(m) ==
    /\ Report(m)
    /\ dialog' = IF m = "deleteNode" /\ Succeeds(m) /\ page = "nodes" THEN Nothing ELSE dialog
    /\ creating' = (creating /\ ~(m = "createKey" /\ Succeeds(m)))
    /\ UNCHANGED <<page, search, filter, draft, selected, navs>>

-----------------------------------------------------------------------------

\* The requests and the coordinator.
Background ==
    \/ (ApiNext /\ UNCHANGED pageVars)
    \/ \E k \in Keys : Shown(k)
    \/ \E m \in Mutations : Told(m)

Anywhere ==
    \/ \E p \in Pages : Navigate(p)
    \/ Refresh \/ CloseDialog
    \/ \E s \in Searches : Search(s)

Listings ==
    \/ \E i \in Items : AskDelete(i) \/ Select(i) \/ PeerDetails(i)
    \/ ConfirmDelete
    \/ \E f \in {"all", "active", "inactive"} : Filter(f)

Settings ==
    \/ \E b \in BOOLEAN : ShowCreate(b)
    \/ CreateKey \/ SaveACL \/ SaveConfig \/ ACLRetry \/ TypeToken
    \/ \E i \in Items : DeleteKey(i)
    \/ \E k \in Drafts, items \in SUBSET Items : Edit(k, items)

Next == Background \/ Anywhere \/ Listings \/ Settings

Spec == Init /\ [][Next]_vars

\* Intervals pass, the coordinator answers what polls, and nobody clicks for ever
\* faster than the answers come.
Fairness ==
    \A k \in Polled :
        /\ WF_vars(Poll(k) /\ UNCHANGED pageVars)
        /\ WF_vars(ServerReads(k) /\ UNCHANGED pageVars)
        /\ SF_vars(Shown(k) \/ (Fail(k) /\ UNCHANGED pageVars))

FairSpec == Spec /\ Fairness

-----------------------------------------------------------------------------
(* Properties. *)

Runs == [phase : {"idle", "sent", "answered"}, ans : Nat, prev : Nat \cup {NoStats}]

\* Everything has its type; what is shown, and what an answer carries, was listed.
TypeOK ==
    /\ access \in {"open", "right", "wrong"} /\ up \in BOOLEAN
    /\ history \in [Keys -> Seq((SUBSET Items) \cup {NoRules})]
    /\ \A k \in Keys : history[k] \in Seq(Listed(k))
    /\ cache \in [Keys -> [ver : Nat, error : BOOLEAN]]
    /\ fetch \in [Keys -> Runs]
    /\ orphans \subseteq [key : Keys, run : Runs]
    /\ \A k \in Keys : cache[k].ver <= Version(k) /\ fetch[k].ans <= Version(k)
    /\ watched = Watches(page) /\ stale \subseteq Keys
    /\ stats \in Nat \cup {NoStats} /\ told \in Nat
    /\ chart \in Seq(Nat) /\ Len(chart) <= MaxPoints
    /\ mut \in [Mutations -> [phase : {"idle", "sent", "answered"}, did : BOOLEAN,
                              body : {"none", "json", "empty", "error"}, ver : Nat,
                              listed : BOOLEAN, items : SUBSET Items]]
    /\ report \in [Mutations -> {"none", "success", "failure"}]
    /\ page \in Pages /\ search \subseteq Items /\ filter \in {"all", "active", "inactive"}
    /\ dialog \in Items \cup {Nothing} /\ creating \in BOOLEAN
    /\ draft \in [Drafts -> [base : SUBSET Items, items : SUBSET Items]]
    /\ selected \in Items \cup {Nothing}
    /\ outages \in 0..MaxOutages /\ pushes \in 0..MaxPushes /\ navs \in 0..MaxNavs

\* Every query of the UI is a view of the coordinator that never goes back,
\* whatever is cancelled, fetched twice, retried or pushed meanwhile.
Promise == INSTANCE Views WITH
    current <- [k \in Keys |-> Version(k)],
    view    <- [k \in Keys |-> cache[k].ver]

NeverBack == Promise!Spec

\* An answer from before the mutation m cannot become what is shown.
FetchedSince(m) ==
    LET run == fetch[KeyOf(m)]
    IN  run.phase = "sent" \/ (run.phase = "answered" /\ (run.ans = 0 \/ run.ans >= mut[m].ver))

\* A reported success is real: the coordinator has done what was asked and, if the
\* page listed what the mutation changes, the list has the change, is being fetched
\* once more, or could not be fetched.
SuccessShown ==
    \A m \in Mutations : report[m] = "success" =>
        /\ mut[m].did
        /\ mut[m].listed => LET k == KeyOf(m)
                            IN  cache[k].ver >= mut[m].ver \/ cache[k].error \/ FetchedSince(m)

\* A form of the settings starts from the newest answer the page was given, so
\* that saving it undoes no change the page could have shown.  Rules that are null
\* are no exception the code makes on purpose: the form keeps the rules that were
\* there before (settings.tsx:94-98), and saving it brings them back.
DraftsRebased ==
    page = "settings" =>
        \A k \in Drafts : HasData(k) /\ Data(k) # NoRules => draft[k].base = Data(k)

\* The chart misses no traffic: when a total comes in that is higher than all before,
\* the point it adds covers the growth since the highest, whatever was pushed,
\* cancelled and left in between.  So the points that the chart keeps, of which there
\* are MaxPoints, cover the growth in the time they span.
TrafficCovered == [][told' # told => chart'[Len(chart')] >= told' - told]_vars

Current(p) ==
    /\ View(p) \notin {"error", "skeleton"}
    /\ \A k \in Watches(p) : cache[k].ver = Version(k)

\* Every page but the settings, whose queries do not poll, shows the coordinator's
\* state in the end, if it can be reached and answers, whatever went wrong before.
PagesConverge ==
    <>[](up /\ page # "settings" /\ \A k \in Watches(page) : Allowed(k)) => []<>Current(page)
=============================================================================
