----------------------------- MODULE MCConsole ------------------------------
(* Model-checking instance of Console.  A scenario, chosen at the start, says *)
(* which pages are opened and what happens while they are; all that the UI    *)
(* does of itself, and all that fairness speaks of, happens in each of them.  *)
EXTENDS Console

VARIABLE scenario

MCSearches == {{}, Items}

\* pages that may be opened, keys that change, mutations sent, forms edited, local
\* state used, coordinator out of reach, pushes, requests cancelled, what access may
\* be, keys of the settings whose first answer does not come, and versions of a key.
Reading(ps, ks) ==
    [pages |-> ps, changing |-> ks, sent |-> {}, edited |-> {}, local |-> FALSE, outages |-> 1,
     pushes |-> 0, orphans |-> 0, access |-> {"open"}, unanswered |-> {},
     versions |-> MaxVersion]

\* The settings page, where one of its keys is answered.
Setting(k, ms) ==
    [Reading({"settings"}, {k}) EXCEPT !.sent = ms, !.edited = {k} \cap Drafts, !.outages = 0,
                                       !.unanswered = Watches("settings") \ {k}]

Scenarios ==
    { [Reading({"dashboard"}, {"stats"}) EXCEPT !.outages = 0, !.pushes = 1, !.orphans = 1,
                                            !.versions = 2],
      [Reading({"topology"}, {"nodes", "topology"}) EXCEPT !.local = TRUE, !.versions = 2],
      [Reading({"topology", "peers"}, {"peers"}) EXCEPT !.outages = 0],
      [Reading({"nodes"}, {"nodes"}) EXCEPT !.orphans = 1, !.sent = {"deleteNode"}, !.local = TRUE],
      [Reading({"peers", "nodes"}, {"peers"}) EXCEPT !.local = TRUE, !.access = {"right", "wrong"}],
      [Setting("auth-keys", {"createKey", "deleteKey"}) EXCEPT !.orphans = 1],
      [Setting("auth-keys", {"createKey"}) EXCEPT !.outages = 1],
      [Setting("acl", {"saveACL"}) EXCEPT !.outages = 1],
      [Setting("config", {"saveConfig"}) EXCEPT !.orphans = 1],
      [Setting("config", {"saveConfig"}) EXCEPT !.edited = {}, !.pages = {"settings", "peers"}],
      [Setting("acl", {}) EXCEPT !.edited = {}, !.unanswered = {"config"}, !.access = {"right", "wrong"},
                                 !.pages = {"settings", "nodes"}, !.versions = 1] }

Within ==
    /\ page \in scenario.pages
    /\ \A k \in Keys \ (scenario.changing \cup {KeyOf(m) : m \in scenario.sent}) : Version(k) = 1
    /\ \A k \in Keys : Version(k) <= scenario.versions
    /\ \A m \in Mutations \ scenario.sent : ~Pending(m)
    /\ \A k \in Drafts \ scenario.edited : draft[k].items = draft[k].base
    /\ \A k \in scenario.unanswered : fetch[k].phase # "answered"
    /\ scenario.local \/ (search = Items /\ filter = "all" /\ selected = Nothing)
    /\ outages <= scenario.outages /\ pushes <= scenario.pushes
    /\ Cardinality(orphans) <= scenario.orphans
    /\ access \in scenario.access

MCInit == Init /\ scenario \in Scenarios /\ Within

\* A step of Next within the scenario.
Stays == UNCHANGED scenario /\ Within'

\* Next, with its actions told apart.
MCNext ==
    \/ Outage /\ UNCHANGED pageVars /\ Stays
    \/ Pushed /\ UNCHANGED pageVars /\ Stays
    \/ \E k \in Keys :
        \/ Change(k) /\ UNCHANGED pageVars /\ Stays
        \/ Poll(k) /\ UNCHANGED pageVars /\ Stays
        \/ ServerReads(k) /\ UNCHANGED pageVars /\ Stays
        \/ Fail(k) /\ UNCHANGED pageVars /\ Stays
        \/ Shown(k) /\ Stays
    \/ \E o \in orphans :
        \/ OrphanServed(o) /\ UNCHANGED pageVars /\ Stays
        \/ OrphanEnds(o) /\ UNCHANGED pageVars /\ Stays
    \/ \E m \in Mutations :
        \/ Executed(m) /\ UNCHANGED pageVars /\ Stays
        \/ NotExecuted(m) /\ UNCHANGED pageVars /\ Stays
        \/ AnswerLost(m) /\ UNCHANGED pageVars /\ Stays
        \/ Told(m) /\ Stays
    \/ \E p \in Pages : Navigate(p) /\ Stays
    \/ Refresh /\ Stays
    \/ CloseDialog /\ Stays
    \/ \E s \in Searches : Search(s) /\ Stays
    \/ \E i \in Items :
        \/ AskDelete(i) /\ Stays
        \/ Select(i) /\ Stays
        \/ PeerDetails(i) /\ Stays
        \/ DeleteKey(i) /\ Stays
    \/ ConfirmDelete /\ Stays
    \/ \E f \in {"all", "active", "inactive"} : Filter(f) /\ Stays
    \/ \E b \in BOOLEAN : ShowCreate(b) /\ Stays
    \/ CreateKey /\ Stays
    \/ SaveACL /\ Stays
    \/ SaveConfig /\ Stays
    \/ ACLRetry /\ Stays
    \/ TypeToken /\ Stays
    \/ \E k \in Drafts, items \in SUBSET Items : Edit(k, items) /\ Stays

MCSpec == MCInit /\ [][MCNext]_<<vars, scenario>> /\ Fairness
=============================================================================
