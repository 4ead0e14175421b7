---------------------------- MODULE TenantSettings ----------------------------
(***************************************************************************)
(* The tenant settings page                                                *)
(* (apps/web/src/features/tenant-settings/tenant-settings.tsx): one query  *)
(* per tenant id, whose data outlives a lookup of another tenant, and one  *)
(* draft of settings for whichever tenant is shown.  Lookups, answers,     *)
(* refetches, edits, saves and other administrators interleave; the form   *)
(* of the name is the same with a draft that lives as long as it is shown. *)
(***************************************************************************)
EXTENDS Naturals, FiniteSets

CONSTANTS
    Tenant,
    Nothing,          \* no id looked up yet, no data
    MaxVersion,       \* bound on the updates of one tenant
    MaxSaves          \* bound on saves

ASSUME SettingsAssumption == MaxVersion \in Nat \ {0} /\ MaxSaves \in Nat

VARIABLES
    stored,           \* version of every tenant at the API
    query,            \* by tenant: data, status and fetchStatus of its query
    lookupId,
    draft,            \* settingsText: the tenant object it was filled from, and what it holds
    noticed,          \* the tenant object the last effect ran for
    isPending,        \* the last save is under way and no lookup has reset it
    saves,            \* saves under way
    sent              \* history: every save, with the tenant object shown when it was made

pageVars == <<stored, query, lookupId, draft, noticed, isPending, saves, sent>>

Text == {"asFilled", "blank", "edited"}
Query == [data : {Nothing} \union 1..MaxVersion, isError : BOOLEAN,
          fetchStatus : {"idle", "fetching", "paused"}]

Object == {Nothing} \union (Tenant \X (1..MaxVersion))
Save == [n : Nat, id : Tenant, shown : Object, settings : Object]

PageTypeOK ==
    /\ stored \in [Tenant -> 1..MaxVersion]
    /\ query \in [Tenant -> Query]
    /\ lookupId \in Tenant \union {Nothing}
    /\ draft \in [of : Object, text : Text] /\ noticed \in Object
    /\ isPending \in BOOLEAN
    /\ sent \subseteq Save /\ IsFiniteSet(sent) /\ saves \subseteq sent
    /\ \A save \in sent : save.shown[1] = save.id

PageInit ==
    /\ stored = [t \in Tenant |-> 1]
    /\ query = [t \in Tenant |-> [data |-> Nothing, isError |-> FALSE, fetchStatus |-> "idle"]]
    /\ lookupId = Nothing /\ noticed = Nothing
    /\ draft = [of |-> Nothing, text |-> "blank"]
    /\ isPending = FALSE /\ saves = {} /\ sent = {}

\* findQuery.data for the id looked up.
Shown(id, q) == IF id = Nothing THEN Nothing
                ELSE IF q[id].data = Nothing THEN Nothing ELSE <<id, q[id].data>>
isFetching == lookupId # Nothing /\ query[lookupId].fetchStatus = "fetching"
FormIsOpen == /\ Shown(lookupId, query) # Nothing /\ ~isFetching
              /\ ~query[lookupId].isError

\* The effect keyed on the tenant object fills the draft before the next event is handled.
Effect_KeepsEdits(id, q) ==      \* Faulty variant: does not overwrite what the user typed.
    LET tenant == Shown(id, q) IN
    IF tenant \notin {Nothing, noticed} /\ draft.text # "edited"
    THEN draft' = [of |-> tenant, text |-> "asFilled"] /\ noticed' = tenant
    ELSE UNCHANGED draft /\ noticed' = tenant
Effect(id, q) ==
    LET tenant == Shown(id, q) IN
    IF tenant \notin {Nothing, noticed}
    THEN draft' = [of |-> tenant, text |-> "asFilled"] /\ noticed' = tenant
    ELSE UNCHANGED draft /\ noticed' = tenant

\* A query is fetched once at a time; without a network it is paused and shows what it has.
Fetching(id, online) == [query EXCEPT ![id].fetchStatus =
    IF @ # "idle" THEN @ ELSE IF online THEN "fetching" ELSE "paused"]

\* A lookup refetches the id shown or turns to another one, cached or not.
handleLookup(id) ==
    /\ ~isFetching
    /\ isPending' = FALSE /\ lookupId' = id
    /\ \E online \in BOOLEAN : query' = Fetching(id, online) /\ Effect(id, query')
    /\ UNCHANGED <<stored, saves, sent>>

\* The window is focused again, and the query shown is fetched again.
Refetch ==
    /\ lookupId # Nothing
    /\ \E online \in BOOLEAN : query' = Fetching(lookupId, online)
    /\ UNCHANGED <<stored, lookupId, draft, noticed, isPending, saves, sent>>

\* An answer changes the data only when it differs; an error leaves it.
Answer(id) ==
    /\ query[id].fetchStatus # "idle"
    /\ query' = [query EXCEPT ![id] = [data |-> stored[id], isError |-> FALSE, fetchStatus |-> "idle"]]
    /\ Effect(lookupId, query')
    /\ UNCHANGED <<stored, lookupId, isPending, saves, sent>>
AnswerIsError(id) ==
    /\ query[id].fetchStatus # "idle"
    /\ query' = [query EXCEPT ![id].isError = TRUE, ![id].fetchStatus = "idle"]
    /\ Effect(lookupId, query')
    /\ UNCHANGED <<stored, lookupId, isPending, saves, sent>>

Edit ==
    /\ FormIsOpen /\ ~isPending
    /\ \E text \in {"blank", "edited"} : draft' = [draft EXCEPT !.text = text]
    /\ UNCHANGED <<stored, query, lookupId, noticed, isPending, saves, sent>>

\* A blank text leaves the settings out; one that is not JSON disables the button.
handleNameSubmit ==
    /\ FormIsOpen /\ ~isPending
    /\ Cardinality(sent) < MaxSaves
    /\ LET save == [n |-> Cardinality(sent) + 1, id |-> lookupId, shown |-> Shown(lookupId, query),
                    settings |-> IF draft.text = "blank" THEN Nothing ELSE draft.of] IN
       saves' = saves \union {save} /\ sent' = sent \union {save}
    /\ isPending' = TRUE
    /\ UNCHANGED <<stored, query, lookupId, draft, noticed>>

\* Only the last save keeps the button busy; the query is not told of any.
Settled(save) == isPending' = (isPending /\ save.n # Cardinality(sent))
SaveArrives(save) ==
    /\ stored[save.id] < MaxVersion
    /\ stored' = [stored EXCEPT ![save.id] = @ + 1]
    /\ saves' = saves \ {save} /\ Settled(save)
    /\ UNCHANGED <<query, lookupId, draft, noticed, sent>>
SaveFails(save) ==
    /\ saves' = saves \ {save} /\ Settled(save)
    /\ UNCHANGED <<stored, query, lookupId, draft, noticed, sent>>

\* Another administrator saves.
OthersSave(id) ==
    /\ stored[id] < MaxVersion /\ stored' = [stored EXCEPT ![id] = @ + 1]
    /\ UNCHANGED <<query, lookupId, draft, noticed, isPending, saves, sent>>

PageNext ==
    \/ \E id \in Tenant : handleLookup(id) \/ Answer(id) \/ AnswerIsError(id) \/ OthersSave(id)
    \/ Refetch \/ Edit \/ handleNameSubmit
    \/ \E save \in saves : SaveArrives(save) \/ SaveFails(save)

PageSpec == PageInit /\ [][PageNext]_pageVars

----------------------------------------------------------------------------
(* Properties *)

\* Whatever was looked up, cached, paused, refetched or failed before, the settings saved for
\* a tenant are a draft made from that tenant, as it was shown when it was saved, never of
\* another tenant and never of a version the page has since replaced.
SavesWhatIsShown == \A save \in sent : save.settings \in {Nothing, save.shown}
=============================================================================
