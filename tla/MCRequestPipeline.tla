-------------------------- MODULE MCRequestPipeline --------------------------
(* The client and the API for TLC: every call of the client, two requests,  *)
(* and the sign-ins that are told apart by a guard.                         *)
EXTENDS RequestPipeline, TLC

\* The settings page takes what is typed for a tenant, a slash included.
MCTenants == {<<"t1">>, <<"t2">>, Blank, <<"t1", "groups">>}
MCItems == {<<"g1">>, Blank, <<"g1", "members", "g1">>}
MCRoleIds == {<<"owner">>, <<"reader">>}

Claims(oid, sub, email, upn, roles, role, tenant) ==
    [oid |-> oid, sub |-> sub, email |-> email, upn |-> upn, roles |-> roles, role |-> role, tenant |-> tenant]

Agent == Claims("agent", None, "a@", None, {"support-agent"}, None, None)
Admin == Claims("admin", None, "b@", None, {}, "tenant-admin", "t1")
Owner == Claims("owner", "pairwise", "c@", None, {}, None, None)
Guest == Claims(None, "guest", None, "d@", {}, None, "t2")       \* no session can carry it
Twin == Claims("twin", None, "x@", None, {}, None, "t1")         \* its address is another row's
Nobody == Claims(None, None, "e@", None, {"tenant-admin"}, None, "t1")

ViaSession(p) == [session |-> p, bearer |-> None]
ViaToken(p) == [session |-> None, bearer |-> p]
Rights == {<<"owner", "read", "t1">>, <<"owner", "update", "t1">>, <<"owner", "admin", "t1">>,
           <<"admin", "admin", "t1">>, <<"admin", "owner", "t1">>, <<"admin", "update", "t2">>,
           <<"agent", "admin", "t1">>}
World(s, g) ==
    [session |-> s.session, bearer |-> s.bearer, configured |-> g # {}, rights |-> g, managers |-> {"guest"},
     memberships |-> {<<"t1", "owner", "owner">>, <<"t2", "owner", "member">>, <<"t2", "guest", "member">>}]

MCWorlds ==
    {World(ViaSession(p), {}) : p \in {Agent, Owner, Guest, Twin, None}}
    \union {World(ViaToken(p), {}) : p \in {Admin, Nobody}}
    \union {World(ViaSession(p), Rights) : p \in {Admin, Owner}}
    \union {World(ViaToken(p), Rights) : p \in {Admin, Owner, Guest, Agent}}
    \union {World([session |-> Owner, bearer |-> Admin], Rights)}

MCUsers == "other" :> "x@" @@ "owner" :> "old@"

MCOffered == [r \in Requests |->
    IF r = 1 THEN Calls
    ELSE {accessRequestControllerListPending}]
=============================================================================
