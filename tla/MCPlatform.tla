------------------------------ MODULE MCPlatform ------------------------------
(***************************************************************************)
(* Components that share no state, each explored on its own: the first     *)
(* state says which one moves.  Creating tenants and inviting share a      *)
(* module and are two parts.                                               *)
(***************************************************************************)
EXTENDS TenantLifecycle, ManagerChain, ForwardEmailSend, ContactNameChange, TenantSettings,
        AccessAdministration, TLC

VARIABLE part

Part == {"create", "invite", "chain", "send", "rename", "page", "access"}

MCNormalized == "Acme" :> <<"acme">> @@ "***" :> <<>>
MCMembershipRole == 1 :> "owner" @@ 2 :> "member" @@ 3 :> "guest"
MCGrant == {<<2, "editor">>, <<9, "admin">>}
MCSlug == {<<"acme", 2>>}
Symmetry == Permutations(Walk)

\* At first three employees have a manager, and one directory stands for all that differ
\* from it in the employees' names.
Renamed(lines, p) ==
    LET was == [e \in Employee |-> CHOOSE d \in Employee : p[d] = e] IN
    [e \in Employee |-> IF lines[was[e]] = Nobody THEN Nobody ELSE p[lines[was[e]]]]
Representative(lines) ==
    /\ Cardinality({e \in Employee : lines[e] # Nobody}) = 3
    /\ lines = CHOOSE r \in {Renamed(lines, p) : p \in Permutations(Employee)} : TRUE

PlatformInit ==
    /\ part \in Part
    /\ LifecycleInit /\ ChainInit /\ SendInit /\ RenameInit /\ PageInit /\ AccessInit
    /\ part # "access" => facts = {}
    /\ IF part = "chain" THEN Representative(manager) ELSE manager = [e \in Employee |-> Nobody]

Moves(p, next) == part = p /\ next /\ UNCHANGED part
StillLifecycle == UNCHANGED lifecycleVars
StillChain == UNCHANGED chainVars
StillSend == UNCHANGED sendVars
StillRename == UNCHANGED renameVars
StillPage == UNCHANGED pageVars
StillAccess == UNCHANGED accessVars

PlatformNext ==
    \/ Moves("create", CreateNext)
       /\ StillChain /\ StillSend /\ StillRename /\ StillPage /\ StillAccess
    \/ Moves("invite", InviteNext \/ TimePasses)
       /\ StillChain /\ StillSend /\ StillRename /\ StillPage /\ StillAccess
    \/ Moves("chain", ChainNext)
       /\ StillLifecycle /\ StillSend /\ StillRename /\ StillPage /\ StillAccess
    \/ Moves("send", SendNext)
       /\ StillLifecycle /\ StillChain /\ StillRename /\ StillPage /\ StillAccess
    \/ Moves("rename", RenameNext)
       /\ StillLifecycle /\ StillChain /\ StillSend /\ StillPage /\ StillAccess
    \/ Moves("page", PageNext)
       /\ StillLifecycle /\ StillChain /\ StillSend /\ StillRename /\ StillAccess
    \/ Moves("access", AccessNext)
       /\ StillLifecycle /\ StillChain /\ StillSend /\ StillRename /\ StillPage

PlatformSpec == PlatformInit /\ [][PlatformNext]_<<lifecycleVars, chainVars, sendVars, renameVars, pageVars, accessVars, part>>

\* Every component's state has its type.
TypeOK ==
    /\ LifecycleTypeOK /\ ChainTypeOK /\ SendTypeOK
    /\ RenameTypeOK /\ PageTypeOK /\ AccessTypeOK
    /\ part \in Part
=============================================================================
