------------------------------ MODULE MCTeams ------------------------------
(***************************************************************************)
(* dart_team_group.c: groups are objects of one unit, teams belong to all  *)
(* of their units.  A behaviour is about one of them.                      *)
(***************************************************************************)
EXTENDS DartTeam

CONSTANTS NumUnits, NumHandles, GroupTeams, Parts, LocalityParts, Hosts

VARIABLES side, groups, call, split, status

Group == INSTANCE DartGroup WITH Teams <- GroupTeams

ASSUME SizeAssumption == NumUnits \in Nat \ {0} /\ NumHandles \in Nat
ASSUME TeamsAssumption == GroupTeams \subseteq SUBSET Group!AllUnits \ {{}}
ASSUME PartsAssumption == Parts \subseteq Nat \ {0} /\ LocalityParts \subseteq Nat \ {0}
ASSUME HostsAssumption ==
    /\ UNION Hosts = Group!AllUnits
    /\ \A H, J \in Hosts : H = J \/ H \cap J = {}

groupVars == <<groups, call, split, status>>
allVars == <<vars, groupVars, side>>

MCInit == Init /\ Group!Init /\ side \in {"teams", "groups"}

TeamStep(A) == side = "teams" /\ A /\ UNCHANGED <<groupVars, side>>

MCNext ==
    \/ TeamStep(Next)
    \/ side = "groups" /\ Group!Next /\ UNCHANGED <<vars, side>>

\* The fairness of DartTeam.
MCSpec ==
    /\ MCInit /\ [][MCNext]_allVars
    /\ \A u \in Units :
         /\ WF_allVars(TeamStep(Join(u) \/ Fail(u)))
         /\ WF_allVars(TeamStep(Finish(u)))
         /\ WF_allVars(TeamStep(\E h \in lock[u] : DestroyLock(u, h)))

\* See DartGroup.
GroupsAreOrdered == Group!GroupsAreOrdered
ImplementsGroupSets == Group!ImplementsGroupSets
=============================================================================
