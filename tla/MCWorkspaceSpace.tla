-------------------------- MODULE MCWorkspaceSpace --------------------------
(***************************************************************************)
(* WorkspaceSpace for TLC.  Requests that race do so for the seats of one  *)
(* plan; those that run alone come with uploads and changes of the plan.   *)
(***************************************************************************)
EXTENDS WorkspaceSpace, TLC

PlanOf(limit, seats) == [limit |-> limit, seats |-> seats]

\* One plan, so that seats and limit stay as they are.
OnePlan == {PlanOf(2, 2)}

\* More space for the same seats, fewer seats, and shares that are no whole
\* numbers: only between those of two seats and odd limits is the difference one.
FourPlans == {PlanOf(2, 2), PlanOf(1, 2), PlanOf(3, 2), PlanOf(3, 1)}

Alone == INSTANCE WorkspaceSpace WITH MaxInFlight <- 1

Together == INSTANCE WorkspaceSpace WITH Plans <- OnePlan, Spaces <- {1}, MaxUse <- 0

MCInit == alone \in BOOLEAN /\ IF alone THEN Alone!Init ELSE Together!Init

MCNext == IF alone THEN Alone!Next ELSE Together!Next

MCSpec == MCInit /\ [][MCNext]_vars

MemberSymmetry == Permutations(Users \ {Owner})

\* Keeps a run to states in which SpaceAccounted says something.
NothingExcused == excused = {}

============================================================================
