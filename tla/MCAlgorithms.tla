---------------------------- MODULE MCAlgorithms ----------------------------
(***************************************************************************)
(* The small machines, side by side: a behaviour runs one of them on one   *)
(* input, and the others are parked: Netting in its initial state, the     *)
(* registry after a merge, the kernel's host after a run, and the rest at  *)
(* a value that is none of theirs.                                         *)
(***************************************************************************)
EXTENDS Netting, Reservations, KernelVM, TlogInclusion, TlogConsistency, TileTree

CONSTANTS Idle, a, b, c, d

MCEntities == {a, b, c, d}

\* Netting: each of four ids listed once; or one of them twice and one not at all.
Plain == [e \in MCEntities |-> e]
Twice == [Plain EXCEPT ![b] = a]
MCLists == {Plain, Twice}

NoConsistency ==
    /\ claim = Idle /\ proof = Idle /\ node = Idle /\ lastNode = Idle
    /\ oldHash = Idle /\ newHash = Idle /\ stage = Idle
NoInclusion ==
    call = Idle /\ path = Idle /\ fn = Idle /\ sn = Idle /\ r = Idle /\ phase = Idle
NoTiles == width = Idle /\ sizes = {} /\ disk = Idle

\* An empty registry that was merged: not a state a merge ends in.
NoRegistry ==
    LET none == [id \in Ids |-> None]
    IN  /\ legacy = [side \in Sides |-> none] /\ shard = legacy
        /\ minted = {} /\ edits = 0 /\ merged = Pushed(none, none)

\* A run that returned without its kernel ever starting.
NoKernel ==
    /\ task = [t \in Tasks |-> "idle"] /\ calls = [t \in Tasks |-> 0]
    /\ inFlight = {} /\ answered = {} /\ pending = {} /\ batch = {}
    /\ top = "fulfilled" /\ overrun = FALSE /\ stray = FALSE /\ at = "returned"

Parked == NoConsistency /\ NoInclusion /\ NoTiles /\ NoRegistry /\ NoKernel

OtherInit ==
    \/ ConsistencyInit /\ NoInclusion /\ NoTiles /\ NoRegistry /\ NoKernel
    \/ InclusionInit /\ NoConsistency /\ NoTiles /\ NoRegistry /\ NoKernel
    \/ TilesInit /\ NoConsistency /\ NoInclusion /\ NoRegistry /\ NoKernel
    \/ RegistryInit /\ NoConsistency /\ NoInclusion /\ NoTiles /\ NoKernel
    \/ KernelInit /\ NoConsistency /\ NoInclusion /\ NoTiles /\ NoRegistry

AlgorithmsInit ==
    /\ Init
    /\ Parked \/ (ids = Plain /\ OtherInit)

RunConsistency ==
    ConsistencyNext /\ UNCHANGED <<inclusionVars, tileVars, registryVars, kernelVars, vars>>
RunInclusion ==
    InclusionNext /\ UNCHANGED <<consistencyVars, tileVars, registryVars, kernelVars, vars>>
RunTiles ==
    width # Idle /\ TilesNext /\ UNCHANGED <<consistencyVars, inclusionVars, registryVars, kernelVars, vars>>
RunRegistry ==
    RegistryNext /\ UNCHANGED <<consistencyVars, inclusionVars, tileVars, kernelVars, vars>>
RunHost == Host /\ UNCHANGED <<consistencyVars, inclusionVars, tileVars, registryVars, vars>>
RunGuest == Guest /\ UNCHANGED <<consistencyVars, inclusionVars, tileVars, registryVars, vars>>
RunNetting ==
    /\ Parked /\ Next
    /\ UNCHANGED <<consistencyVars, inclusionVars, tileVars, registryVars, kernelVars>>

AlgorithmsNext ==
    \/ RunConsistency \/ RunInclusion \/ RunTiles \/ RunRegistry
    \/ RunHost \/ RunGuest \/ RunNetting

\* The fairness is KernelVM's.
Algorithms ==
    /\ AlgorithmsInit
    /\ [][AlgorithmsNext]_<<consistencyVars, inclusionVars, tileVars, registryVars, kernelVars, vars>>
    /\ WF_kernelVars(RunHost) /\ WF_kernelVars(RunGuest)
=============================================================================
