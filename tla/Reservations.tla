---------------------------- MODULE Reservations ----------------------------
(***************************************************************************)
(* The registry of ids and the one conflict in it that pr-sync-main.mjs    *)
(* resolves by itself.  An id is reserved by a line of the frozen legacy   *)
(* file, RESERVATIONS.json, or by a shard, a file of its own.  A pull      *)
(* request that still adds to the legacy file conflicts with main there:   *)
(* the bot keeps main's legacy file and moves what the pull request added  *)
(* to shards, unless an id is disputed.  Both legacy files are there and   *)
(* every file is valid JSON (anything else refuses).                       *)
(***************************************************************************)
EXTENDS Naturals

CONSTANTS
    Ids,
    Entries,    \* what an id may be reserved for
    None,       \* no reservation
    MaxEdits    \* BOUND: the edits since the branch left main

ASSUME ReservationsAssumption == None \notin Entries /\ MaxEdits \in Nat

VARIABLES
    legacy, shard,    \* per side (merge base, pull request, main): id -> entry
    minted,           \* the ids main has a node of
    edits,            \* the edits so far
    merged            \* what the bot made of it: its legacy file and shards

registryVars == <<legacy, shard, minted, edits, merged>>

Sides    == {"base", "ours", "theirs"}
Registry == [Ids -> Entries \cup {None}]

Open    == [state |-> "open"]
Refused == [state |-> "refused"]
Pushed(l, s) == [state |-> "pushed", legacy |-> l, shard |-> s]

\* mergeReservations: what an id is reserved for, the shard first, and the ids
\* of which the two tell different things.
Told(l, s, id) == IF s[id] # None THEN s[id] ELSE l[id]
Mismatch(l, s, id) == None \notin {l[id], s[id]} /\ l[id] # s[id]

\* runSeedCheck: no such id, and every minted id reserved.
SeedCheck(l, s) ==
    /\ \A id \in Ids : ~Mismatch(l, s, id)
    /\ \A id \in minted : Told(l, s, id) # None

-----------------------------------------------------------------------------
\* A branch leaves a main whose registry is in order.
RegistryInit ==
    /\ \E l, s \in Registry :
          /\ \A id \in Ids : ~Mismatch(l, s, id)
          /\ legacy = [side \in Sides |-> l]
          /\ shard = [side \in Sides |-> s]
    /\ minted = {} /\ edits = 0 /\ merged = Open

\* Somebody reserves an id, changes a reservation or takes it back, in the
\* legacy file or in a shard, on main or on the pull request.
Edit(side, id, entry) ==
    /\ merged = Open /\ edits < MaxEdits
    /\ edits' = edits + 1
    /\ \/ legacy' = [legacy EXCEPT ![side][id] = entry] /\ UNCHANGED shard
       \/ shard' = [shard EXCEPT ![side][id] = entry] /\ UNCHANGED legacy
    /\ UNCHANGED <<minted, merged>>

\* The node of a reserved id lands on main.
Mint(id) ==
    /\ merged = Open /\ edits < MaxEdits
    /\ Told(legacy["theirs"], shard["theirs"], id) # None
    /\ edits' = edits + 1
    /\ minted' = minted \cup {id}
    /\ UNCHANGED <<legacy, shard, merged>>

-----------------------------------------------------------------------------
\* git's merge of the files that are shards: a side that left one alone yields.
Clash(id) ==
    /\ shard["ours"][id] # shard["base"][id]
    /\ shard["theirs"][id] # shard["base"][id]
    /\ shard["ours"][id] # shard["theirs"][id]
MergedShards ==
    [id \in Ids |-> IF shard["ours"][id] = shard["base"][id]
                    THEN shard["theirs"][id] ELSE shard["ours"][id]]

\* Mutant: a shard that is there already is taken for this entry's own.
TakenLegacyOnly(id, have) == legacy["theirs"][id] \notin {None, legacy["ours"][id]}
\* Mutant: whatever main has of the id refuses, the identical entry too.
TakenAtAll(id, have) == legacy["theirs"][id] # None \/ have[id] # None

\* An id the pull request added is another row's already.
Taken(id, have) ==
    \/ legacy["theirs"][id] \notin {None, legacy["ours"][id]}
    \/ have[id] \notin {None, legacy["ours"][id]}

\* planReservations: what refuses, and which of the added ids move to shards.
Refuses(id, have) ==
    IF legacy["base"][id] = None
    THEN legacy["ours"][id] # None /\ Taken(id, have)
    ELSE legacy["ours"][id] \notin {legacy["base"][id], legacy["theirs"][id]} \/ legacy["ours"][id] = None
Moves(id, have) ==
    /\ legacy["base"][id] = None /\ legacy["ours"][id] # None
    /\ legacy["theirs"][id] = None /\ have[id] = None

\* decide plans on main's shards, syncOne once more on the merged tree's, and
\* main's copy of the seed check has the last word.  A legacy file only one
\* side changed, or both alike, merges by itself; a shard both changed is a
\* conflict for a person.
Sync ==
    /\ merged = Open
    /\ legacy["base"] \notin {legacy["ours"], legacy["theirs"]}
    /\ legacy["ours"] # legacy["theirs"]
    /\ \A id \in Ids : ~Clash(id)
    /\ LET have  == MergedShards
           after == [id \in Ids |-> IF Moves(id, have) THEN legacy["ours"][id] ELSE have[id]]
       IN  merged' = IF \/ \E id \in Ids : Refuses(id, shard["theirs"]) \/ Refuses(id, have)
                        \/ ~SeedCheck(legacy["theirs"], after)
                     THEN Refused
                     ELSE Pushed(legacy["theirs"], after)
    /\ UNCHANGED <<legacy, shard, minted, edits>>

RegistryNext ==
    \/ \E side \in {"ours", "theirs"}, id \in Ids, entry \in Entries \cup {None} :
          Edit(side, id, entry)
    \/ \E id \in Ids : Mint(id)
    \/ Sync

RegistrySpec == RegistryInit /\ [][RegistryNext]_registryVars

-----------------------------------------------------------------------------
\* Types.
RegistryTypeOK ==
    /\ legacy \in [Sides -> Registry] /\ shard \in [Sides -> Registry]
    /\ minted \subseteq Ids /\ edits \in 0..MaxEdits
    /\ merged \in {Open, Refused} \cup {Pushed(l, s) : l \in Registry, s \in Registry}

Added(registry, id) ==
    registry["base"][id] = None /\ registry["ours"][id] # None

\* A merge the bot pushes loses nobody's reservation: what the pull request
\* added it still has, in the legacy file or in a shard, and what main tells of
\* an id it still tells, unless the pull request changed that id's shard.
NothingLost ==
    merged.state = "pushed" =>
       \A id \in Ids :
          /\ \A registry \in {legacy, shard} :
                Added(registry, id) =>
                   Told(merged.legacy, merged.shard, id) = registry["ours"][id]
          /\ LET main == Told(legacy["theirs"], shard["theirs"], id)
             IN  main # None /\ shard["base"][id] \in {None, shard["ours"][id]} =>
                    Told(merged.legacy, merged.shard, id) = main

\* Of an id, the pull request at most added it, and for no other row than main
\* has it for, if any.
PlainAdd(id) ==
    /\ \A registry \in {legacy, shard} :
          \/ registry["ours"][id] = registry["base"][id]
          \/ /\ Added(registry, id)
             /\ Told(legacy["theirs"], shard["theirs"], id) \in {None, registry["ours"][id]}
    /\ ~Mismatch(legacy["ours"], shard["ours"], id)

\* The conflict is mechanical when the pull request only added ids, and main is
\* in order: the bot never hands it to a person.
AddsResolve ==
    (/\ \A id \in Ids : PlainAdd(id)
     /\ SeedCheck(legacy["theirs"], shard["theirs"]))
       => merged # Refused
=============================================================================
