---------------------------- MODULE ModelTopology ----------------------------
(***************************************************************************)
(* The groups a topology file describes, src/core/model_topology.cpp: the  *)
(* parser and its checks, the default group, the lookups.                  *)
(*                                                                         *)
(* A document is Unparsable, TooLarge for a broadcast, Empty, NoModels     *)
(* when it has no array "models", or the sequence of its entries           *)
(* [model_id, ranks].  A field that is not of its type is Bad, and so is a *)
(* rank that is not an integer.                                            *)
(***************************************************************************)
EXTENDS Integers, Sequences

CONSTANTS
    WorldSize,      \* ranks of MPI_COMM_WORLD, the gateway is rank 0
    IntValues,      \* how many values int has; a JSON integer has more
    Bad,            \* a field that is missing or of another type
    Unparsable, TooLarge, Empty, NoModels   \* documents without entries

ASSUME WorldAssumption == WorldSize \in Nat \ {0} /\ IntValues \in Nat \ {0}

Ranks   == 0 .. WorldSize - 1
Workers == 1 .. WorldSize - 1

NoEntries == {Unparsable, TooLarge, Empty, NoModels}

IsDocument(document) ==
    \/ document \in NoEntries
    \/ /\ Len(document) \in Nat /\ DOMAIN document = 1 .. Len(document)
       /\ \A i \in DOMAIN document :
            \/ document[i].ranks = Bad
            \/ \A j \in DOMAIN document[i].ranks :
                document[i].ranks[j] # Bad => document[i].ranks[j] \in Int

\* get<int>() converts, it does not check.
RankOf(integer) ==
    ((integer + IntValues \div 2) % IntValues) - IntValues \div 2

GroupOf(entry) ==
    [model_id |-> entry.model_id,
     ranks |-> [i \in DOMAIN entry.ranks |-> RankOf(entry.ranks[i])]]

Members(group) == {group.ranks[i] : i \in DOMAIN group.ranks}

ValidRank(rank) == rank >= 0 /\ rank < WorldSize /\ rank # 0

\* validate_group_ranks
ValidGroupRanks(group) ==
    /\ group.model_id # ""
    /\ group.ranks # <<>>
    /\ \A i \in DOMAIN group.ranks :
        /\ ValidRank(group.ranks[i])
        /\ \A j \in 1 .. i - 1 : group.ranks[i] # group.ranks[j]

\* An entry is looked at before the ranks in it are read.
WellFormed(entry) ==
    /\ entry.model_id # Bad
    /\ entry.ranks # Bad
    /\ \A i \in DOMAIN entry.ranks : entry.ranks[i] # Bad

\* Mutant: no rank is marked as used.
MutCompatible(group, earlier) == group.model_id # earlier.model_id

\* model_ids and worker_used: no name and no rank twice.
Compatible(group, earlier) ==
    /\ group.model_id # earlier.model_id
    /\ Members(group) \cap Members(earlier) = {}

\* The entries that make a topology; any other document throws.
ValidTopology(document) ==
    /\ document \notin NoEntries
    /\ document # <<>>
    /\ \A i \in DOMAIN document :
        /\ WellFormed(document[i])
        /\ ValidGroupRanks(GroupOf(document[i]))
        /\ \A j \in 1 .. i - 1 :
            Compatible(GroupOf(document[i]), GroupOf(document[j]))

\* parse_topology_json
GroupsOf(document) == [i \in DOMAIN document |-> GroupOf(document[i])]

\* init_static: every worker.
DefaultGroup == [model_id |-> "default", ranks |-> [i \in Workers |-> i]]

ValidStaticTopology == WorldSize >= 2 /\ ValidGroupRanks(DefaultGroup)

\* rank_belongs
RankBelongs(groups, model_id, rank) ==
    \E k \in DOMAIN groups :
        groups[k].model_id = model_id /\ rank \in Members(groups[k])
-----------------------------------------------------------------------------
\* What the rest of the system relies on: each group has workers only, at
\* least one, and no worker is in two groups.  (GroupAssumption of
\* RequestPipeline; validate_group_ranks, worker_used)
ProperGroups(groups) ==
    \A k \in DOMAIN groups :
        /\ Members(groups[k]) # {}
        /\ Members(groups[k]) \subseteq Workers
        /\ \A l \in DOMAIN groups :
            k # l => /\ groups[k].model_id # groups[l].model_id
                     /\ Members(groups[k]) \cap Members(groups[l]) = {}
=============================================================================
