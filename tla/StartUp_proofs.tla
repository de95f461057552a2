---------------------------- MODULE StartUp_proofs ----------------------------
(***************************************************************************)
(* Theorems about StartUp, for any number of ranks, any topology file and  *)
(* any failures: the groups are proper, the ranks make the same calls on   *)
(* MPI_COMM_WORLD, each communicator holds the ranks of its group, and     *)
(* nothing is left to free when MPI is finalized.                          *)
(*                                                                         *)
(* The calls of a rank follow a script that the command line and the       *)
(* gateway's file determine: the invariant says how far a rank has come.   *)
(***************************************************************************)
EXTENDS StartUp, FoldLemmas

\* The topology all ranks work with, and the calls before its first group.
Shared == IF config = "static" THEN <<DefaultGroup>> ELSE GroupsOf(file[0])
Offset == IF config = "static" THEN 0 ELSE 2

GoodShared ==
    /\ config \in {"topology", "static"}
    /\ Len(Shared) \in Nat /\ DOMAIN Shared = 1 .. Len(Shared)
    /\ ProperGroups(Shared)

\* The n-th call of rank r on MPI_COMM_WORLD.
Script(r, n) ==
    CASE Offset = 2 /\ n = 1 -> [op |-> "size", group |-> "", member |-> FALSE]
      [] Offset = 2 /\ n = 2 -> [op |-> "content", group |-> "", member |-> FALSE]
      [] n > Offset /\ n <= Offset + Len(Shared) ->
            [op |-> "split", group |-> Shared[n - Offset].model_id,
             member |-> r \in Members(Shared[n - Offset])]
      [] OTHER -> [op |-> "finalize", group |-> "", member |-> FALSE]

Scripted(r, calls) ==
    /\ calls \in Seq({Script(r, n) : n \in Nat})
    /\ \A n \in 1 .. Len(calls) : calls[n] = Script(r, n)

\* How far a rank at label p has come: its document d, groups g, next group
\* n, calls w and failure f.
Position(p, d, g, n, w, f) ==
    /\ p \in {"config", "device", "topology"} => Len(w) = 0
    /\ p \in {"config", "device", "topology", "size", "content", "parse"} => n = 1
    /\ p = "size" => config = "topology" /\ Len(w) = 1
    /\ p = "content" => config = "topology" /\ Len(w) = 2
    /\ p = "parse" => /\ config = "topology" /\ d = file[0] /\ IsDocument(d)
                      /\ Len(w) = 2 \/ ~ValidTopology(file[0])
    /\ p = "group" => /\ GoodShared /\ g = Shared
                      /\ n \in 1 .. Len(g) + 1
                      /\ Len(w) = Offset + n - 1
    /\ p \in {"split", "get_id", "broadcast", "init"} =>
            /\ GoodShared /\ g = Shared
            /\ n \in 1 .. Len(g)
            /\ Len(w) = Offset + n
    /\ (\/ p \in {"serve", "finalize", "mpi_finalize", "finalizing", "destructor"}
        \/ p \in {"destroy", "free"} /\ f = "none")
       => GoodShared /\ g = Shared /\ Len(w) >= Offset + Len(g)
    /\ p = "unwind" => f # "none"

\* The groups of a rank, and its communicator c.
Grouped(r, g, c) ==
    /\ g = <<>> \/ (GoodShared /\ g = Shared)
    /\ c # {} => /\ GoodShared /\ g = Shared
                 /\ r \in c /\ \E k \in DOMAIN g : c = Members(g[k])

\* The handles h of a rank at label p.
Held(p, h) ==
    /\ h \subseteq {"gpu", "mpi"}
    /\ p = "free" => h \subseteq {"mpi"}
    /\ p \in {"mpi_finalize", "finalizing", "destructor"} => h = {}

RankInv(r) ==
    /\ Scripted(r, world[r])
    /\ Position(pc[r], document[r], groups[r], next[r], world[r], failure[r])
    /\ Grouped(r, groups[r], comm[r])
    /\ Held(pc[r], handles[r])

Domains ==
    /\ DOMAIN pc = Ranks /\ DOMAIN document = Ranks /\ DOMAIN groups = Ranks
    /\ DOMAIN next = Ranks /\ DOMAIN world = Ranks /\ DOMAIN comm = Ranks
    /\ DOMAIN handles = Ranks /\ DOMAIN failure = Ranks

\* What the gateway broadcasts.
Sent ==
    config = "topology" /\ Len(world[0]) > 0 =>
        document[0] = file[0] /\ IsDocument(file[0])

Inv == Domains /\ Sent /\ config \in {"topology", "static", "help", "bad"}
       /\ (file[0] # Unreadable => IsDocument(file[0]))
       /\ \A r \in Ranks : RankInv(r)
-----------------------------------------------------------------------------
\* A group is proper when it has passed the checks.
LEMMA MembersOf ==
    ASSUME NEW group, ValidGroupRanks(group),
           \A i \in DOMAIN group.ranks : group.ranks[i] \in Int,
           group.ranks = [i \in DOMAIN group.ranks |-> group.ranks[i]]
    PROVE  Members(group) # {} /\ Members(group) \subseteq Workers
<1>1. ASSUME NEW i \in DOMAIN group.ranks
      PROVE  group.ranks[i] \in Workers
    <2>1. ValidRank(group.ranks[i]) /\ group.ranks[i] \in Int
        BY DEF ValidGroupRanks
    <2>. QED
        BY <2>1, WorldAssumption DEF ValidRank, Workers
<1>2. DOMAIN group.ranks # {}
    <2>. SUFFICES ASSUME DOMAIN group.ranks = {} PROVE FALSE
        OBVIOUS
    <2>1. <<>> = [i \in {} |-> group.ranks[i]]
        OBVIOUS
    <2>2. group.ranks = <<>>
        BY <2>1
    <2>. QED
        BY <2>2 DEF ValidGroupRanks
<1>. QED
    BY <1>1, <1>2 DEF Members

LEMMA RankOfInt ==
    ASSUME NEW i \in Int
    PROVE  RankOf(i) \in Int
<1>1. IntValues \div 2 \in Int
    BY WorldAssumption
<1>. DEFINE half == IntValues \div 2
<1>. HIDE DEF half
<1>2. half \in Int
    BY <1>1 DEF half
<1>3. ((i + half) % IntValues) \in Int
    BY <1>2, WorldAssumption
<1>. QED
    BY <1>2, <1>3 DEF RankOf, half

\* parse_topology_json: what it accepts is proper.  Checking each entry
\* against the earlier ones is enough.
LEMMA AcceptedAreProper ==
    ASSUME NEW d, IsDocument(d), ValidTopology(d)
    PROVE  /\ ProperGroups(GroupsOf(d))
           /\ Len(GroupsOf(d)) \in Nat
           /\ DOMAIN GroupsOf(d) = 1 .. Len(GroupsOf(d))
<1>1. /\ Len(d) \in Nat /\ DOMAIN d = 1 .. Len(d)
      /\ \A i \in DOMAIN d : /\ WellFormed(d[i])
                             /\ ValidGroupRanks(GroupOf(d[i]))
                             /\ \A j \in 1 .. i - 1 :
                                    Compatible(GroupOf(d[i]), GroupOf(d[j]))
    BY DEF IsDocument, ValidTopology
<1>2. \A i \in DOMAIN d : \A j \in DOMAIN d[i].ranks : d[i].ranks[j] \in Int
    BY <1>1 DEF IsDocument, ValidTopology, WellFormed
<1>3. DOMAIN GroupsOf(d) = 1 .. Len(d)
    BY <1>1 DEF GroupsOf
<1>4. \A i \in DOMAIN d : GroupsOf(d)[i] = GroupOf(d[i])
    BY <1>1 DEF GroupsOf
<1>5. ASSUME NEW i \in DOMAIN d
      PROVE  /\ Members(GroupOf(d[i])) # {}
             /\ Members(GroupOf(d[i])) \subseteq Workers
    <2>1. GroupOf(d[i]).ranks = [j \in DOMAIN d[i].ranks |-> RankOf(d[i].ranks[j])]
        BY DEF GroupOf
    <2>2. \A j \in DOMAIN d[i].ranks : RankOf(d[i].ranks[j]) \in Int
        BY <1>2, RankOfInt
    <2>. HIDE DEF RankOf
    <2>3. \A j \in DOMAIN GroupOf(d[i]).ranks : GroupOf(d[i]).ranks[j] \in Int
        BY <2>1, <2>2
    <2>4. GroupOf(d[i]).ranks =
            [j \in DOMAIN GroupOf(d[i]).ranks |-> GroupOf(d[i]).ranks[j]]
        BY <2>1
    <2>. QED
        BY <1>1, <2>3, <2>4, MembersOf
<1>6. ASSUME NEW k \in DOMAIN d, NEW l \in DOMAIN d, k # l
      PROVE  /\ GroupOf(d[k]).model_id # GroupOf(d[l]).model_id
             /\ Members(GroupOf(d[k])) \cap Members(GroupOf(d[l])) = {}
    <2>1. CASE l < k
        <3>1. l \in 1 .. k - 1
            BY <1>1, <2>1
        <3>. QED
            BY <1>1, <3>1 DEF Compatible
    <2>2. CASE k < l
        <3>1. k \in 1 .. l - 1
            BY <1>1, <2>2
        <3>. QED
            BY <1>1, <3>1 DEF Compatible
    <2>. QED
        BY <1>1, <1>6, <2>1, <2>2
<1>7. ProperGroups(GroupsOf(d))
    BY <1>1, <1>3, <1>4, <1>5, <1>6 DEF ProperGroups
<1>8. Len(GroupsOf(d)) = Len(d)
    <2>1. GroupsOf(d) = [i \in 1 .. Len(d) |-> GroupOf(d[i])]
        BY <1>1 DEF GroupsOf
    <2>. HIDE DEF GroupOf
    <2>2. GroupsOf(d) \in Seq({GroupOf(d[i]) : i \in 1 .. Len(d)})
        BY <1>1, <2>1
    <2>. QED
        BY <1>1, <1>3, <2>2
<1>. QED
    BY <1>1, <1>3, <1>7, <1>8

\* init_static: the default group is proper.
LEMMA DefaultIsProper ==
    ASSUME ValidStaticTopology
    PROVE  ProperGroups(<<DefaultGroup>>)
<1>1. Members(DefaultGroup) # {} /\ Members(DefaultGroup) \subseteq Workers
    BY WorldAssumption DEF ValidStaticTopology, DefaultGroup, Members, Workers
<1>. QED
    BY <1>1 DEF ProperGroups
-----------------------------------------------------------------------------
\* How the parts of the invariant move with a step of one rank.
Frame(r) ==
    /\ Domains'
    /\ \A q \in Ranks : q # r =>
        /\ pc'[q] = pc[q] /\ document'[q] = document[q]
        /\ groups'[q] = groups[q] /\ next'[q] = next[q]
        /\ world'[q] = world[q] /\ comm'[q] = comm[q]
        /\ handles'[q] = handles[q] /\ failure'[q] = failure[q]

\* What the script is made of does not change.
LEMMA SetupStays ==
    ASSUME UNCHANGED setup
    PROVE  /\ config' = config /\ file' = file
           /\ Shared' = Shared /\ Offset' = Offset /\ GoodShared' = GoodShared
           /\ \A r : \A n : Script(r, n)' = Script(r, n)
<1>1. config' = config /\ file' = file
    BY DEF setup
<1>2. Shared' = Shared /\ Offset' = Offset
    BY <1>1 DEF Shared, Offset
<1>3. GoodShared' = GoodShared
    BY <1>1, <1>2 DEF GoodShared
<1>4. \A r : \A n : Script(r, n)' = Script(r, n)
    BY <1>2 DEF Script
<1>. QED
    BY <1>1, <1>2, <1>3, <1>4

LEMMA RankInvPrimed ==
    ASSUME UNCHANGED setup, NEW r \in Ranks,
           Scripted(r, world'[r]),
           Position(pc'[r], document'[r], groups'[r], next'[r], world'[r],
                    failure'[r]),
           Grouped(r, groups'[r], comm'[r]),
           Held(pc'[r], handles'[r])
    PROVE  RankInv(r)'
<1>. USE SetupStays
<1>1. Scripted(r, world[r])'
    BY DEF Scripted
<1>2. Position(pc[r], document[r], groups[r], next[r], world[r], failure[r])'
    BY DEF Position
<1>3. Grouped(r, groups[r], comm[r])' /\ Held(pc[r], handles[r])'
    BY DEF Grouped, Held
<1>. QED
    BY <1>1, <1>2, <1>3 DEF RankInv

\* A step of rank r keeps the invariant when it keeps what it says of r.
LEMMA StepKeeps ==
    ASSUME Inv, UNCHANGED setup, NEW r \in Ranks, Frame(r),
           Scripted(r, world'[r]),
           Position(pc'[r], document'[r], groups'[r], next'[r], world'[r],
                    failure'[r]),
           Grouped(r, groups'[r], comm'[r]),
           Held(pc'[r], handles'[r]),
           r = 0 /\ config = "topology" /\ Len(world'[0]) > 0 =>
                document'[0] = file[0] /\ IsDocument(file[0])
    PROVE  Inv'
<1>1. RankInv(r)'
    BY RankInvPrimed
<1>2. ASSUME NEW q \in Ranks, q # r PROVE RankInv(q)'
    <2>1. /\ Scripted(q, world'[q])
          /\ Position(pc'[q], document'[q], groups'[q], next'[q], world'[q],
                      failure'[q])
          /\ Grouped(q, groups'[q], comm'[q])
          /\ Held(pc'[q], handles'[q])
        BY <1>2 DEF Inv, RankInv, Frame
    <2>. QED
        BY <2>1, RankInvPrimed
<1>3. Sent'
    <2>1. 0 \in Ranks
        BY WorldAssumption DEF Ranks
    <2>2. CASE r = 0
        BY <2>2, SetupStays DEF Sent
    <2>3. CASE r # 0
        BY <2>1, <2>3, SetupStays DEF Sent, Inv, Frame
    <2>. QED
        BY <2>2, <2>3
<1>. QED
    BY <1>1, <1>2, <1>3, SetupStays DEF Inv, Frame

\* A posted call that is the next of the script.
LEMMA PostKeepsScript ==
    ASSUME NEW r, NEW calls, Scripted(r, calls)
    PROVE  /\ Len(calls) \in Nat
           /\ LET more == Append(calls, Script(r, Len(calls) + 1))
              IN  Scripted(r, more) /\ Len(more) = Len(calls) + 1
<1>. DEFINE S == {Script(r, n) : n \in Nat}
            c == Script(r, Len(calls) + 1)
<1>1. calls \in Seq(S) /\ Len(calls) \in Nat
    BY DEF Scripted
<1>2. c \in S
    BY <1>1
<1>3. \A n \in 1 .. Len(calls) : calls[n] = Script(r, n)
    BY DEF Scripted
<1>. HIDE DEF S
<1>4. /\ Append(calls, c) \in Seq(S)
      /\ Len(Append(calls, c)) = Len(calls) + 1
      /\ \A n \in 1 .. Len(calls) : Append(calls, c)[n] = calls[n]
      /\ Append(calls, c)[Len(calls) + 1] = c
    BY <1>1, <1>2
<1>5. \A n \in 1 .. Len(Append(calls, c)) : Append(calls, c)[n] = Script(r, n)
    BY <1>1, <1>3, <1>4
<1>. QED
    BY <1>1, <1>4, <1>5 DEF Scripted, S

\* Document, file and groups of a rank that parses.
LEMMA SharedIsGood ==
    /\ config = "topology" /\ IsDocument(file[0]) /\ ValidTopology(file[0]) =>
            GoodShared /\ Shared = GroupsOf(file[0]) /\ Offset = 2
    /\ config = "static" /\ ValidStaticTopology =>
            GoodShared /\ Shared = <<DefaultGroup>> /\ Offset = 0
<1>1. ASSUME config = "topology", IsDocument(file[0]), ValidTopology(file[0])
      PROVE  GoodShared /\ Shared = GroupsOf(file[0]) /\ Offset = 2
    BY <1>1, AcceptedAreProper DEF GoodShared, Shared, Offset
<1>2. ASSUME config = "static", ValidStaticTopology
      PROVE  GoodShared /\ Shared = <<DefaultGroup>> /\ Offset = 0
    <2>1. Shared = <<DefaultGroup>>
        BY <1>2 DEF Shared
    <2>2. Len(<<DefaultGroup>>) = 1 /\ DOMAIN <<DefaultGroup>> = 1 .. 1
        OBVIOUS
    <2>. QED
        BY <1>2, <2>1, <2>2, DefaultIsProper DEF GoodShared, Offset
<1>. QED
    BY <1>1, <1>2

LEMMA GatewayIsRank == 0 \in Ranks
BY WorldAssumption DEF Ranks

LEMMA CallsAreCounted ==
    ASSUME Inv, NEW r \in Ranks
    PROVE  Len(world[r]) \in Nat
BY DEF Inv, RankInv, Scripted

\* Who has received anything has received it from the gateway.
LEMMA GatewaySent ==
    ASSUME Inv, config = "topology", NEW r \in Ranks, Len(world[r]) > 0,
           BroadcastReturns(r)
    PROVE  document[0] = file[0] /\ IsDocument(file[0])
<1>1. Len(world[0]) >= Len(world[r])
    BY GatewayIsRank DEF BroadcastReturns, MetIn
<1>2. Len(world[0]) > 0
    BY <1>1, GatewayIsRank, CallsAreCounted
<1>. QED
    BY <1>2 DEF Inv, Sent

LEMMA OffsetIsNat == Offset \in {0, 2}
BY DEF Offset

LEMMA MemberField ==
    ASSUME NEW o, NEW g, NEW m
    PROVE  [op |-> o, group |-> g, member |-> m].member = m
OBVIOUS

\* A rank at its k-th group calls for that group.
LEMMA SplitInScript ==
    ASSUME GoodShared, NEW r, NEW k \in 1 .. Len(Shared)
    PROVE  Script(r, Offset + k) =
            [op |-> "split", group |-> Shared[k].model_id,
             member |-> r \in Members(Shared[k])]
<1>1. Len(Shared) \in Nat
    BY DEF GoodShared
<1>. DEFINE n == Offset + k
<1>2. /\ ~(Offset = 2 /\ n = 1) /\ ~(Offset = 2 /\ n = 2)
      /\ n > Offset /\ n <= Offset + Len(Shared) /\ n - Offset = k
    BY <1>1, OffsetIsNat
<1>. HIDE DEF n
<1>. QED
    BY <1>2 DEF Script, n

LEMMA FinalizeInScript ==
    ASSUME GoodShared, NEW r, NEW n \in Nat, n > Offset + Len(Shared)
    PROVE  Script(r, n) = [op |-> "finalize", group |-> "", member |-> FALSE]
<1>1. Len(Shared) \in Nat
    BY DEF GoodShared
<1>2. /\ ~(Offset = 2 /\ n = 1) /\ ~(Offset = 2 /\ n = 2)
      /\ ~(n > Offset /\ n <= Offset + Len(Shared))
    BY <1>1, OffsetIsNat
<1>. QED
    BY <1>2 DEF Script

LEMMA BroadcastsInScript ==
    ASSUME config = "topology", NEW r
    PROVE  /\ Offset = 2
           /\ Script(r, 1) = [op |-> "size", group |-> "", member |-> FALSE]
           /\ Script(r, 2) = [op |-> "content", group |-> "", member |-> FALSE]
BY DEF Offset, Script

-----------------------------------------------------------------------------
\* ParseConfig
LEMMA ParseConfigKeeps ==
    ASSUME Inv, UNCHANGED setup, NEW r \in Ranks, ParseConfig(r)
    PROVE  Inv'
<1>. USE DEF ParseConfig, Goto, Throw
<1>1. Frame(r)
    BY DEF Inv, Domains, Frame
<1>2. /\ Domains /\ Scripted(r, world[r])
      /\ Position(pc[r], document[r], groups[r], next[r], world[r], failure[r])
      /\ Grouped(r, groups[r], comm[r]) /\ Held(pc[r], handles[r])
    BY DEF Inv, RankInv
<1>3. Scripted(r, world'[r])
    BY <1>2 DEF Domains
<1>4. Position(pc'[r], document'[r], groups'[r], next'[r], world'[r],
               failure'[r])
    BY <1>2 DEF Domains, Position
<1>5. Grouped(r, groups'[r], comm'[r])
    BY <1>2 DEF Domains, Grouped
<1>6. Held(pc'[r], handles'[r])
    BY <1>2 DEF Domains, Held
<1>7. r = 0 /\ config = "topology" /\ Len(world'[0]) > 0 =>
            document'[0] = file[0] /\ IsDocument(file[0])
    BY DEF Inv, Sent, Domains
<1>. HIDE DEF ParseConfig, Goto, Throw
<1>. QED
    BY <1>1, <1>3, <1>4, <1>5, <1>6, <1>7, StepKeeps

\* SelectDevice
LEMMA SelectDeviceKeeps ==
    ASSUME Inv, UNCHANGED setup, NEW r \in Ranks, SelectDevice(r)
    PROVE  Inv'
<1>. USE DEF SelectDevice, Goto, Throw
<1>1. Frame(r)
    BY DEF Inv, Domains, Frame
<1>2. /\ Domains /\ Scripted(r, world[r])
      /\ Position(pc[r], document[r], groups[r], next[r], world[r], failure[r])
      /\ Grouped(r, groups[r], comm[r]) /\ Held(pc[r], handles[r])
    BY DEF Inv, RankInv
<1>3. Scripted(r, world'[r])
    BY <1>2 DEF Domains
<1>4. Position(pc'[r], document'[r], groups'[r], next'[r], world'[r],
               failure'[r])
    BY <1>2 DEF Domains, Position
<1>5. Grouped(r, groups'[r], comm'[r])
    BY <1>2 DEF Domains, Grouped
<1>6. Held(pc'[r], handles'[r])
    BY <1>2 DEF Domains, Held
<1>7. r = 0 /\ config = "topology" /\ Len(world'[0]) > 0 =>
            document'[0] = file[0] /\ IsDocument(file[0])
    BY DEF Inv, Sent, Domains
<1>. HIDE DEF SelectDevice, Goto, Throw
<1>. QED
    BY <1>1, <1>3, <1>4, <1>5, <1>6, <1>7, StepKeeps

\* InitStatic
LEMMA InitStaticKeeps ==
    ASSUME Inv, UNCHANGED setup, NEW r \in Ranks, InitStatic(r)
    PROVE  Inv'
<1>. USE DEF InitStatic, Goto, Throw
<1>1. Frame(r)
    BY DEF Inv, Domains, Frame
<1>2. /\ Domains /\ Scripted(r, world[r])
      /\ Position(pc[r], document[r], groups[r], next[r], world[r], failure[r])
      /\ Grouped(r, groups[r], comm[r]) /\ Held(pc[r], handles[r])
    BY DEF Inv, RankInv
<1>a. ASSUME ValidStaticTopology
      PROVE  GoodShared /\ Shared = <<DefaultGroup>> /\ Offset = 0
    BY <1>a, SharedIsGood
<1>b. Len(<<DefaultGroup>>) = 1
    OBVIOUS
<1>3. Scripted(r, world'[r])
    BY <1>2 DEF Domains
<1>4. Position(pc'[r], document'[r], groups'[r], next'[r], world'[r],
               failure'[r])
    <2>1. CASE ValidStaticTopology
        <3>1. /\ pc'[r] = "group" /\ groups'[r] = Shared /\ next'[r] = 1
              /\ Len(world'[r]) = 0
            BY <1>2, <1>a, <2>1 DEF Domains, Position
        <3>2. Len(Shared) = 1
            BY <1>a, <1>b, <2>1
        <3>. HIDE DEF InitStatic, Goto, Throw
        <3>. QED
            BY <1>a, <2>1, <3>1, <3>2 DEF Position
    <2>2. CASE ~ValidStaticTopology
        BY <1>2, <2>2 DEF Domains, Position
    <2>. QED
        BY <2>1, <2>2
<1>5. Grouped(r, groups'[r], comm'[r])
    BY <1>2, <1>a DEF Domains, Grouped
<1>6. Held(pc'[r], handles'[r])
    BY <1>2 DEF Domains, Held
<1>7. r = 0 /\ config = "topology" /\ Len(world'[0]) > 0 =>
            document'[0] = file[0] /\ IsDocument(file[0])
    BY DEF Inv, Sent, Domains
<1>. HIDE DEF InitStatic, Goto, Throw
<1>. QED
    BY <1>1, <1>3, <1>4, <1>5, <1>6, <1>7, StepKeeps

\* ReadJson
LEMMA ReadJsonKeeps ==
    ASSUME Inv, UNCHANGED setup, NEW r \in Ranks, ReadJson(r)
    PROVE  Inv'
<1>. USE DEF ReadJson, Goto, Throw, PostWorld
<1>1. Frame(r)
    BY DEF Inv, Domains, Frame
<1>2. /\ Domains /\ Scripted(r, world[r])
      /\ Position(pc[r], document[r], groups[r], next[r], world[r], failure[r])
      /\ Grouped(r, groups[r], comm[r]) /\ Held(pc[r], handles[r])
    BY DEF Inv, RankInv
<1>a. Len(world[r]) = 0 /\ config = "topology"
    BY <1>2 DEF Position
<1>b. LET more == Append(world[r], [op |-> "size", group |-> "", member |-> FALSE])
      IN  Scripted(r, more) /\ Len(more) = 1
    <2>. HIDE DEF ReadJson, Goto, Throw, PostWorld
    <2>1. Len(world[r]) + 1 = 1
        BY <1>a
    <2>. QED
        BY <1>2, <1>a, <2>1, BroadcastsInScript, PostKeepsScript
<1>c. \/ /\ pc'[r] = "unwind" /\ failure'[r] = "file"
         /\ world'[r] = world[r]
      \/ /\ pc'[r] = "size"
         /\ world'[r] = Append(world[r], [op |-> "size", group |-> "", member |-> FALSE])
         /\ r = 0 => document'[0] = file[0] /\ file[0] # Unreadable
    <2>1. CASE r = 0 /\ file[0] = Unreadable
        BY <1>2, <2>1 DEF Domains
    <2>2. CASE r = 0 /\ file[0] # Unreadable
        BY <1>2, <2>2 DEF Domains
    <2>3. CASE r # 0
        BY <1>2, <2>3 DEF Domains
    <2>. QED
        BY <2>1, <2>2, <2>3
<1>d. next'[r] = 1
    BY <1>2 DEF Domains, Position
<1>3. Scripted(r, world'[r])
    BY <1>2, <1>b, <1>c
<1>4. Position(pc'[r], document'[r], groups'[r], next'[r], world'[r],
               failure'[r])
    <2>. HIDE DEF ReadJson, Goto, Throw, PostWorld
    <2>. QED
        BY <1>a, <1>b, <1>c, <1>d DEF Position
<1>5. Grouped(r, groups'[r], comm'[r])
    BY <1>2 DEF Domains, Grouped
<1>6. Held(pc'[r], handles'[r])
    BY <1>2 DEF Domains, Held
<1>7. r = 0 /\ config = "topology" /\ Len(world'[0]) > 0 =>
            document'[0] = file[0] /\ IsDocument(file[0])
    <2>. HIDE DEF ReadJson, Goto, Throw, PostWorld
    <2>1. CASE world'[r] = world[r]
        BY <1>a, <2>1
    <2>2. CASE r = 0 => document'[0] = file[0] /\ file[0] # Unreadable
        BY <2>2 DEF Inv
    <2>. QED
        BY <1>c, <2>1, <2>2
<1>. HIDE DEF ReadJson, Goto, Throw, PostWorld
<1>. QED
    BY <1>1, <1>3, <1>4, <1>5, <1>6, <1>7, StepKeeps

\* ReceiveSize
LEMMA ReceiveSizeKeeps ==
    ASSUME Inv, UNCHANGED setup, NEW r \in Ranks, ReceiveSize(r)
    PROVE  Inv'
<1>. USE DEF ReceiveSize, Goto, Throw, PostWorld
<1>1. Frame(r)
    BY DEF Inv, Domains, Frame
<1>2. /\ Domains /\ Scripted(r, world[r])
      /\ Position(pc[r], document[r], groups[r], next[r], world[r], failure[r])
      /\ Grouped(r, groups[r], comm[r]) /\ Held(pc[r], handles[r])
    BY DEF Inv, RankInv
<1>a. Len(world[r]) = 1 /\ config = "topology" /\ next[r] = 1
    BY <1>2 DEF Position
<1>b. document[0] = file[0] /\ IsDocument(file[0])
    <2>1. BroadcastReturns(r)
        OBVIOUS
    <2>. HIDE DEF ReceiveSize, Goto, Throw, PostWorld
    <2>2. Len(world[r]) > 0
        BY <1>a
    <2>. QED
        BY <1>a, <2>1, <2>2, GatewaySent
<1>c. LET more == Append(world[r], [op |-> "content", group |-> "", member |-> FALSE])
      IN  Scripted(r, more) /\ Len(more) = 2
    <2>. HIDE DEF ReceiveSize, Goto, Throw, PostWorld
    <2>1. Len(world[r]) + 1 = 2
        BY <1>a
    <2>. QED
        BY <1>2, <1>a, <2>1, BroadcastsInScript, PostKeepsScript
<1>d. Empty \in NoEntries /\ ~ValidTopology(Empty)
    BY DEF NoEntries, ValidTopology
<1>3. Scripted(r, world'[r])
    BY <1>2, <1>c DEF Domains
<1>4. Position(pc'[r], document'[r], groups'[r], next'[r], world'[r],
               failure'[r])
    <2>1. /\ next'[r] = 1 /\ groups'[r] = groups[r]
          /\ \/ pc'[r] = "unwind" /\ failure'[r] = "topology"
             \/ pc'[r] = "parse" /\ document'[r] = Empty /\ file[0] = Empty
             \/ pc'[r] = "content" /\ Len(world'[r]) = 2
        BY <1>2, <1>a, <1>b, <1>c DEF Domains
    <2>. HIDE DEF ReceiveSize, Goto, Throw, PostWorld
    <2>2. ~ValidTopology(Empty) /\ IsDocument(Empty)
        BY <1>d DEF IsDocument
    <2>. QED
        BY <1>a, <2>1, <2>2 DEF Position
<1>5. Grouped(r, groups'[r], comm'[r])
    BY <1>2 DEF Domains, Grouped
<1>6. Held(pc'[r], handles'[r])
    BY <1>2 DEF Domains, Held
<1>7. r = 0 /\ config = "topology" /\ Len(world'[0]) > 0 =>
            document'[0] = file[0] /\ IsDocument(file[0])
    <2>1. r = 0 => document'[0] = document[0] \/ (document'[0] = Empty /\ document[0] = Empty)
        BY DEF Inv, Domains
    <2>. HIDE DEF ReceiveSize, Goto, Throw, PostWorld
    <2>. QED
        BY <1>b, <2>1
<1>. HIDE DEF ReceiveSize, Goto, Throw, PostWorld
<1>. QED
    BY <1>1, <1>3, <1>4, <1>5, <1>6, <1>7, StepKeeps

\* ReceiveContent
LEMMA ReceiveContentKeeps ==
    ASSUME Inv, UNCHANGED setup, NEW r \in Ranks, ReceiveContent(r)
    PROVE  Inv'
<1>. USE DEF ReceiveContent, Goto
<1>1. Frame(r)
    BY DEF Inv, Domains, Frame
<1>2. /\ Domains /\ Scripted(r, world[r])
      /\ Position(pc[r], document[r], groups[r], next[r], world[r], failure[r])
      /\ Grouped(r, groups[r], comm[r]) /\ Held(pc[r], handles[r])
    BY DEF Inv, RankInv
<1>a. Len(world[r]) = 2 /\ config = "topology"
    BY <1>2 DEF Position
<1>b. document[0] = file[0] /\ IsDocument(file[0])
    BY <1>a, GatewaySent
<1>3. Scripted(r, world'[r])
    BY <1>2 DEF Domains
<1>4. Position(pc'[r], document'[r], groups'[r], next'[r], world'[r],
               failure'[r])
    BY <1>2, <1>a, <1>b DEF Domains, Position, ContentOf
<1>5. Grouped(r, groups'[r], comm'[r])
    BY <1>2 DEF Domains, Grouped
<1>6. Held(pc'[r], handles'[r])
    BY <1>2 DEF Domains, Held
<1>7. r = 0 /\ config = "topology" /\ Len(world'[0]) > 0 =>
            document'[0] = file[0] /\ IsDocument(file[0])
    BY <1>b DEF Domains, ContentOf
<1>. HIDE DEF ReceiveContent, Goto
<1>. QED
    BY <1>1, <1>3, <1>4, <1>5, <1>6, <1>7, StepKeeps

\* ParseTopology
LEMMA ParseTopologyKeeps ==
    ASSUME Inv, UNCHANGED setup, NEW r \in Ranks, ParseTopology(r)
    PROVE  Inv'
<1>. USE DEF ParseTopology, Goto, Throw
<1>1. Frame(r)
    BY DEF Inv, Domains, Frame
<1>2. /\ Domains /\ Scripted(r, world[r])
      /\ Position(pc[r], document[r], groups[r], next[r], world[r], failure[r])
      /\ Grouped(r, groups[r], comm[r]) /\ Held(pc[r], handles[r])
    BY DEF Inv, RankInv
<1>a. config = "topology" /\ document[r] = file[0]
    BY <1>2 DEF Position
<1>b. ASSUME ValidTopology(document[r])
      PROVE  GoodShared /\ Shared = GroupsOf(file[0]) /\ Offset = 2
    BY <1>2, <1>a, <1>b, SharedIsGood DEF Position
<1>c. ASSUME ValidTopology(document[r])
      PROVE  Len(world[r]) = 2 /\ next[r] = 1
    BY <1>2, <1>a, <1>c DEF Position
<1>3. Scripted(r, world'[r])
    BY <1>2 DEF Domains
<1>4. Position(pc'[r], document'[r], groups'[r], next'[r], world'[r],
               failure'[r])
    <2>1. CASE ValidTopology(document[r])
        <3>1. Len(Shared) \in Nat
            BY <1>b, <2>1 DEF GoodShared
        <3>. QED
            BY <1>2, <1>a, <1>b, <1>c, <2>1, <3>1 DEF Domains, Position
    <2>2. CASE ~ValidTopology(document[r])
        BY <1>2, <2>2 DEF Domains, Position
    <2>. QED
        BY <2>1, <2>2
<1>5. Grouped(r, groups'[r], comm'[r])
    BY <1>2, <1>a, <1>b DEF Domains, Grouped
<1>6. Held(pc'[r], handles'[r])
    BY <1>2 DEF Domains, Held
<1>7. r = 0 /\ config = "topology" /\ Len(world'[0]) > 0 =>
            document'[0] = file[0] /\ IsDocument(file[0])
    BY DEF Inv, Sent, Domains
<1>. HIDE DEF ParseTopology, Goto, Throw
<1>. QED
    BY <1>1, <1>3, <1>4, <1>5, <1>6, <1>7, StepKeeps

\* CallSplit
LEMMA CallSplitKeeps ==
    ASSUME Inv, UNCHANGED setup, NEW r \in Ranks, CallSplit(r)
    PROVE  Inv'
<1>. USE DEF CallSplit, Goto, PostWorld
<1>1. Frame(r)
    BY DEF Inv, Domains, Frame
<1>2. /\ Domains /\ Scripted(r, world[r])
      /\ Position(pc[r], document[r], groups[r], next[r], world[r], failure[r])
      /\ Grouped(r, groups[r], comm[r]) /\ Held(pc[r], handles[r])
    BY DEF Inv, RankInv
<1>a. /\ GoodShared /\ groups[r] = Shared /\ next[r] \in 1 .. Len(Shared) + 1
      /\ Len(world[r]) = Offset + next[r] - 1
    BY <1>2 DEF Position
<1>b. Len(Shared) \in Nat
    BY <1>a DEF GoodShared
<1>c. ASSUME next[r] <= Len(Shared)
      PROVE  LET more == Append(world[r], [op |-> "split", group |-> Shared[next[r]].model_id,
                                           member |-> r \in Members(Shared[next[r]])])
             IN  Scripted(r, more) /\ Len(more) = Offset + next[r]
    <2>. HIDE DEF CallSplit, Goto, PostWorld
    <2>1. next[r] \in 1 .. Len(Shared) /\ Len(world[r]) + 1 = Offset + next[r]
        BY <1>a, <1>b, <1>c, OffsetIsNat
    <2>. QED
        BY <1>2, <1>a, <2>1, SplitInScript, PostKeepsScript
<1>d. \/ next[r] = Len(Shared) + 1 /\ pc'[r] = "serve" /\ world'[r] = world[r]
      \/ /\ next[r] <= Len(Shared) /\ pc'[r] = "split"
         /\ world'[r] = Append(world[r],
                [op |-> "split", group |-> Shared[next[r]].model_id,
                 member |-> r \in Members(Shared[next[r]])])
    BY <1>2, <1>a, <1>b DEF Domains, Current
<1>3. Scripted(r, world'[r])
    BY <1>2, <1>c, <1>d
<1>4. Position(pc'[r], document'[r], groups'[r], next'[r], world'[r],
               failure'[r])
    <2>1. /\ next'[r] = next[r] /\ groups'[r] = Shared
          /\ document'[r] = document[r] /\ failure'[r] = failure[r]
        BY <1>2, <1>a DEF Domains
    <2>2. Offset \in Nat
        BY OffsetIsNat
    <2>. HIDE DEF CallSplit, Goto, PostWorld
    <2>3. CASE next[r] = Len(Shared) + 1 /\ pc'[r] = "serve" /\ world'[r] = world[r]
        BY <1>a, <1>b, <2>1, <2>2, <2>3 DEF Position
    <2>4. CASE next[r] <= Len(Shared) /\ pc'[r] = "split" /\ Len(world'[r]) = Offset + next[r]
        BY <1>a, <1>b, <2>1, <2>2, <2>4 DEF Position
    <2>. QED
        BY <1>c, <1>d, <2>3, <2>4
<1>5. Grouped(r, groups'[r], comm'[r])
    BY <1>2 DEF Domains, Grouped
<1>6. Held(pc'[r], handles'[r])
    BY <1>2 DEF Domains, Held
<1>7. r = 0 /\ config = "topology" /\ Len(world'[0]) > 0 =>
            document'[0] = file[0] /\ IsDocument(file[0])
    <2>1. ASSUME r = 0, config = "topology", Len(world'[0]) > 0
          PROVE  IsDocument(file[0]) /\ document[0] = file[0]
        <3>1. Len(world[0]) > 0
            BY <1>a, <1>b, <2>1 DEF Offset
        <3>. QED
            BY <2>1, <3>1 DEF Inv, Sent
    <2>. QED
        BY <2>1 DEF Domains
<1>. HIDE DEF CallSplit, Goto, PostWorld
<1>. QED
    BY <1>1, <1>3, <1>4, <1>5, <1>6, <1>7, StepKeeps

\* SplitReturns
LEMMA SplitReturnsKeeps ==
    ASSUME Inv, UNCHANGED setup, NEW r \in Ranks, SplitReturns(r)
    PROVE  Inv'
<1>. USE DEF SplitReturns, Goto
<1>1. Frame(r)
    BY DEF Inv, Domains, Frame
<1>2. /\ Domains /\ Scripted(r, world[r])
      /\ Position(pc[r], document[r], groups[r], next[r], world[r], failure[r])
      /\ Grouped(r, groups[r], comm[r]) /\ Held(pc[r], handles[r])
    BY DEF Inv, RankInv
<1>a. /\ GoodShared /\ groups[r] = Shared /\ next[r] \in 1 .. Len(Shared)
      /\ Len(world[r]) = Offset + next[r]
    BY <1>2 DEF Position
<1>b. Len(Shared) \in Nat /\ DOMAIN Shared = 1 .. Len(Shared)
    BY <1>a DEF GoodShared
<1>c. \A s \in Ranks : world[s][Len(world[r])].member <=> s \in Members(Shared[next[r]])
    <2>. SUFFICES ASSUME NEW s \in Ranks
                  PROVE  world[s][Len(world[r])].member <=> s \in Members(Shared[next[r]])
        OBVIOUS
    <2>1. Len(world[s]) >= Len(world[r])
        BY DEF MetIn
    <2>. HIDE DEF SplitReturns, Goto
    <2>2. Scripted(s, world[s]) /\ Len(world[s]) \in Nat /\ Len(world[r]) \in Nat
        BY CallsAreCounted DEF Inv, RankInv
    <2>3. Len(world[r]) \in 1 .. Len(world[s])
        BY <1>a, <1>b, <2>1, <2>2, OffsetIsNat
    <2>4. world[s][Len(world[r])] = Script(s, Offset + next[r])
        BY <1>a, <2>2, <2>3 DEF Scripted
    <2>5. world[s][Len(world[r])] =
            [op |-> "split", group |-> Shared[next[r]].model_id,
             member |-> s \in Members(Shared[next[r]])]
        BY <1>a, <2>4, SplitInScript
    <2>6. world[s][Len(world[r])].member = (s \in Members(Shared[next[r]]))
        BY <2>5, MemberField
    <2>. QED
        BY <2>6
<1>d. Members(Shared[next[r]]) \subseteq Ranks
    BY <1>a, <1>b DEF GoodShared, ProperGroups, Workers, Ranks
<1>e. SplitOf(r, Len(world[r])) =
        IF r \in Members(Shared[next[r]]) THEN Members(Shared[next[r]]) ELSE {}
    <2>. HIDE DEF SplitReturns, Goto
    <2>. QED
        BY <1>c, <1>d DEF SplitOf
<1>f. \/ /\ pc'[r] = "group" /\ next'[r] = next[r] + 1 /\ comm'[r] = comm[r]
      \/ /\ pc'[r] = "get_id" /\ next'[r] = next[r]
         /\ r \in Members(Shared[next[r]])
         /\ comm'[r] = Members(Shared[next[r]])
    BY <1>2, <1>e DEF Domains
<1>3. Scripted(r, world'[r])
    BY <1>2 DEF Domains
<1>4. Position(pc'[r], document'[r], groups'[r], next'[r], world'[r],
               failure'[r])
    <2>1. /\ groups'[r] = Shared /\ world'[r] = world[r]
          /\ document'[r] = document[r] /\ failure'[r] = failure[r]
        BY <1>2, <1>a DEF Domains
    <2>2. Offset \in Nat
        BY OffsetIsNat
    <2>. HIDE DEF SplitReturns, Goto
    <2>3. CASE pc'[r] = "group" /\ next'[r] = next[r] + 1
        BY <1>a, <1>b, <2>1, <2>2, <2>3, SMTT(30) DEF Position
    <2>4. CASE pc'[r] = "get_id" /\ next'[r] = next[r]
        BY <1>a, <1>b, <2>1, <2>2, <2>4, SMTT(30) DEF Position
    <2>. QED
        BY <1>f, <2>3, <2>4
<1>5. Grouped(r, groups'[r], comm'[r])
    <2>1. groups'[r] = Shared
        BY <1>2, <1>a DEF Domains
    <2>. HIDE DEF SplitReturns, Goto
    <2>. QED
        BY <1>2, <1>a, <1>b, <1>f, <2>1 DEF Grouped
<1>6. Held(pc'[r], handles'[r])
    BY <1>2 DEF Domains, Held
<1>7. r = 0 /\ config = "topology" /\ Len(world'[0]) > 0 =>
            document'[0] = file[0] /\ IsDocument(file[0])
    BY DEF Inv, Sent, Domains
<1>. HIDE DEF SplitReturns, Goto
<1>. QED
    BY <1>1, <1>3, <1>4, <1>5, <1>6, <1>7, StepKeeps

\* GetUniqueId
LEMMA GetUniqueIdKeeps ==
    ASSUME Inv, UNCHANGED setup, NEW r \in Ranks, GetUniqueId(r)
    PROVE  Inv'
<1>. USE DEF GetUniqueId, Goto, PostLocal
<1>1. Frame(r)
    BY DEF Inv, Domains, Frame
<1>2. /\ Domains /\ Scripted(r, world[r])
      /\ Position(pc[r], document[r], groups[r], next[r], world[r], failure[r])
      /\ Grouped(r, groups[r], comm[r]) /\ Held(pc[r], handles[r])
    BY DEF Inv, RankInv
<1>3. Scripted(r, world'[r])
    BY <1>2 DEF Domains
<1>4. Position(pc'[r], document'[r], groups'[r], next'[r], world'[r],
               failure'[r])
    BY <1>2 DEF Domains, Position
<1>5. Grouped(r, groups'[r], comm'[r])
    BY <1>2 DEF Domains, Grouped
<1>6. Held(pc'[r], handles'[r])
    BY <1>2 DEF Domains, Held
<1>7. r = 0 /\ config = "topology" /\ Len(world'[0]) > 0 =>
            document'[0] = file[0] /\ IsDocument(file[0])
    BY DEF Inv, Sent, Domains
<1>. HIDE DEF GetUniqueId, Goto, PostLocal
<1>. QED
    BY <1>1, <1>3, <1>4, <1>5, <1>6, <1>7, StepKeeps

\* ReceiveUniqueId
LEMMA ReceiveUniqueIdKeeps ==
    ASSUME Inv, UNCHANGED setup, NEW r \in Ranks, ReceiveUniqueId(r)
    PROVE  Inv'
<1>. USE DEF ReceiveUniqueId, Goto, PostLocal
<1>1. Frame(r)
    BY DEF Inv, Domains, Frame
<1>2. /\ Domains /\ Scripted(r, world[r])
      /\ Position(pc[r], document[r], groups[r], next[r], world[r], failure[r])
      /\ Grouped(r, groups[r], comm[r]) /\ Held(pc[r], handles[r])
    BY DEF Inv, RankInv
<1>3. Scripted(r, world'[r])
    BY <1>2 DEF Domains
<1>4. Position(pc'[r], document'[r], groups'[r], next'[r], world'[r],
               failure'[r])
    BY <1>2 DEF Domains, Position
<1>5. Grouped(r, groups'[r], comm'[r])
    BY <1>2 DEF Domains, Grouped
<1>6. Held(pc'[r], handles'[r])
    BY <1>2 DEF Domains, Held
<1>7. r = 0 /\ config = "topology" /\ Len(world'[0]) > 0 =>
            document'[0] = file[0] /\ IsDocument(file[0])
    BY DEF Inv, Sent, Domains
<1>. HIDE DEF ReceiveUniqueId, Goto, PostLocal
<1>. QED
    BY <1>1, <1>3, <1>4, <1>5, <1>6, <1>7, StepKeeps

\* InitGpuComm
LEMMA InitGpuCommKeeps ==
    ASSUME Inv, UNCHANGED setup, NEW r \in Ranks, InitGpuComm(r)
    PROVE  Inv'
<1>. USE DEF InitGpuComm, Goto, Throw
<1>1. Frame(r)
    BY DEF Inv, Domains, Frame
<1>2. /\ Domains /\ Scripted(r, world[r])
      /\ Position(pc[r], document[r], groups[r], next[r], world[r], failure[r])
      /\ Grouped(r, groups[r], comm[r]) /\ Held(pc[r], handles[r])
    BY DEF Inv, RankInv
<1>3. Scripted(r, world'[r])
    BY <1>2 DEF Domains
<1>4. Position(pc'[r], document'[r], groups'[r], next'[r], world'[r],
               failure'[r])
    BY <1>2 DEF Domains, Position
<1>5. Grouped(r, groups'[r], comm'[r])
    BY <1>2 DEF Domains, Grouped
<1>6. Held(pc'[r], handles'[r])
    BY <1>2 DEF Domains, Held
<1>7. r = 0 /\ config = "topology" /\ Len(world'[0]) > 0 =>
            document'[0] = file[0] /\ IsDocument(file[0])
    BY DEF Inv, Sent, Domains
<1>. HIDE DEF InitGpuComm, Goto, Throw
<1>. QED
    BY <1>1, <1>3, <1>4, <1>5, <1>6, <1>7, StepKeeps

\* GetUniqueIdFails
LEMMA GetUniqueIdFailsKeeps ==
    ASSUME Inv, UNCHANGED setup, NEW r \in Ranks, GetUniqueIdFails(r)
    PROVE  Inv'
<1>. USE DEF GetUniqueIdFails, Goto, Throw
<1>1. Frame(r)
    BY DEF Inv, Domains, Frame
<1>2. /\ Domains /\ Scripted(r, world[r])
      /\ Position(pc[r], document[r], groups[r], next[r], world[r], failure[r])
      /\ Grouped(r, groups[r], comm[r]) /\ Held(pc[r], handles[r])
    BY DEF Inv, RankInv
<1>3. Scripted(r, world'[r])
    BY <1>2 DEF Domains
<1>4. Position(pc'[r], document'[r], groups'[r], next'[r], world'[r],
               failure'[r])
    BY <1>2 DEF Domains, Position
<1>5. Grouped(r, groups'[r], comm'[r])
    BY <1>2 DEF Domains, Grouped
<1>6. Held(pc'[r], handles'[r])
    BY <1>2 DEF Domains, Held
<1>7. r = 0 /\ config = "topology" /\ Len(world'[0]) > 0 =>
            document'[0] = file[0] /\ IsDocument(file[0])
    BY DEF Inv, Sent, Domains
<1>. HIDE DEF GetUniqueIdFails, Goto, Throw
<1>. QED
    BY <1>1, <1>3, <1>4, <1>5, <1>6, <1>7, StepKeeps

\* InitGpuCommFails
LEMMA InitGpuCommFailsKeeps ==
    ASSUME Inv, UNCHANGED setup, NEW r \in Ranks, InitGpuCommFails(r)
    PROVE  Inv'
<1>. USE DEF InitGpuCommFails, Goto, Throw
<1>1. Frame(r)
    BY DEF Inv, Domains, Frame
<1>2. /\ Domains /\ Scripted(r, world[r])
      /\ Position(pc[r], document[r], groups[r], next[r], world[r], failure[r])
      /\ Grouped(r, groups[r], comm[r]) /\ Held(pc[r], handles[r])
    BY DEF Inv, RankInv
<1>3. Scripted(r, world'[r])
    BY <1>2 DEF Domains
<1>4. Position(pc'[r], document'[r], groups'[r], next'[r], world'[r],
               failure'[r])
    BY <1>2 DEF Domains, Position
<1>5. Grouped(r, groups'[r], comm'[r])
    BY <1>2 DEF Domains, Grouped
<1>6. Held(pc'[r], handles'[r])
    BY <1>2 DEF Domains, Held
<1>7. r = 0 /\ config = "topology" /\ Len(world'[0]) > 0 =>
            document'[0] = file[0] /\ IsDocument(file[0])
    BY DEF Inv, Sent, Domains
<1>. HIDE DEF InitGpuCommFails, Goto, Throw
<1>. QED
    BY <1>1, <1>3, <1>4, <1>5, <1>6, <1>7, StepKeeps

\* MpiCallFails
LEMMA MpiCallFailsKeeps ==
    ASSUME Inv, UNCHANGED setup, NEW r \in Ranks, MpiCallFails(r)
    PROVE  Inv'
<1>. USE DEF MpiCallFails, Goto, Throw
<1>1. Frame(r)
    BY DEF Inv, Domains, Frame
<1>2. /\ Domains /\ Scripted(r, world[r])
      /\ Position(pc[r], document[r], groups[r], next[r], world[r], failure[r])
      /\ Grouped(r, groups[r], comm[r]) /\ Held(pc[r], handles[r])
    BY DEF Inv, RankInv
<1>3. Scripted(r, world'[r])
    BY <1>2 DEF Domains
<1>4. Position(pc'[r], document'[r], groups'[r], next'[r], world'[r],
               failure'[r])
    BY <1>2 DEF Domains, Position
<1>5. Grouped(r, groups'[r], comm'[r])
    BY <1>2 DEF Domains, Grouped
<1>6. Held(pc'[r], handles'[r])
    BY <1>2 DEF Domains, Held
<1>7. r = 0 /\ config = "topology" /\ Len(world'[0]) > 0 =>
            document'[0] = file[0] /\ IsDocument(file[0])
    BY DEF Inv, Sent, Domains
<1>. HIDE DEF MpiCallFails, Goto, Throw
<1>. QED
    BY <1>1, <1>3, <1>4, <1>5, <1>6, <1>7, StepKeeps

\* LeaveLoop
LEMMA LeaveLoopKeeps ==
    ASSUME Inv, UNCHANGED setup, NEW r \in Ranks, LeaveLoop(r)
    PROVE  Inv'
<1>. USE DEF LeaveLoop, Goto
<1>1. Frame(r)
    BY DEF Inv, Domains, Frame
<1>2. /\ Domains /\ Scripted(r, world[r])
      /\ Position(pc[r], document[r], groups[r], next[r], world[r], failure[r])
      /\ Grouped(r, groups[r], comm[r]) /\ Held(pc[r], handles[r])
    BY DEF Inv, RankInv
<1>3. Scripted(r, world'[r])
    BY <1>2 DEF Domains
<1>4. Position(pc'[r], document'[r], groups'[r], next'[r], world'[r],
               failure'[r])
    BY <1>2 DEF Domains, Position
<1>5. Grouped(r, groups'[r], comm'[r])
    BY <1>2 DEF Domains, Grouped
<1>6. Held(pc'[r], handles'[r])
    BY <1>2 DEF Domains, Held
<1>7. r = 0 /\ config = "topology" /\ Len(world'[0]) > 0 =>
            document'[0] = file[0] /\ IsDocument(file[0])
    BY DEF Inv, Sent, Domains
<1>. HIDE DEF LeaveLoop, Goto
<1>. QED
    BY <1>1, <1>3, <1>4, <1>5, <1>6, <1>7, StepKeeps

\* LoopThrows
LEMMA LoopThrowsKeeps ==
    ASSUME Inv, UNCHANGED setup, NEW r \in Ranks, LoopThrows(r)
    PROVE  Inv'
<1>. USE DEF LoopThrows, Goto, Throw
<1>1. Frame(r)
    BY DEF Inv, Domains, Frame
<1>2. /\ Domains /\ Scripted(r, world[r])
      /\ Position(pc[r], document[r], groups[r], next[r], world[r], failure[r])
      /\ Grouped(r, groups[r], comm[r]) /\ Held(pc[r], handles[r])
    BY DEF Inv, RankInv
<1>3. Scripted(r, world'[r])
    BY <1>2 DEF Domains
<1>4. Position(pc'[r], document'[r], groups'[r], next'[r], world'[r],
               failure'[r])
    BY <1>2 DEF Domains, Position
<1>5. Grouped(r, groups'[r], comm'[r])
    BY <1>2 DEF Domains, Grouped
<1>6. Held(pc'[r], handles'[r])
    BY <1>2 DEF Domains, Held
<1>7. r = 0 /\ config = "topology" /\ Len(world'[0]) > 0 =>
            document'[0] = file[0] /\ IsDocument(file[0])
    BY DEF Inv, Sent, Domains
<1>. HIDE DEF LoopThrows, Goto, Throw
<1>. QED
    BY <1>1, <1>3, <1>4, <1>5, <1>6, <1>7, StepKeeps

\* Finalize
LEMMA FinalizeKeeps ==
    ASSUME Inv, UNCHANGED setup, NEW r \in Ranks, Finalize(r)
    PROVE  Inv'
<1>. USE DEF Finalize, Goto, PostLocal, Continue
<1>1. Frame(r)
    BY DEF Inv, Domains, Frame
<1>2. /\ Domains /\ Scripted(r, world[r])
      /\ Position(pc[r], document[r], groups[r], next[r], world[r], failure[r])
      /\ Grouped(r, groups[r], comm[r]) /\ Held(pc[r], handles[r])
    BY DEF Inv, RankInv
<1>3. Scripted(r, world'[r])
    BY <1>2 DEF Domains
<1>4. Position(pc'[r], document'[r], groups'[r], next'[r], world'[r],
               failure'[r])
    BY <1>2 DEF Domains, Position
<1>5. Grouped(r, groups'[r], comm'[r])
    BY <1>2 DEF Domains, Grouped
<1>6. Held(pc'[r], handles'[r])
    BY <1>2 DEF Domains, Held
<1>7. r = 0 /\ config = "topology" /\ Len(world'[0]) > 0 =>
            document'[0] = file[0] /\ IsDocument(file[0])
    BY DEF Inv, Sent, Domains
<1>. HIDE DEF Finalize, Goto, PostLocal, Continue
<1>. QED
    BY <1>1, <1>3, <1>4, <1>5, <1>6, <1>7, StepKeeps

\* DestroyReturns
LEMMA DestroyReturnsKeeps ==
    ASSUME Inv, UNCHANGED setup, NEW r \in Ranks, DestroyReturns(r)
    PROVE  Inv'
<1>. USE DEF DestroyReturns, Goto, PostLocal
<1>1. Frame(r)
    BY DEF Inv, Domains, Frame
<1>2. /\ Domains /\ Scripted(r, world[r])
      /\ Position(pc[r], document[r], groups[r], next[r], world[r], failure[r])
      /\ Grouped(r, groups[r], comm[r]) /\ Held(pc[r], handles[r])
    BY DEF Inv, RankInv
<1>3. Scripted(r, world'[r])
    BY <1>2 DEF Domains
<1>4. Position(pc'[r], document'[r], groups'[r], next'[r], world'[r],
               failure'[r])
    BY <1>2 DEF Domains, Position
<1>5. Grouped(r, groups'[r], comm'[r])
    BY <1>2 DEF Domains, Grouped
<1>6. Held(pc'[r], handles'[r])
    BY <1>2 DEF Domains, Held
<1>7. r = 0 /\ config = "topology" /\ Len(world'[0]) > 0 =>
            document'[0] = file[0] /\ IsDocument(file[0])
    BY DEF Inv, Sent, Domains
<1>. HIDE DEF DestroyReturns, Goto, PostLocal
<1>. QED
    BY <1>1, <1>3, <1>4, <1>5, <1>6, <1>7, StepKeeps

\* FreeReturns
LEMMA FreeReturnsKeeps ==
    ASSUME Inv, UNCHANGED setup, NEW r \in Ranks, FreeReturns(r)
    PROVE  Inv'
<1>. USE DEF FreeReturns, Goto, Freed, Continue
<1>1. Frame(r)
    BY DEF Inv, Domains, Frame
<1>2. /\ Domains /\ Scripted(r, world[r])
      /\ Position(pc[r], document[r], groups[r], next[r], world[r], failure[r])
      /\ Grouped(r, groups[r], comm[r]) /\ Held(pc[r], handles[r])
    BY DEF Inv, RankInv
<1>3. Scripted(r, world'[r])
    BY <1>2 DEF Domains
<1>4. Position(pc'[r], document'[r], groups'[r], next'[r], world'[r],
               failure'[r])
    BY <1>2 DEF Domains, Position
<1>5. Grouped(r, groups'[r], comm'[r])
    BY <1>2 DEF Domains, Grouped
<1>6. Held(pc'[r], handles'[r])
    BY <1>2 DEF Domains, Held
<1>7. r = 0 /\ config = "topology" /\ Len(world'[0]) > 0 =>
            document'[0] = file[0] /\ IsDocument(file[0])
    BY DEF Inv, Sent, Domains
<1>. HIDE DEF FreeReturns, Goto, Freed, Continue
<1>. QED
    BY <1>1, <1>3, <1>4, <1>5, <1>6, <1>7, StepKeeps

\* MpiFinalize
LEMMA MpiFinalizeKeeps ==
    ASSUME Inv, UNCHANGED setup, NEW r \in Ranks, MpiFinalize(r)
    PROVE  Inv'
<1>. USE DEF MpiFinalize, Goto, PostWorld
<1>1. Frame(r)
    BY DEF Inv, Domains, Frame
<1>2. /\ Domains /\ Scripted(r, world[r])
      /\ Position(pc[r], document[r], groups[r], next[r], world[r], failure[r])
      /\ Grouped(r, groups[r], comm[r]) /\ Held(pc[r], handles[r])
    BY DEF Inv, RankInv
<1>a. /\ GoodShared /\ groups[r] = Shared
      /\ Len(world[r]) >= Offset + Len(Shared)
    BY <1>2 DEF Position
<1>b. Len(Shared) \in Nat /\ Len(world[r]) \in Nat
    <2>. HIDE DEF MpiFinalize
    <2>. QED
        BY <1>a, CallsAreCounted DEF GoodShared
<1>c. LET more == Append(world[r], [op |-> "finalize", group |-> "", member |-> FALSE])
      IN  Scripted(r, more) /\ Len(more) = Len(world[r]) + 1
    <2>. HIDE DEF MpiFinalize, Goto, PostWorld
    <2>1. Len(world[r]) + 1 \in Nat /\ Len(world[r]) + 1 > Offset + Len(Shared)
        BY <1>a, <1>b, OffsetIsNat
    <2>. QED
        BY <1>2, <1>a, <2>1, FinalizeInScript, PostKeepsScript
<1>3. Scripted(r, world'[r])
    BY <1>2, <1>c DEF Domains
<1>4. Position(pc'[r], document'[r], groups'[r], next'[r], world'[r],
               failure'[r])
    <2>1. Len(world'[r]) = Len(world[r]) + 1 /\ groups'[r] = Shared /\ pc'[r] = "finalizing"
        BY <1>2, <1>a, <1>c DEF Domains
    <2>. HIDE DEF MpiFinalize, Goto, PostWorld
    <2>2. Len(world'[r]) >= Offset + Len(Shared)
        BY <1>a, <1>b, <2>1, OffsetIsNat
    <2>. QED
        BY <1>a, <2>1, <2>2 DEF Position
<1>5. Grouped(r, groups'[r], comm'[r])
    BY <1>2 DEF Domains, Grouped
<1>6. Held(pc'[r], handles'[r])
    BY <1>2 DEF Domains, Held
<1>7. r = 0 /\ config = "topology" /\ Len(world'[0]) > 0 =>
            document'[0] = file[0] /\ IsDocument(file[0])
    <2>1. ASSUME r = 0, config = "topology", Len(world'[0]) > 0
          PROVE  IsDocument(file[0]) /\ document[0] = file[0]
        <3>1. Offset = 2
            BY <2>1 DEF Offset
        <3>. HIDE DEF MpiFinalize, Goto, PostWorld
        <3>2. Len(world[0]) > 0
            BY <1>a, <1>b, <2>1, <3>1
        <3>. QED
            BY <2>1, <3>2 DEF Inv, Sent
    <2>. QED
        BY <2>1 DEF Domains
<1>. HIDE DEF MpiFinalize, Goto, PostWorld
<1>. QED
    BY <1>1, <1>3, <1>4, <1>5, <1>6, <1>7, StepKeeps

\* MpiFinalizeReturns
LEMMA MpiFinalizeReturnsKeeps ==
    ASSUME Inv, UNCHANGED setup, NEW r \in Ranks, MpiFinalizeReturns(r)
    PROVE  Inv'
<1>. USE DEF MpiFinalizeReturns, Goto
<1>1. Frame(r)
    BY DEF Inv, Domains, Frame
<1>2. /\ Domains /\ Scripted(r, world[r])
      /\ Position(pc[r], document[r], groups[r], next[r], world[r], failure[r])
      /\ Grouped(r, groups[r], comm[r]) /\ Held(pc[r], handles[r])
    BY DEF Inv, RankInv
<1>3. Scripted(r, world'[r])
    BY <1>2 DEF Domains
<1>4. Position(pc'[r], document'[r], groups'[r], next'[r], world'[r],
               failure'[r])
    BY <1>2 DEF Domains, Position
<1>5. Grouped(r, groups'[r], comm'[r])
    BY <1>2 DEF Domains, Grouped
<1>6. Held(pc'[r], handles'[r])
    BY <1>2 DEF Domains, Held
<1>7. r = 0 /\ config = "topology" /\ Len(world'[0]) > 0 =>
            document'[0] = file[0] /\ IsDocument(file[0])
    BY DEF Inv, Sent, Domains
<1>. HIDE DEF MpiFinalizeReturns, Goto
<1>. QED
    BY <1>1, <1>3, <1>4, <1>5, <1>6, <1>7, StepKeeps

\* GatewayStops
LEMMA GatewayStopsKeeps ==
    ASSUME Inv, UNCHANGED setup, GatewayStops
    PROVE  Inv'
<1>. USE DEF GatewayStops, Goto
<1>r. 0 \in Ranks
    BY GatewayIsRank
<1>1. Frame(0)
    BY <1>r DEF Inv, Domains, Frame
<1>2. /\ Domains /\ Scripted(0, world[0])
      /\ Position(pc[0], document[0], groups[0], next[0], world[0], failure[0])
      /\ Grouped(0, groups[0], comm[0]) /\ Held(pc[0], handles[0])
    BY <1>r DEF Inv, RankInv
<1>4. Position(pc'[0], document'[0], groups'[0], next'[0], world'[0],
               failure'[0])
    BY <1>2, <1>r DEF Domains, Position
<1>5. Grouped(0, groups'[0], comm'[0])
    BY <1>2 DEF Domains, Grouped
<1>6. Held(pc'[0], handles'[0])
    BY <1>2, <1>r DEF Domains, Held
<1>7. config = "topology" /\ Len(world'[0]) > 0 =>
            document'[0] = file[0] /\ IsDocument(file[0])
    BY DEF Inv, Sent, Domains
<1>8. Scripted(0, world'[0])
    BY <1>2
<1>. HIDE DEF GatewayStops, Goto
<1>. QED
    BY <1>r, <1>1, <1>4, <1>5, <1>6, <1>7, <1>8, StepKeeps

\* The end of all processes, and stuttering.
LEMMA NothingChangesKeeps ==
    ASSUME Inv, UNCHANGED setup,
           UNCHANGED <<pc, document, groups, next, world, comm, handles, failure>>
    PROVE  Inv'
<1>1. ASSUME NEW r \in Ranks
      PROVE  RankInv(r)'
    <2>1. /\ Scripted(r, world'[r])
          /\ Position(pc'[r], document'[r], groups'[r], next'[r], world'[r],
                      failure'[r])
          /\ Grouped(r, groups'[r], comm'[r])
          /\ Held(pc'[r], handles'[r])
        BY DEF Inv, RankInv
    <2>. QED
        BY <2>1, RankInvPrimed
<1>2. Domains' /\ Sent'
    BY SetupStays DEF Inv, Domains, Sent
<1>. QED
    BY <1>1, <1>2, SetupStays DEF Inv
-----------------------------------------------------------------------------
LEMMA InitEstablishesInv ==
    ASSUME Init
    PROVE  Inv
<1>1. Domains /\ config \in {"topology", "static", "help", "bad"}
    BY DEF Init, Domains
<1>2. file[0] # Unreadable => IsDocument(file[0])
    <2>1. PICK here \in Documents \cup {Unreadable}, there \in OtherDocuments :
            file = [r \in Ranks |-> IF r = 0 THEN here ELSE there]
        BY DEF Init
    <2>2. file[0] = here
        BY <2>1, GatewayIsRank
    <2>. QED
        BY <2>2, StartUpAssumption
<1>3. Sent
    BY GatewayIsRank DEF Init, Sent
<1>4. ASSUME NEW r \in Ranks
      PROVE  RankInv(r)
    <2>1. /\ pc[r] = "config" /\ groups[r] = <<>> /\ next[r] = 1
          /\ world[r] = <<>> /\ comm[r] = {} /\ handles[r] = {}
        BY DEF Init
    <2>2. Scripted(r, world[r])
        <3>. DEFINE S == {Script(r, n) : n \in Nat}
        <3>. HIDE DEF S
        <3>1. <<>> \in Seq(S) /\ Len(<<>>) = 0
            OBVIOUS
        <3>. QED
            BY <2>1, <3>1 DEF Scripted, S
    <2>3. Position(pc[r], document[r], groups[r], next[r], world[r], failure[r])
        BY <2>1 DEF Position
    <2>4. Grouped(r, groups[r], comm[r]) /\ Held(pc[r], handles[r])
        BY <2>1 DEF Grouped, Held
    <2>. QED
        BY <2>2, <2>3, <2>4 DEF RankInv
<1>. QED
    BY <1>1, <1>2, <1>3, <1>4 DEF Inv

LEMMA ProceedKeeps ==
    ASSUME Inv, UNCHANGED setup, NEW r \in Ranks, Proceed(r)
    PROVE  Inv'
<1>1. CASE ParseConfig(r) \/ SelectDevice(r) \/ InitStatic(r)
    BY <1>1, ParseConfigKeeps, SelectDeviceKeeps, InitStaticKeeps
<1>2. CASE ReadJson(r) \/ ReceiveSize(r) \/ ReceiveContent(r)
           \/ ParseTopology(r)
    BY <1>2, ReadJsonKeeps, ReceiveSizeKeeps, ReceiveContentKeeps,
       ParseTopologyKeeps
<1>3. CASE CallSplit(r) \/ SplitReturns(r) \/ GetUniqueId(r)
    BY <1>3, CallSplitKeeps, SplitReturnsKeeps, GetUniqueIdKeeps
<1>4. CASE ReceiveUniqueId(r) \/ InitGpuComm(r) \/ LeaveLoop(r)
    BY <1>4, ReceiveUniqueIdKeeps, InitGpuCommKeeps, LeaveLoopKeeps
<1>5. CASE Finalize(r) \/ DestroyReturns(r) \/ FreeReturns(r)
    BY <1>5, FinalizeKeeps, DestroyReturnsKeeps, FreeReturnsKeeps
<1>6. CASE MpiFinalize(r) \/ MpiFinalizeReturns(r)
    BY <1>6, MpiFinalizeKeeps, MpiFinalizeReturnsKeeps
<1>. QED
    BY <1>1, <1>2, <1>3, <1>4, <1>5, <1>6 DEF Proceed

LEMMA EnvironmentKeeps ==
    ASSUME Inv, Environment
    PROVE  Inv'
<1>1. UNCHANGED setup
    BY DEF Environment, Alive
<1>2. CASE GatewayStops
    BY <1>1, <1>2, GatewayStopsKeeps
<1>3. ASSUME NEW r \in Ranks,
             \/ MpiCallFails(r) \/ LoopThrows(r)
             \/ GetUniqueIdFails(r) \/ InitGpuCommFails(r)
      PROVE  Inv'
    BY <1>1, <1>3, MpiCallFailsKeeps, LoopThrowsKeeps, GetUniqueIdFailsKeeps,
       InitGpuCommFailsKeeps
<1>4. ASSUME NEW r \in Ranks, FinalizeThrows(r)
      PROVE  Inv'
    <2>1. UNCHANGED <<pc, document, groups, next, world, comm, handles, failure>>
        BY <1>4 DEF FinalizeThrows
    <2>. QED
        BY <1>1, <2>1, NothingChangesKeeps
<1>. QED
    BY <1>2, <1>3, <1>4 DEF Environment

LEMMA NextKeepsInv ==
    ASSUME Inv, [Next]_vars
    PROVE  Inv'
<1>1. ASSUME NEW r \in Ranks, RankStep(r)
      PROVE  Inv'
    BY <1>1, ProceedKeeps DEF RankStep, Alive
<1>2. CASE Environment
    BY <1>2, EnvironmentKeeps
<1>3. CASE Ending
    <2>1. /\ UNCHANGED setup
          /\ UNCHANGED <<pc, document, groups, next, world, comm, handles, failure>>
        BY <1>3 DEF Ending, Alive, Abort
    <2>. QED
        BY <2>1, NothingChangesKeeps
<1>4. CASE UNCHANGED vars
    <2>1. /\ UNCHANGED setup
          /\ UNCHANGED <<pc, document, groups, next, world, comm, handles, failure>>
        BY <1>4 DEF vars
    <2>. QED
        BY <2>1, NothingChangesKeeps
<1>. QED
    BY <1>1, <1>2, <1>3, <1>4 DEF Next

\* Every rank stands where its script says.
THEOREM ScriptInvariant == Spec => []Inv
<1>1. Init => Inv
    BY InitEstablishesInv
<1>2. Inv /\ [Next]_vars => Inv'
    BY NextKeepsInv
<1>. QED
    BY <1>1, <1>2, PTL DEF Spec
-----------------------------------------------------------------------------
\* For every topology file, the groups a rank works with are what the
\* pipeline assumes of its groups.  (parse_topology_json, init_static)
THEOREM GroupsAreProperInvariant == Spec => []GroupsAreProper
<1>1. ASSUME Inv PROVE GroupsAreProper
    <2>1. ASSUME NEW r \in Ranks
          PROVE  ProperGroups(groups[r])
        <3>1. Grouped(r, groups[r], comm[r])
            BY <1>1 DEF Inv, RankInv
        <3>2. CASE groups[r] = <<>>
            BY <3>2 DEF ProperGroups
        <3>3. CASE GoodShared /\ groups[r] = Shared
            BY <3>3 DEF GoodShared
        <3>. QED
            BY <3>1, <3>2, <3>3 DEF Grouped
    <2>. QED
        BY <2>1 DEF GroupsAreProper
<1>2. Inv => GroupsAreProper
    BY <1>1
<1>. QED
    BY <1>2, ScriptInvariant, PTL

\* For any number of ranks, whatever fails and wherever: two ranks never
\* make calls on MPI_COMM_WORLD in different orders.  (load_from_json)
THEOREM WorldCallsAgreeInvariant == Spec => []WorldCallsAgree
<1>1. ASSUME Inv PROVE WorldCallsAgree
    <2>1. ASSUME NEW r \in Ranks, NEW n \in DOMAIN world[r]
          PROVE  n \in 1 .. Len(world[r]) /\ world[r][n] = Script(r, n)
        <3>1. Scripted(r, world[r])
            BY <1>1 DEF Inv, RankInv
        <3>. DEFINE S == {Script(r, k) : k \in Nat}
        <3>2. world[r] \in Seq(S)
            BY <3>1 DEF Scripted
        <3>. HIDE DEF S
        <3>3. n \in 1 .. Len(world[r])
            BY <2>1, <3>2
        <3>. QED
            BY <3>1, <3>3 DEF Scripted
    <2>2. ASSUME NEW r \in Ranks, NEW s \in Ranks, NEW n
          PROVE  /\ Script(r, n).op = Script(s, n).op
                 /\ Script(r, n).group = Script(s, n).group
        <3>1. CASE Offset = 2 /\ n = 1
            BY <3>1 DEF Script
        <3>2. CASE Offset = 2 /\ n = 2
            BY <3>2 DEF Script
        <3>3. CASE /\ ~(Offset = 2 /\ n = 1) /\ ~(Offset = 2 /\ n = 2)
                   /\ n > Offset /\ n <= Offset + Len(Shared)
            BY <3>3 DEF Script
        <3>4. CASE /\ ~(Offset = 2 /\ n = 1) /\ ~(Offset = 2 /\ n = 2)
                   /\ ~(n > Offset /\ n <= Offset + Len(Shared))
            BY <3>4 DEF Script
        <3>. QED
            BY <3>1, <3>2, <3>3, <3>4
    <2>3. ASSUME NEW r \in Ranks, NEW s \in Ranks,
                 NEW n \in DOMAIN world[r] \cap DOMAIN world[s]
          PROVE  /\ world[r][n].op = world[s][n].op
                 /\ world[r][n].group = world[s][n].group
        <3>1. world[r][n] = Script(r, n) /\ world[s][n] = Script(s, n)
            BY <2>1
        <3>. QED
            BY <2>2, <3>1
    <2>. QED
        BY <2>3 DEF WorldCallsAgree
<1>2. Inv => WorldCallsAgree
    BY <1>1
<1>. QED
    BY <1>2, ScriptInvariant, PTL

\* For any groups and any order in which the ranks split: a communicator
\* holds its group and nobody else.  (create_group_comms)
THEOREM CommsArePreciseInvariant == Spec => []CommsArePrecise
<1>1. ASSUME Inv PROVE CommsArePrecise
    BY <1>1 DEF Inv, RankInv, Grouped, CommsArePrecise
<1>2. Inv => CommsArePrecise
    BY <1>1
<1>. QED
    BY <1>2, ScriptInvariant, PTL

\* Every rank has freed its communicators before it finalizes MPI.
\* (finalize, main)
THEOREM NothingLeftToFreeInvariant == Spec => []NothingLeftToFree
<1>1. ASSUME Inv PROVE NothingLeftToFree
    BY <1>1 DEF Inv, RankInv, Held, NothingLeftToFree
<1>2. Inv => NothingLeftToFree
    BY <1>1
<1>. QED
    BY <1>2, ScriptInvariant, PTL
-----------------------------------------------------------------------------
(* The types.  The root of a communicator is one of its members, so that   *)
(* its number can be read: whoever waits for it has a communicator.        *)

Typed ==
    /\ TypeOK
    /\ \A r \in Ranks : pc[r] \in {"get_id", "broadcast"} => comm[r] # {}

\* The labels at which no unique id is on its way.
Elsewhere == Labels \ {"get_id", "broadcast"}

LEMMA RootIsMember ==
    ASSUME NEW members, members \subseteq Ranks, members # {}
    PROVE  Root(members) \in members
<1>1. members \subseteq Nat
    BY WorldAssumption DEF Ranks
<1>2. \E r \in members : \A s \in members : r <= s
    BY <1>1, LeastNumber
<1>. QED
    BY <1>2 DEF Root

\* A step of rank r that leaves its topology and its communicator alone.
LEMMA ControlStepTyped ==
    ASSUME Typed, NEW r \in Ranks,
           \E label \in Elsewhere : Goto(r, label),
           \/ UNCHANGED failure
           \/ \E cause \in Causes : failure' = [failure EXCEPT ![r] = cause],
           UNCHANGED <<groups, next, comm, unique_id>>,
           handles' \in [Ranks -> SUBSET {"gpu", "mpi"}],
           stopped' \in BOOLEAN, aborted' \in BOOLEAN
    PROVE  Typed'
<1>1. PICK label \in Elsewhere : pc' = [pc EXCEPT ![r] = label]
    BY DEF Goto
<1>2. label \in Labels /\ label \notin {"get_id", "broadcast"}
    BY DEF Elsewhere
<1>. HIDE DEF Elsewhere
<1>3. pc' \in [Ranks -> Labels]
    BY <1>1, <1>2 DEF Typed, TypeOK
<1>4. ASSUME NEW s \in Ranks, pc'[s] \in {"get_id", "broadcast"}
      PROVE  pc'[s] = pc[s]
    BY <1>1, <1>2, <1>4 DEF Typed, TypeOK
<1>5. failure' \in [Ranks -> {"none"} \cup Causes]
    BY DEF Typed, TypeOK
<1>. QED
    BY <1>3, <1>4, <1>5 DEF Typed, TypeOK

\* ParseConfig to ReceiveContent, and the end of the process.
LEMMA ControlKeepsTypes ==
    ASSUME Typed, NEW r \in Ranks, UNCHANGED aborted,
           \/ ParseConfig(r) \/ SelectDevice(r) \/ ReadJson(r)
           \/ ReceiveSize(r) \/ ReceiveContent(r)
           \/ CallSplit(r) \/ LeaveLoop(r) \/ MpiFinalize(r)
           \/ MpiFinalizeReturns(r)
           \/ MpiCallFails(r) \/ LoopThrows(r)
           \/ GetUniqueIdFails(r) \/ InitGpuCommFails(r)
           \/ Finalize(r) \/ FreeReturns(r) \/ DestroyReturns(r)
           \/ r = 0 /\ GatewayStops
    PROVE  Typed'
<1>. DEFINE Step(label) == label \in Elsewhere /\ Goto(r, label)
            Fails == \/ UNCHANGED failure
                     \/ \E cause \in Causes : failure' = [failure EXCEPT ![r] = cause]
<1>1. /\ UNCHANGED <<groups, next, comm, unique_id, aborted>>
      /\ stopped' \in BOOLEAN
    BY DEF ParseConfig, SelectDevice, ReadJson, ReceiveSize, ReceiveContent,
           CallSplit, LeaveLoop, MpiFinalize, MpiFinalizeReturns, MpiCallFails,
           GetUniqueIdFails, InitGpuCommFails, LoopThrows, Finalize,
           FreeReturns, DestroyReturns, GatewayStops, Typed, TypeOK
<1>2. handles' \in [Ranks -> SUBSET {"gpu", "mpi"}]
    <2>1. handles \in [Ranks -> SUBSET {"gpu", "mpi"}]
        BY DEF Typed, TypeOK
    <2>2. CASE FreeReturns(r) \/ DestroyReturns(r)
        <3>1. handles[r] \in SUBSET {"gpu", "mpi"}
            BY <2>1
        <3>. QED
            BY <2>1, <2>2, <3>1 DEF FreeReturns, DestroyReturns, Freed
    <2>3. CASE UNCHANGED handles
        BY <2>1, <2>3
    <2>. QED
        BY <2>2, <2>3 DEF ParseConfig, SelectDevice, ReadJson, ReceiveSize,
           ReceiveContent, CallSplit, LeaveLoop, MpiFinalize,
           MpiFinalizeReturns, MpiCallFails, GetUniqueIdFails,
           InitGpuCommFails, LoopThrows, Finalize, GatewayStops
<1>3. {"exited", "topology", "device", "unwind", "size", "parse", "content",
       "serve", "split", "finalize", "finalizing", "destructor", "abort",
       "mpi_finalize", "destroy", "free"} \subseteq Elsewhere
    BY DEF Elsewhere, Labels
<1>4. {"config", "device", "file", "topology", "mpi", "gpu", "loop"} \subseteq Causes
    BY DEF Causes
<1>. HIDE DEF Elsewhere
<1>5. (\E label : Step(label)) /\ Fails
    <2>1. CASE ParseConfig(r) \/ SelectDevice(r)
        BY <1>3, <1>4, <2>1 DEF ParseConfig, SelectDevice, Throw
    <2>2. CASE ReadJson(r) \/ ReceiveSize(r) \/ ReceiveContent(r)
        BY <1>3, <1>4, <2>2 DEF ReadJson, ReceiveSize, ReceiveContent, Throw
    <2>3. CASE CallSplit(r) \/ LeaveLoop(r) \/ (r = 0 /\ GatewayStops)
        BY <1>3, <2>3 DEF CallSplit, LeaveLoop, GatewayStops
    <2>4. CASE MpiFinalize(r) \/ MpiFinalizeReturns(r)
        BY <1>3, <2>4 DEF MpiFinalize, MpiFinalizeReturns
    <2>5. CASE \/ MpiCallFails(r) \/ LoopThrows(r)
               \/ GetUniqueIdFails(r) \/ InitGpuCommFails(r)
        BY <1>3, <1>4, <2>5 DEF MpiCallFails, GetUniqueIdFails,
           InitGpuCommFails, LoopThrows, Throw
    <2>6. CASE Finalize(r) \/ FreeReturns(r) \/ DestroyReturns(r)
        BY <1>3, <2>6 DEF Finalize, FreeReturns, DestroyReturns, Continue
    <2>. QED
        BY <2>1, <2>2, <2>3, <2>4, <2>5, <2>6
<1>6. PICK label \in Elsewhere : Goto(r, label)
    BY <1>5
<1>7. aborted' \in BOOLEAN
    BY <1>1 DEF Typed, TypeOK
<1>. HIDE DEF Step
<1>. QED
    BY <1>1, <1>2, <1>5, <1>6, <1>7, ControlStepTyped

\* A rank that has parsed the topology is before its first group.
LEMMA ParseKeepsTypes ==
    ASSUME Inv, Typed, NEW r \in Ranks, UNCHANGED aborted,
           InitStatic(r) \/ ParseTopology(r), Inv'
    PROVE  Typed'
<1>1. UNCHANGED <<next, comm, unique_id, handles, stopped, aborted>>
    BY DEF InitStatic, ParseTopology
<1>2. PICK label \in {"group", "unwind"} : pc' = [pc EXCEPT ![r] = label]
    BY DEF InitStatic, ParseTopology, Throw, Goto
<1>3. pc' \in [Ranks -> Labels]
    BY <1>2 DEF Typed, TypeOK, Labels
<1>4. \A s \in Ranks : pc'[s] \in {"get_id", "broadcast"} => pc'[s] = pc[s]
    BY <1>2 DEF Typed, TypeOK
<1>5. failure' \in [Ranks -> {"none"} \cup Causes]
    BY DEF Typed, TypeOK, InitStatic, ParseTopology, Throw, Causes
<1>6. ASSUME NEW s \in Ranks
      PROVE  next'[s] \in 1 .. Len(groups'[s]) + 1
    <2>1. CASE groups'[s] = groups[s]
        BY <1>1, <2>1 DEF Typed, TypeOK
    <2>2. CASE s = r
        <3>1. Position(pc[r], document[r], groups[r], next[r], world[r], failure[r])
            BY DEF Inv, RankInv
        <3>2. next[r] = 1
            BY <3>1 DEF InitStatic, ParseTopology, Position
        <3>3. Grouped(r, groups[r], comm[r])'
            BY DEF Inv, RankInv
        <3>4. groups'[r] = <<>> \/ (GoodShared' /\ groups'[r] = Shared')
            BY <3>3 DEF Grouped
        <3>5. Len(groups'[r]) \in Nat
            BY <3>4 DEF GoodShared
        <3>. QED
            BY <1>1, <2>2, <3>2, <3>5
    <2>. QED
        BY <2>1, <2>2 DEF InitStatic, ParseTopology, Inv, Domains
<1>. QED
    BY <1>1, <1>3, <1>4, <1>5, <1>6 DEF Typed, TypeOK

\* A rank goes on to its next group only when it has one left to enter.
LEMMA NextGroupTyped ==
    ASSUME Inv, Typed, NEW r \in Ranks, pc[r] \in {"split", "init"},
           UNCHANGED groups, next' = [next EXCEPT ![r] = @ + 1]
    PROVE  \A s \in Ranks : next'[s] \in 1 .. Len(groups'[s]) + 1
<1>1. Position(pc[r], document[r], groups[r], next[r], world[r], failure[r])
    BY DEF Inv, RankInv
<1>2. /\ GoodShared /\ groups[r] = Shared
      /\ next[r] \in 1 .. Len(groups[r])
    BY <1>1 DEF Position
<1>3. Len(groups[r]) \in Nat
    BY <1>2 DEF GoodShared
<1>4. next[r] + 1 \in 1 .. Len(groups[r]) + 1
    BY <1>2, <1>3
<1>. QED
    BY <1>4 DEF Typed, TypeOK, Inv, Domains

\* SplitReturns
LEMMA SplitReturnsKeepsTypes ==
    ASSUME Inv, Typed, NEW r \in Ranks, UNCHANGED aborted, SplitReturns(r)
    PROVE  Typed'
<1>. DEFINE members == SplitOf(r, Len(world[r]))
<1>1. members \in SUBSET Ranks
    BY DEF SplitOf
<1>. HIDE DEF members
<1>2. UNCHANGED <<groups, unique_id, handles, failure, stopped, aborted>>
    BY DEF SplitReturns
<1>3. CASE members = {}
    <2>1. /\ next' = [next EXCEPT ![r] = @ + 1]
          /\ pc' = [pc EXCEPT ![r] = "group"] /\ comm' = comm /\ pc[r] = "split"
        BY <1>3 DEF SplitReturns, Goto, members
    <2>2. \A s \in Ranks : next'[s] \in 1 .. Len(groups'[s]) + 1
        BY <1>2, <2>1, NextGroupTyped
    <2>3. pc' \in [Ranks -> Labels]
        BY <2>1 DEF Typed, TypeOK, Labels
    <2>4. \A s \in Ranks : pc'[s] \in {"get_id", "broadcast"} => pc'[s] = pc[s]
        BY <2>1 DEF Typed, TypeOK
    <2>. QED
        BY <1>2, <2>1, <2>2, <2>3, <2>4 DEF Typed, TypeOK
<1>4. CASE members # {}
    <2>1. /\ comm' = [comm EXCEPT ![r] = members]
          /\ pc' = [pc EXCEPT ![r] = "get_id"] /\ next' = next
        BY <1>4 DEF SplitReturns, Goto, members
    <2>2. comm' \in [Ranks -> SUBSET Ranks]
        BY <1>1, <2>1 DEF Typed, TypeOK
    <2>3. pc' \in [Ranks -> Labels]
        BY <2>1 DEF Typed, TypeOK, Labels
    <2>4. ASSUME NEW s \in Ranks, pc'[s] \in {"get_id", "broadcast"}
          PROVE  comm'[s] # {}
        BY <1>4, <2>1, <2>4 DEF Typed, TypeOK
    <2>. QED
        BY <1>2, <2>1, <2>2, <2>3, <2>4 DEF Typed, TypeOK
<1>. QED
    BY <1>3, <1>4

\* GetUniqueId and ReceiveUniqueId
LEMMA UniqueIdKeepsTypes ==
    ASSUME Typed, NEW r \in Ranks, UNCHANGED aborted,
           GetUniqueId(r) \/ ReceiveUniqueId(r)
    PROVE  Typed'
<1>1. UNCHANGED <<groups, next, comm, handles, failure, stopped, aborted>>
    BY DEF GetUniqueId, ReceiveUniqueId
<1>2. /\ pc[r] \in {"get_id", "broadcast"}
      /\ pc' = [pc EXCEPT ![r] = IF pc[r] = "get_id" THEN "broadcast" ELSE "init"]
    BY DEF GetUniqueId, ReceiveUniqueId, Goto
<1>3. comm[r] # {} /\ comm[r] \subseteq Ranks
    BY <1>2 DEF Typed, TypeOK
<1>4. Root(comm[r]) \in Ranks
    BY <1>3, RootIsMember
<1>5. unique_id' \in [Ranks -> Ranks]
    <2>1. unique_id[Root(comm[r])] \in Ranks /\ unique_id[r] \in Ranks
        BY <1>4 DEF Typed, TypeOK
    <2>2. \E id \in Ranks : unique_id' = [unique_id EXCEPT ![r] = id]
        <3>1. CASE GetUniqueId(r)
            BY <3>1, GatewayIsRank DEF GetUniqueId
        <3>2. CASE ReceiveUniqueId(r)
            BY <2>1, <3>2 DEF ReceiveUniqueId, Typed, TypeOK
        <3>. QED
            BY <3>1, <3>2
    <2>. QED
        BY <2>2 DEF Typed, TypeOK
<1>6. pc' \in [Ranks -> Labels]
    BY <1>2 DEF Typed, TypeOK, Labels
<1>7. ASSUME NEW s \in Ranks, pc'[s] \in {"get_id", "broadcast"}
      PROVE  comm'[s] # {}
    BY <1>1, <1>2, <1>3, <1>7 DEF Typed, TypeOK
<1>. QED
    BY <1>1, <1>5, <1>6, <1>7 DEF Typed, TypeOK

\* InitGpuComm
LEMMA InitGpuCommKeepsTypes ==
    ASSUME Inv, Typed, NEW r \in Ranks, UNCHANGED aborted, InitGpuComm(r)
    PROVE  Typed'
<1>1. UNCHANGED <<groups, comm, unique_id, stopped, aborted>>
    BY DEF InitGpuComm
<1>2. PICK label \in {"group", "unwind"} : pc' = [pc EXCEPT ![r] = label]
    BY DEF InitGpuComm, Throw, Goto
<1>3. pc' \in [Ranks -> Labels]
    BY <1>2 DEF Typed, TypeOK, Labels
<1>4. \A s \in Ranks : pc'[s] \in {"get_id", "broadcast"} => pc'[s] = pc[s]
    BY <1>2 DEF Typed, TypeOK
<1>5. failure' \in [Ranks -> {"none"} \cup Causes]
    BY DEF Typed, TypeOK, InitGpuComm, Throw, Causes
<1>6. handles' \in [Ranks -> SUBSET {"gpu", "mpi"}]
    BY DEF Typed, TypeOK, InitGpuComm
<1>7. \A s \in Ranks : next'[s] \in 1 .. Len(groups'[s]) + 1
    <2>1. CASE next' = next
        BY <1>1, <2>1 DEF Typed, TypeOK
    <2>2. CASE next' = [next EXCEPT ![r] = @ + 1]
        BY <1>1, <2>2, NextGroupTyped DEF InitGpuComm
    <2>. QED
        BY <2>1, <2>2 DEF InitGpuComm
<1>. QED
    BY <1>1, <1>3, <1>4, <1>5, <1>6, <1>7 DEF Typed, TypeOK

LEMMA NextKeepsTypes ==
    ASSUME Inv, Typed, [Next]_vars
    PROVE  Typed'
<1>1. Inv'
    BY NextKeepsInv
<1>2. ASSUME NEW r \in Ranks, RankStep(r)
      PROVE  Typed'
    <2>1. Proceed(r) /\ UNCHANGED aborted
        BY <1>2 DEF RankStep
    <2>. QED
        BY <1>1, <2>1, ControlKeepsTypes, ParseKeepsTypes,
           SplitReturnsKeepsTypes, UniqueIdKeepsTypes, InitGpuCommKeepsTypes
           DEF Proceed
<1>3. CASE Environment
    <2>1. CASE GatewayStops /\ UNCHANGED aborted
        BY <2>1, GatewayIsRank, ControlKeepsTypes
    <2>2. ASSUME NEW r \in Ranks, UNCHANGED aborted,
                 \/ MpiCallFails(r) \/ LoopThrows(r)
                 \/ GetUniqueIdFails(r) \/ InitGpuCommFails(r)
          PROVE  Typed'
        BY <2>2, ControlKeepsTypes
    <2>3. ASSUME NEW r \in Ranks, FinalizeThrows(r)
          PROVE  Typed'
        BY <2>3 DEF FinalizeThrows, Typed, TypeOK
    <2>. QED
        BY <1>3, <2>1, <2>2, <2>3 DEF Environment
<1>4. CASE Ending
    BY <1>4 DEF Ending, Abort, Typed, TypeOK
<1>5. CASE UNCHANGED vars
    BY <1>5 DEF vars, Typed, TypeOK
<1>. QED
    BY <1>2, <1>3, <1>4, <1>5 DEF Next

\* Every variable keeps to its type, for any number of ranks; the next group
\* is never further than one beyond the last.
THEOREM StartUpTypeCorrect == Spec => []TypeOK
<1>1. Init => Typed
    <2>. SUFFICES ASSUME Init PROVE Typed
        OBVIOUS
    <2>1. \A r \in Ranks : groups[r] = <<>> /\ next[r] = 1
        BY DEF Init
    <2>2. \A r \in Ranks : next[r] \in 1 .. Len(groups[r]) + 1
        BY <2>1
    <2>. QED
        BY <2>2, GatewayIsRank DEF Init, Typed, TypeOK, Labels
<1>2. Inv /\ Typed /\ [Next]_vars => Typed'
    BY NextKeepsTypes
<1>3. Typed => TypeOK
    BY DEF Typed
<1>. QED
    BY <1>1, <1>2, <1>3, ScriptInvariant, PTL DEF Spec
=============================================================================
