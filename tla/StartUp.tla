------------------------------- MODULE StartUp -------------------------------
(***************************************************************************)
(* All ranks from main's first line to the end of their processes,         *)
(* src/core/main.cpp with src/core/model_topology.cpp: configuration,      *)
(* device, topology, one communicator for MPI and one for the GPUs in each *)
(* group, serving, and the way back.  What a rank does while it serves is  *)
(* RequestPipeline.                                                        *)
(*                                                                         *)
(* A collective call is posted and returns when the ranks it waits for     *)
(* have posted theirs.  The n-th call of a rank on a communicator meets    *)
(* the n-th calls of the others, whatever they are: MPI and NCCL match     *)
(* calls by order alone.                                                   *)
(***************************************************************************)
EXTENDS ModelTopology, FiniteSets

CONSTANTS
    Documents,      \* what a topology file may hold
    OtherDocuments, \* what the file of that name holds on other hosts
    Unreadable,     \* there is no such file
    DeviceCounts,   \* how many GPUs there may be
    Failures        \* what may fail: a subset of Causes

Causes == {"config", "device", "file", "topology", "mpi", "gpu", "loop"}

ASSUME StartUpAssumption ==
    /\ DeviceCounts \subseteq Nat
    /\ Failures \subseteq Causes
    /\ \A d \in Documents : IsDocument(d)

VARIABLES
    config,         \* of the command line: "topology", "static", "help", "bad"
    file,           \* what the path means on each rank's host
    devices,        \* number of GPUs
    synchronizing,  \* calls that may be local wait for all members
    pc,             \* where each rank stands
    document,       \* the topology it has received
    groups,         \* the groups it has parsed
    next,           \* the group it creates next
    world,          \* its calls on MPI_COMM_WORLD
    comm,           \* the members of its group's communicator, {}: none
    unique_id,      \* who generated the id of its GPU communicator
    local,          \* its calls on its group's communicators
    handles,        \* what its groups_ holds: subset of {"gpu", "mpi"}
    failure,        \* why it throws
    stopped,        \* the gateway has told the workers to leave
    aborted         \* MPI_Abort, or a process that dies, ends all

setup == <<config, file, devices, synchronizing>>
vars  == <<setup, pc, document, groups, next, world, comm, unique_id, local,
           handles, failure, stopped, aborted>>

Init ==
    /\ config \in {"topology", "static", "help", "bad"}
    /\ file \in {[r \in Ranks |-> IF r = 0 THEN here ELSE there] :
                    here \in Documents \cup {Unreadable}, there \in OtherDocuments}
    /\ config # "topology" => \A r \in Ranks : file[r] = file[0]
    /\ devices \in DeviceCounts
    /\ synchronizing \in BOOLEAN
    /\ pc = [r \in Ranks |-> "config"]
    /\ document = [r \in Ranks |-> <<>>]
    /\ groups = [r \in Ranks |-> <<>>]
    /\ next = [r \in Ranks |-> 1]
    /\ world = [r \in Ranks |-> <<>>]
    /\ comm = [r \in Ranks |-> {}]
    /\ unique_id = [r \in Ranks |-> 0]
    /\ local = [r \in Ranks |-> <<>>]
    /\ handles = [r \in Ranks |-> {}]
    /\ failure = [r \in Ranks |-> "none"]
    /\ stopped = FALSE
    /\ aborted = FALSE
-----------------------------------------------------------------------------
(* Helpers: control, exceptions, collective calls. *)

Goto(r, label) == pc' = [pc EXCEPT ![r] = label]

Throw(r, cause) == Goto(r, "unwind") /\ failure' = [failure EXCEPT ![r] = cause]

PostWorld(r, op, group, member) ==
    world' = [world EXCEPT
                ![r] = Append(@, [op |-> op, group |-> group, member |-> member])]

PostLocal(r, op) == local' = [local EXCEPT ![r] = Append(@, op)]

\* The root of a broadcast does not wait, unless the library synchronizes.
MetIn(calls, members, r) == \A s \in members : Len(calls[s]) >= Len(calls[r])

BroadcastReturns(r) == MetIn(world, IF synchronizing THEN Ranks ELSE {0}, r)

\* The rank with local rank 0: MPI_Comm_split orders by world rank.
Root(members) == CHOOSE r \in members : \A s \in members : r <= s
-----------------------------------------------------------------------------
(* Configuration and device. *)

\* parse_app_config: exits for --help, throws, or returns.
ParseConfig(r) ==
    /\ pc[r] = "config"
    /\ CASE config = "help" -> Goto(r, "exited") /\ UNCHANGED failure
         [] config = "bad"  -> Throw(r, "config")
         [] OTHER -> /\ Goto(r, IF r = 0 THEN "topology" ELSE "device")
                     /\ UNCHANGED failure
    /\ UNCHANGED <<document, groups, next, world, comm, unique_id, local,
                   handles, stopped>>

\* select_device_for_rank: ranks take the devices in turn.
DeviceOf(r) == r % devices

\* gpu_set_device and gpu_get_device_info: an index of an existing device.
ValidDevice(device) == device >= 0 /\ device < devices

SelectDevice(r) ==
    /\ pc[r] = "device"
    /\ \/ /\ devices > 0 /\ ValidDevice(DeviceOf(r))
          /\ Goto(r, "topology") /\ UNCHANGED failure
       \/ (devices = 0 \/ "device" \in Failures) /\ Throw(r, "device")
    /\ UNCHANGED <<document, groups, next, world, comm, unique_id, local,
                   handles, stopped>>
-----------------------------------------------------------------------------
(* load_from_json and init_static, up to the groups. *)

InitStatic(r) ==
    /\ pc[r] = "topology" /\ config = "static"
    /\ IF ValidStaticTopology
       THEN /\ groups' = [groups EXCEPT ![r] = <<DefaultGroup>>]
            /\ Goto(r, "group") /\ UNCHANGED failure
       ELSE Throw(r, "topology") /\ UNCHANGED groups
    /\ UNCHANGED <<document, next, world, comm, unique_id, local, handles,
                   stopped>>

\* The gateway reads the file before the first broadcast.
ReadJson(r) ==
    /\ pc[r] = "topology" /\ config = "topology"
    /\ IF r = 0 /\ file[0] = Unreadable
       THEN Throw(r, "file") /\ UNCHANGED <<document, world>>
       ELSE /\ document' =
                [document EXCEPT ![r] = IF r = 0 THEN file[0] ELSE <<>>]
            /\ PostWorld(r, "size", "", FALSE)
            /\ Goto(r, "size") /\ UNCHANGED failure
    /\ UNCHANGED <<groups, next, comm, unique_id, local, handles, stopped>>

\* Every rank refuses a document that is too large for a broadcast; there is
\* no broadcast of an empty one.
ReceiveSize(r) ==
    /\ pc[r] = "size"
    /\ BroadcastReturns(r)
    /\ CASE document[0] = TooLarge ->
              Throw(r, "topology") /\ UNCHANGED <<document, world>>
         [] document[0] = Empty ->
              /\ document' = [document EXCEPT ![r] = Empty]
              /\ Goto(r, "parse") /\ UNCHANGED <<world, failure>>
         [] OTHER ->
              /\ PostWorld(r, "content", "", FALSE)
              /\ Goto(r, "content") /\ UNCHANGED <<document, failure>>
    /\ UNCHANGED <<groups, next, comm, unique_id, local, handles, stopped>>

\* Mutant: each rank reads the file of its own host.
MutContentOf(r) == file[r]

ContentOf(r) == document[0]

ReceiveContent(r) ==
    /\ pc[r] = "content"
    /\ BroadcastReturns(r)
    /\ document' = [document EXCEPT ![r] = ContentOf(r)]
    /\ Goto(r, "parse")
    /\ UNCHANGED <<groups, next, world, comm, unique_id, local, handles,
                   failure, stopped>>

ParseTopology(r) ==
    /\ pc[r] = "parse"
    /\ IF ValidTopology(document[r])
       THEN /\ groups' = [groups EXCEPT ![r] = GroupsOf(document[r])]
            /\ Goto(r, "group") /\ UNCHANGED failure
       ELSE Throw(r, "topology") /\ UNCHANGED groups
    /\ UNCHANGED <<document, next, world, comm, unique_id, local, handles,
                   stopped>>
-----------------------------------------------------------------------------
(* create_group_comms, for one group after the other. *)

Current(r) == groups[r][next[r]]

\* Mutant: who is not a member gets the color 0 and not MPI_UNDEFINED.
MutSplitOf(r, n) == {s \in Ranks : world[s][n].member = world[r][n].member}

\* The communicator of the ranks of one color; MPI_COMM_NULL without color.
SplitOf(r, n) ==
    IF world[r][n].member THEN {s \in Ranks : world[s][n].member} ELSE {}

CallSplit(r) ==
    /\ pc[r] = "group"
    /\ IF next[r] > Len(groups[r])
       THEN Goto(r, "serve") /\ UNCHANGED world
       ELSE /\ PostWorld(r, "split", Current(r).model_id,
                         r \in Members(Current(r)))
            /\ Goto(r, "split")
    /\ UNCHANGED <<document, groups, next, comm, unique_id, local, handles,
                   failure, stopped>>

\* Mutant: a member counts its group twice.
MutSplitReturns(r) ==
    /\ pc[r] = "split"
    /\ MetIn(world, Ranks, r)
    /\ comm' = [comm EXCEPT ![r] = SplitOf(r, Len(world[r]))]
    /\ next' = [next EXCEPT ![r] = @ + 1]
    /\ Goto(r, IF comm'[r] = {} THEN "group" ELSE "get_id")
    /\ UNCHANGED <<document, groups, world, unique_id, local, handles, failure,
                   stopped>>

SplitReturns(r) ==
    /\ pc[r] = "split"
    /\ MetIn(world, Ranks, r)
    /\ LET members == SplitOf(r, Len(world[r]))
       IN  IF members = {}
           THEN /\ next' = [next EXCEPT ![r] = @ + 1]
                /\ Goto(r, "group") /\ UNCHANGED comm
           ELSE /\ comm' = [comm EXCEPT ![r] = members]
                /\ Goto(r, "get_id") /\ UNCHANGED next
    /\ UNCHANGED <<document, groups, world, unique_id, local, handles, failure,
                   stopped>>

\* Mutant: every member generates an id.
MutGenerates(r) == r \in comm[r]

Generates(r) == r = Root(comm[r])

\* The root generates the id, then all members call the broadcast.
GetUniqueId(r) ==
    /\ pc[r] = "get_id"
    /\ unique_id' = [unique_id EXCEPT ![r] = IF Generates(r) THEN r ELSE 0]
    /\ PostLocal(r, "broadcast")
    /\ Goto(r, "broadcast")
    /\ UNCHANGED <<document, groups, next, world, comm, handles, failure,
                   stopped>>

ReceiveUniqueId(r) ==
    /\ pc[r] = "broadcast"
    /\ MetIn(local, IF synchronizing THEN comm[r] ELSE {Root(comm[r])}, r)
    /\ unique_id' =
        [unique_id EXCEPT
            ![r] = IF Generates(r) THEN @ ELSE unique_id[Root(comm[r])]]
    /\ PostLocal(r, "init")
    /\ Goto(r, "init")
    /\ UNCHANGED <<document, groups, next, world, comm, handles, failure,
                   stopped>>

\* ncclCommInitRank: all members with one id, on devices of their own.
Meets(r) ==
    /\ MetIn(local, comm[r], r)
    /\ \A s \in comm[r] : unique_id[s] = unique_id[r]

OwnDevices(members) ==
    \A r, s \in members : r # s => DeviceOf(r) # DeviceOf(s)

\* init_gpu_comm, and then the group enters groups_.  When it throws, the
\* group is not there yet: nothing of it is freed.
InitGpuComm(r) ==
    /\ pc[r] = "init"
    /\ Meets(r)
    /\ IF OwnDevices(comm[r])
       THEN /\ handles' = [handles EXCEPT ![r] = {"gpu", "mpi"}]
            /\ next' = [next EXCEPT ![r] = @ + 1]
            /\ Goto(r, "group") /\ UNCHANGED failure
       ELSE Throw(r, "gpu") /\ UNCHANGED <<handles, next>>
    /\ UNCHANGED <<document, groups, world, comm, unique_id, local, stopped>>

\* Mutant: the group enters groups_ before its communicators are complete.
MutInitGpuCommFails(r) ==
    /\ "gpu" \in Failures
    /\ pc[r] = "init"
    /\ handles' = [handles EXCEPT ![r] = {"mpi"}]
    /\ Throw(r, "gpu")
    /\ UNCHANGED <<document, groups, next, world, comm, unique_id, local,
                   stopped>>

\* It fails on this rank, for whatever reason.
InitGpuCommFails(r) ==
    /\ "gpu" \in Failures
    /\ pc[r] = "init"
    /\ Throw(r, "gpu")
    /\ UNCHANGED <<document, groups, next, world, comm, unique_id, local,
                   handles, stopped>>

\* The root gets no id.  It throws before it calls the broadcast, and its
\* group is not in groups_ yet.
GetUniqueIdFails(r) ==
    /\ "gpu" \in Failures
    /\ pc[r] = "get_id" /\ Generates(r)
    /\ Throw(r, "gpu")
    /\ UNCHANGED <<document, groups, next, world, comm, unique_id, local,
                   handles, stopped>>

\* An MPI call returns an error: a collective of the start-up, a question
\* about the new communicator, or MPI_Finalize.
MpiCallFails(r) ==
    /\ "mpi" \in Failures
    /\ pc[r] \in {"size", "content", "split", "get_id", "broadcast",
                  "finalizing"}
    /\ Throw(r, "mpi")
    /\ UNCHANGED <<document, groups, next, world, comm, unique_id, local,
                   handles, stopped>>
-----------------------------------------------------------------------------
(* Serving, and ModelTopology::finalize in its three places. *)

GatewayStops ==
    /\ pc[0] = "serve"
    /\ stopped' = TRUE
    /\ Goto(0, "finalize")
    /\ UNCHANGED <<document, groups, next, world, comm, unique_id, local,
                   handles, failure>>

LeaveLoop(r) ==
    /\ r # 0 /\ pc[r] = "serve" /\ stopped
    /\ Goto(r, "finalize")
    /\ UNCHANGED <<document, groups, next, world, comm, unique_id, local,
                   handles, failure, stopped>>

\* worker_loop throws, for a prompt that is too long or a failing MPI call.
LoopThrows(r) ==
    /\ "loop" \in Failures
    /\ r # 0 /\ pc[r] = "serve"
    /\ Throw(r, "loop")
    /\ UNCHANGED <<document, groups, next, world, comm, unique_id, local,
                   handles, stopped>>

HasFinalized(r) == \E n \in DOMAIN world[r] : world[r][n].op = "finalize"

\* After finalize: on with main, up to its handler, or out of it.
Continue(r) ==
    IF failure[r] # "none" THEN "abort"
    ELSE IF HasFinalized(r) THEN "exited" ELSE "mpi_finalize"

\* Called by main, by the destructor while an exception unwinds main, and by
\* the destructor when main returns.
Finalize(r) ==
    /\ pc[r] \in {"finalize", "unwind", "destructor"}
    /\ IF handles[r] = {}
       THEN Goto(r, Continue(r)) /\ UNCHANGED local
       ELSE Goto(r, "destroy") /\ PostLocal(r, "destroy")
    /\ UNCHANGED <<document, groups, next, world, comm, unique_id, handles,
                   failure, stopped>>

\* ncclCommDestroy and MPI_Comm_free may be local or wait for all members.
LocalReturns(r) == synchronizing => MetIn(local, comm[r], r)

DestroyReturns(r) ==
    /\ pc[r] = "destroy"
    /\ LocalReturns(r)
    /\ handles' = [handles EXCEPT ![r] = @ \ {"gpu"}]
    /\ PostLocal(r, "free")
    /\ Goto(r, "free")
    /\ UNCHANGED <<document, groups, next, world, comm, unique_id, failure,
                   stopped>>

\* Mutant: the handle is freed but not reset.
MutFreed(r) == handles[r]

Freed(r) == handles[r] \ {"mpi"}

FreeReturns(r) ==
    /\ pc[r] = "free"
    /\ LocalReturns(r)
    /\ handles' = [handles EXCEPT ![r] = Freed(r)]
    /\ Goto(r, Continue(r))
    /\ UNCHANGED <<document, groups, next, world, comm, unique_id, local,
                   failure, stopped>>

MpiFinalize(r) ==
    /\ pc[r] = "mpi_finalize"
    /\ PostWorld(r, "finalize", "", FALSE)
    /\ Goto(r, "finalizing")
    /\ UNCHANGED <<document, groups, next, comm, unique_id, local, handles,
                   failure, stopped>>

MpiFinalizeReturns(r) ==
    /\ pc[r] = "finalizing"
    /\ MetIn(world, Ranks, r)
    /\ Goto(r, "destructor")
    /\ UNCHANGED <<document, groups, next, world, comm, unique_id, local,
                   handles, failure, stopped>>

\* ncclCommDestroy or MPI_Comm_free fails.  finalize is noexcept: the
\* process dies, and that takes the others with it.
FinalizeThrows(r) ==
    /\ "mpi" \in Failures
    /\ pc[r] \in {"destroy", "free"}
    /\ aborted' = TRUE
    /\ UNCHANGED <<pc, document, groups, next, world, comm, unique_id, local,
                   handles, failure, stopped>>

\* main's handler.
Abort ==
    /\ \E r \in Ranks : pc[r] = "abort"
    /\ aborted' = TRUE
    /\ UNCHANGED <<pc, document, groups, next, world, comm, unique_id, local,
                   handles, failure, stopped>>
-----------------------------------------------------------------------------
\* What a rank does next; failures included that are certain.
Proceed(r) ==
    \/ ParseConfig(r) \/ SelectDevice(r)
    \/ InitStatic(r) \/ ReadJson(r)
    \/ ReceiveSize(r) \/ ReceiveContent(r) \/ ParseTopology(r)
    \/ CallSplit(r) \/ SplitReturns(r)
    \/ GetUniqueId(r) \/ ReceiveUniqueId(r) \/ InitGpuComm(r)
    \/ LeaveLoop(r)
    \/ Finalize(r) \/ DestroyReturns(r) \/ FreeReturns(r)
    \/ MpiFinalize(r) \/ MpiFinalizeReturns(r)

Alive == ~aborted /\ UNCHANGED setup

RankStep(r) == Alive /\ Proceed(r) /\ UNCHANGED aborted

Environment ==
    /\ Alive
    /\ \/ /\ UNCHANGED aborted
          /\ \/ GatewayStops
             \/ \E r \in Ranks :
                \/ MpiCallFails(r) \/ LoopThrows(r)
                \/ GetUniqueIdFails(r) \/ InitGpuCommFails(r)
       \/ \E r \in Ranks : FinalizeThrows(r)

Ending == Alive /\ Abort

Next == (\E r \in Ranks : RankStep(r)) \/ Environment \/ Ending

\* Processes run; the gateway need not stop and nothing has to fail.  A
\* failing rank that reached main's handler aborts.
Spec ==
    /\ Init /\ [][Next]_vars
    /\ \A r \in Ranks : WF_vars(RankStep(r))
    /\ WF_vars(Ending)
-----------------------------------------------------------------------------
(* Properties. *)

Labels ==
    {"config", "device", "topology", "size", "content", "parse", "group",
     "split", "get_id", "broadcast", "init", "serve", "finalize", "destroy",
     "free", "mpi_finalize", "finalizing", "destructor", "unwind", "abort",
     "exited"}

\* The variables' types.
TypeOK ==
    /\ pc \in [Ranks -> Labels]
    /\ \A r \in Ranks : next[r] \in 1 .. Len(groups[r]) + 1
    /\ comm \in [Ranks -> SUBSET Ranks]
    /\ unique_id \in [Ranks -> Ranks]
    /\ handles \in [Ranks -> SUBSET {"gpu", "mpi"}]
    /\ failure \in [Ranks -> {"none"} \cup Causes]
    /\ stopped \in BOOLEAN /\ aborted \in BOOLEAN

\* Whatever a rank serves, its groups are what the pipeline assumes.
\* (parse_topology_json)
GroupsAreProper == \A r \in Ranks : ProperGroups(groups[r])

\* The n-th call of one rank on MPI_COMM_WORLD is the n-th call of every
\* other, for the same group, although the file may differ from host to
\* host.  (broadcast_json_from_gateway; the loop of load_from_json)
WorldCallsAgree ==
    \A r, s \in Ranks : \A n \in DOMAIN world[r] \cap DOMAIN world[s] :
        /\ world[r][n].op = world[s][n].op
        /\ world[r][n].group = world[s][n].group

\* A communicator holds precisely the ranks of the group, and who is in no
\* group has none.  (ModelGroup::mpi_comm)
CommsArePrecise ==
    \A r \in Ranks : comm[r] # {} =>
        /\ r \in comm[r]
        /\ \E k \in DOMAIN groups[r] : comm[r] = Members(groups[r][k])

\* When MPI is finalized no rank holds a communicator: the finalize that the
\* destructor repeats does nothing.  (finalize, ~ModelTopology)
NothingLeftToFree ==
    \A r \in Ranks :
        pc[r] \in {"mpi_finalize", "finalizing", "destructor"} =>
            handles[r] = {}

\* Freeing waits for a member of the group that has not failed and has not
\* come to free: rank r, unwinding after the group was complete, is held up.
Stranded(r) ==
    /\ synchronizing
    /\ failure[r] \in {"mpi", "loop"}
    /\ pc[r] \in {"destroy", "free"}
    /\ \E s \in comm[r] : failure[s] = "none" /\ Len(local[s]) < Len(local[r])

\* A rank that fails takes all ranks down, wherever they wait.  What alone can
\* prevent it: the failing rank holds a complete communicator, its destructor
\* waits for the others to free theirs, and a healthy one never does.  So
\* whatever fails up to and in the creation of a rank's group ends the system.
\* (main's handler, ~ModelTopology)
FailureAborts ==
    \A r \in Ranks : failure[r] # "none" ~> (aborted \/ []Stranded(r))

\* Unless a rank fails, all ranks come to serve, and when the gateway stops
\* all end.  (main)
StartsAndEnds ==
    /\ config \in {"topology", "static"} ~>
        \/ \A r \in Ranks : pc[r] = "serve" \/ stopped
        \/ \E r \in Ranks : failure[r] # "none"
    /\ stopped ~> \/ \A r \in Ranks : pc[r] = "exited"
                  \/ \E r \in Ranks : failure[r] # "none"
                  \/ aborted
=============================================================================
