---------------------------- MODULE LoraBroadcast ----------------------------
(***************************************************************************)
(* broadcast_lora_adapter: one rank's LoRA weights to all ranks of its     *)
(* group, in the four versions under src/backends, with the streams of     *)
(* gpu_runtime.                                                            *)
(*                                                                         *)
(* Each rank is a host that calls and a stream of the device that executes *)
(* later and in order.  The n-th broadcast a rank joins meets the n-th of  *)
(* the others.  Nothing in the program calls the function yet: the callers *)
(* here keep the contract of include/gpu/lora_broadcast.hpp, all call for  *)
(* the same adapters in the same order, but a call may fail, a vector may  *)
(* not have been resized, and a caller may go on after an exception.       *)
(***************************************************************************)
EXTENDS Integers, SequencesExt

CONSTANTS
    Group,          \* ranks of the communicator
    Root,           \* root_local_rank
    Adapters,       \* how many adapters are broadcast, one after the other
    Failing         \* the calls that may fail

ASSUME LoraAssumption ==
    /\ Root \in Group
    /\ Adapters \in Nat

VARIABLES
    impl,           \* which version all ranks are built with
    waiting,        \* a broadcast completes when all have joined it
    sized,          \* the ranks whose vector has as many elements as Root's
    at,             \* where each host stands
    step,           \* the step of the function it executes
    call,           \* the adapter it is at
    outcome,        \* how each call ended
    wrapper,        \* the rank's GpuStream exists
    stream,         \* what the device has still to do
    buffer,         \* device_weights of each call, None when not allocated
    weights,        \* adapter.weights for each call
    joined,         \* the calls whose broadcast has been enqueued
    sent            \* what Root has broadcast

input  == <<impl, waiting, sized>>
host   == <<at, step, call, outcome, wrapper>>
device == <<stream, buffer, weights, joined, sent>>
vars   == <<input, host, device>>

Calls == 1 .. Adapters
None == -1
Wild == -2          \* what is written to memory that is not allocated
Other == 0          \* not the weights of any adapter; adapter a has a

Init ==
    /\ impl \in {"cuda", "hip", "nccl", "rccl"}
    /\ waiting \in BOOLEAN
    /\ sized \in {ranks \in SUBSET Group : Root \in ranks}
    /\ at = [r \in Group |-> "start"]
    /\ step = [r \in Group |-> 0]
    /\ call = [r \in Group |-> 0]
    /\ outcome = [r \in Group |-> [a \in Calls |-> "none"]]
    /\ wrapper = [r \in Group |-> FALSE]
    /\ stream = [r \in Group |-> <<>>]
    /\ buffer = [r \in Group |-> [a \in Calls |-> None]]
    /\ weights = [r \in Group |-> [a \in Calls |-> IF r = Root THEN a ELSE Other]]
    /\ joined = [r \in Group |-> <<>>]
    /\ sent = <<>>
-----------------------------------------------------------------------------
(* What the four versions do, in order. *)

\* Mutant: the weights are copied back before they are received.
MutCudaBroadcast ==
    <<"malloc", "copy_in", "copy_out", "broadcast", "sync", "free">>

CudaBroadcast ==
    <<"malloc", "copy_in", "broadcast", "copy_out", "sync", "free">>

HipBroadcast ==
    <<"malloc", "copy_in", "broadcast", "copy_out", "sync", "free">>

\* The versions before: each copy is waited for, nothing is caught.
NcclBroadcast ==
    <<"malloc", "copy_in", "sync", "broadcast", "sync", "copy_out", "sync",
      "free">>

RcclBroadcast ==
    <<"malloc", "copy_in", "sync", "broadcast", "sync", "copy_out", "sync",
      "free">>

Program ==
    CASE impl = "cuda" -> CudaBroadcast
      [] impl = "hip"  -> HipBroadcast
      [] impl = "nccl" -> NcclBroadcast
      [] impl = "rccl" -> RcclBroadcast

Current == impl \in {"cuda", "hip"}
-----------------------------------------------------------------------------
(* Helpers. *)

Goto(r, place) == at' = [at EXCEPT ![r] = place]

End(r, how) ==
    /\ Goto(r, "ready")
    /\ outcome' = [outcome EXCEPT ![r][call[r]] = how]

At(r, name) ==
    /\ at[r] = "calling"
    /\ step[r] \in DOMAIN Program
    /\ Program[step[r]] = name

Advance(r) ==
    /\ step' = [step EXCEPT ![r] = @ + 1]
    /\ UNCHANGED <<at, call, outcome, wrapper>>

Enqueue(r, op) ==
    stream' = [stream EXCEPT
                ![r] = Append(@, [op |-> op, call |-> call[r],
                                  n |-> Len(joined[r]) + 1])]

\* The head of the stream is done.
Pop(r) == stream' = [stream EXCEPT ![r] = Tail(@)]

SetBuffer(r, a, value) == buffer' = [buffer EXCEPT ![r][a] = value]

\* The device writes to memory the host has to have allocated.
Write(r, a, value) ==
    SetBuffer(r, a, IF buffer[r][a] = None THEN Wild ELSE value)
-----------------------------------------------------------------------------
(* Host. *)

\* gpu_stream_create: the wrapper does not survive a failure.
CreateStream(r) ==
    /\ at[r] = "start"
    /\ \/ wrapper' = [wrapper EXCEPT ![r] = TRUE] /\ Goto(r, "ready")
       \/ "create" \in Failing /\ Goto(r, "ended") /\ UNCHANGED wrapper
    /\ UNCHANGED <<step, call, outcome, device>>

\* Communicator, stream and root are as they should be; the count is checked.
ValidArguments(r) == r \in sized

\* The current versions throw when there are no weights, the others return.
Enter(r) ==
    /\ at[r] = "ready" /\ call[r] < Adapters
    /\ call' = [call EXCEPT ![r] = @ + 1]
    /\ IF ValidArguments(r)
       THEN /\ step' = [step EXCEPT ![r] = 1]
            /\ Goto(r, "calling") /\ UNCHANGED outcome
       ELSE /\ outcome' = [outcome EXCEPT
                    ![r][call[r] + 1] = IF Current THEN "thrown" ELSE "returned"]
            /\ UNCHANGED <<at, step>>
    /\ UNCHANGED <<wrapper, device>>

Malloc(r) ==
    /\ At(r, "malloc")
    /\ SetBuffer(r, call[r], Other)
    /\ Advance(r)
    /\ UNCHANGED <<stream, weights, joined, sent>>

Copy(r) ==
    /\ \E op \in {"copy_in", "copy_out"} : At(r, op) /\ Enqueue(r, op)
    /\ Advance(r)
    /\ UNCHANGED <<buffer, weights, joined, sent>>

\* Mutant: the root only sends.
MutBroadcast(r) ==
    /\ At(r, "broadcast")
    /\ IF r = Root
       THEN /\ Enqueue(r, "broadcast")
            /\ joined' = [joined EXCEPT ![r] = Append(@, call[r])]
       ELSE UNCHANGED <<stream, joined>>
    /\ Advance(r)
    /\ UNCHANGED <<buffer, weights, sent>>

Broadcast(r) ==
    /\ At(r, "broadcast")
    /\ Enqueue(r, "broadcast")
    /\ joined' = [joined EXCEPT ![r] = Append(@, call[r])]
    /\ Advance(r)
    /\ UNCHANGED <<buffer, weights, sent>>

Synchronize(r) ==
    /\ At(r, "sync")
    /\ stream[r] = <<>>
    /\ Advance(r)
    /\ UNCHANGED device

\* Freeing memory waits for the device.
Free(r) ==
    /\ At(r, "free")
    /\ stream[r] = <<>>
    /\ SetBuffer(r, call[r], None)
    /\ Advance(r)
    /\ UNCHANGED <<stream, weights, joined, sent>>

Return(r) ==
    /\ at[r] = "calling" /\ step[r] > Len(Program)
    /\ End(r, "returned")
    /\ UNCHANGED <<step, call, wrapper, device>>

\* A call of the runtime or of the collectives fails.  The versions before
\* leave at once, except that they do not look at what cudaFree returns.
CallFails(r) ==
    /\ \E name \in Failing : At(r, name)
    /\ IF Current
       THEN Goto(r, "cleanup") /\ UNCHANGED outcome
       ELSE End(r, IF At(r, "free") THEN "returned" ELSE "thrown")
    /\ UNCHANGED <<step, call, wrapper, device>>

\* Mutant: the exception is passed on at once.
MutCleanup(r) ==
    /\ at[r] = "cleanup"
    /\ End(r, "thrown")
    /\ UNCHANGED <<step, call, wrapper, device>>

\* Mutant: the memory is freed without waiting, as cudaFreeAsync would on
\* another stream.
MutEagerCleanup(r) ==
    /\ at[r] = "cleanup"
    /\ SetBuffer(r, call[r], None)
    /\ End(r, "thrown")
    /\ UNCHANGED <<step, call, wrapper, stream, weights, joined, sent>>

\* catch (...): what has been allocated is freed, and that waits.
Cleanup(r) ==
    /\ at[r] = "cleanup"
    /\ buffer[r][call[r]] # None => stream[r] = <<>>
    /\ SetBuffer(r, call[r], None)
    /\ End(r, "thrown")
    /\ UNCHANGED <<step, call, wrapper, stream, weights, joined, sent>>

\* The cudaFree of the catch fails too, and nobody looks: the memory stays,
\* and nothing was waited for.
CleanupFails(r) ==
    /\ "free" \in Failing
    /\ at[r] = "cleanup" /\ buffer[r][call[r]] # None
    /\ End(r, "leaked")
    /\ UNCHANGED <<step, call, wrapper, device>>

\* How a call ends that throws: the second has lost its memory.
Thrown == {"thrown", "leaked"}

\* gpu_stream_destroy, by a caller who has done all or was stopped by an
\* exception.  The wrapper goes even if the native stream cannot be destroyed.
DestroyStream(r) ==
    /\ at[r] = "ready"
    /\ call[r] = Adapters \/ (call[r] > 0 /\ outcome[r][call[r]] \in Thrown)
    /\ wrapper' = [wrapper EXCEPT ![r] = FALSE]
    /\ Goto(r, "ended")
    /\ UNCHANGED <<step, call, outcome, device>>
-----------------------------------------------------------------------------
(* Device. *)

AtHead(r, op) == stream[r] # <<>> /\ Head(stream[r]).op = op

MovesIn(r) ==
    /\ AtHead(r, "copy_in")
    /\ LET a == Head(stream[r]).call IN Write(r, a, weights[r][a])
    /\ Pop(r)
    /\ UNCHANGED <<weights, joined, sent>>

MovesOut(r) ==
    /\ AtHead(r, "copy_out")
    /\ LET a == Head(stream[r]).call
       IN  weights' = [weights EXCEPT ![r][a] = buffer[r][a]]
    /\ Pop(r)
    /\ UNCHANGED <<buffer, joined, sent>>

\* Data comes from Root; whether a rank waits for the others too is up to
\* the library.
Broadcasts(r) ==
    /\ AtHead(r, "broadcast")
    /\ LET op == Head(stream[r])
       IN  /\ waiting => \A s \in Group : Len(joined[s]) >= op.n
           /\ IF r = Root
              THEN /\ sent' = Append(sent, buffer[r][op.call])
                   /\ UNCHANGED buffer
              ELSE /\ op.n <= Len(sent)
                   /\ Write(r, op.call, sent[op.n])
                   /\ UNCHANGED sent
    /\ Pop(r)
    /\ UNCHANGED <<weights, joined>>
-----------------------------------------------------------------------------
HostStep(r) ==
    /\ \/ CreateStream(r) \/ Enter(r)
       \/ Malloc(r) \/ Copy(r) \/ Broadcast(r) \/ Synchronize(r) \/ Free(r)
       \/ Return(r) \/ Cleanup(r) \/ DestroyStream(r)
    /\ UNCHANGED input

Failure(r) == (CallFails(r) \/ CleanupFails(r)) /\ UNCHANGED input

DeviceStep(r) ==
    (MovesIn(r) \/ MovesOut(r) \/ Broadcasts(r)) /\ UNCHANGED <<input, host>>

Next == \E r \in Group : HostStep(r) \/ Failure(r) \/ DeviceStep(r)

\* Hosts and devices go on; nothing has to fail.
Spec ==
    /\ Init /\ [][Next]_vars
    /\ \A r \in Group : WF_vars(HostStep(r)) /\ WF_vars(DeviceStep(r))
-----------------------------------------------------------------------------
(* Properties. *)

Values == 0 .. Adapters

Operations ==
    [op : {"copy_in", "broadcast", "copy_out"}, call : Calls, n : Nat \ {0}]

Outcomes == {"none", "returned", "thrown", "leaked"}

\* The variables' types.  No device reads memory that is not allocated, nor
\* writes to it: what it reads or sends is never None, what it leaves behind
\* never Wild.
LoraTypeOK ==
    /\ at \in [Group -> {"start", "ready", "calling", "cleanup", "ended"}]
    /\ call \in [Group -> 0 .. Adapters]
    /\ outcome \in [Group -> [Calls -> Outcomes]]
    /\ wrapper \in [Group -> BOOLEAN]
    /\ stream \in [Group -> Seq(Operations)]
    /\ buffer \in [Group -> [Calls -> {None} \cup Values]]
    /\ weights \in [Group -> [Calls -> Values]]
    /\ joined \in [Group -> Seq(Calls)]
    /\ sent \in Seq(Values)

\* Rank r is through with a call and did not join its broadcast: the call
\* threw, or there was nothing to send.
Left(r, a) ==
    /\ a \notin ToSet(joined[r])
    /\ \/ outcome[r][a] \in Thrown
       \/ outcome[r][a] = "returned" /\ r \notin sized

Skipped(r, a) == \E b \in 1 .. a : Left(r, b)

\* Who returns has the root's weights of that adapter, unless it or the root
\* left a call up to that one without joining: the contract of
\* include/gpu/lora_broadcast.hpp.  Where it fails, the broadcasts of
\* different adapters have met.
SuccessHasRootsWeights ==
    \A r \in Group : \A a \in Calls :
        outcome[r][a] = "returned" /\ (Current \/ r \in sized) =>
            \/ weights[r][a] = a
            \/ Skipped(r, a) \/ Skipped(Root, a)

\* When a call of the current versions has ended, returned or thrown, its
\* device memory is free and nothing is left on the stream that would write
\* to the adapter of a caller who has gone on.  The one exception is a call
\* whose memory could not be freed even by the catch: it loses that memory and
\* leaves its own operations on the stream, but none of any other call.  Who
\* has ended holds no stream.
\* (broadcast_lora_adapter's catch, gpu_stream_destroy)
NothingOutlivesACall ==
    \A r \in Group :
        /\ Current /\ at[r] \notin {"calling", "cleanup"} =>
            /\ \A op \in ToSet(stream[r]) : outcome[r][op.call] = "leaked"
            /\ \A a \in Calls :
                buffer[r][a] # None => outcome[r][a] = "leaked"
        /\ at[r] = "ended" => ~wrapper[r]

\* r will not join all broadcasts any more.
Deserted(r) ==
    \E a \in Calls : Left(r, a) \/ (at[r] = "ended" /\ outcome[r][a] = "none")

\* Every call ends, also when calls fail, unless a rank stays away from a
\* broadcast: then its peers may wait for ever, which a caller that gives all
\* ranks a vector of one size and stops all ranks when one throws avoids.
\* (broadcast_lora_adapter)
CallsEnd ==
    \A r \in Group :
        at[r] \in {"calling", "cleanup"} ~>
            at[r] \notin {"calling", "cleanup"} \/ \E s \in Group : Deserted(s)
-----------------------------------------------------------------------------
(* What the documentation says and this code does not do. *)

\* After success, every rank owns an identical weights vector: when a call
\* for an adapter has returned on all ranks, and every vector had the right
\* size, the vectors agree.  (include/gpu/lora_broadcast.hpp)
SuccessIsShared ==
    Current /\ sized = Group =>
        \A a \in Calls :
            (\A r \in Group : outcome[r][a] = "returned") =>
                \A r, s \in Group : weights[r][a] = weights[s][a]
=============================================================================
