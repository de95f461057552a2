------------------------- MODULE LoraBroadcast_proofs -------------------------
(***************************************************************************)
(* Theorems about LoraBroadcast, for any group, root, number of adapters   *)
(* and set of calls that may fail: memory is used only while it is         *)
(* allocated, a call of the current versions leaves nothing behind, and    *)
(* who returns has the root's weights.                                     *)
(***************************************************************************)
EXTENDS LoraBroadcast, TLAPS

\* Where the buffer of the call in progress is allocated.
Allocated ==
    \A r \in Group : at[r] = "calling" =>
        /\ call[r] \in Calls
        /\ step[r] \in 1 .. Len(Program) + 1
        /\ step[r] \in 2 .. Len(Program) => buffer[r][call[r]] # None
        /\ step[r] = Len(Program) + 1 => buffer[r][call[r]] = None

\* The stream reaches only memory that is allocated.
Reachable ==
    \A r \in Group : \A i \in DOMAIN stream[r] :
        buffer[r][stream[r][i].call] # None

\* A current version holds memory for the call in progress only, and for
\* those that have lost theirs.
OnlyThisCall ==
    Current => \A r \in Group : \A a \in Calls :
        buffer[r][a] # None =>
            \/ at[r] \in {"calling", "cleanup"} /\ a = call[r]
            \/ outcome[r][a] = "leaked"

LeaksPast ==
    \A r \in Group : \A a \in Calls : outcome[r][a] = "leaked" => a <= call[r]

StreamsHeld ==
    \A r \in Group : at[r] \in {"start", "ended"} => ~wrapper[r]

InCleanup ==
    \A r \in Group : at[r] = "cleanup" => Current /\ call[r] \in Calls

Inv ==
    /\ LoraTypeOK
    /\ impl \in {"cuda", "hip", "nccl", "rccl"}
    /\ step \in [Group -> Nat]
    /\ Allocated /\ Reachable /\ OnlyThisCall /\ LeaksPast /\ StreamsHeld
    /\ InCleanup
-----------------------------------------------------------------------------
\* Memory is allocated by the first step and freed by the last.
LEMMA ProgramShape ==
    ASSUME impl \in {"cuda", "hip", "nccl", "rccl"}
    PROVE  /\ Len(Program) \in Nat /\ Len(Program) > 1
           /\ DOMAIN Program = 1 .. Len(Program)
           /\ \A i \in DOMAIN Program :
                /\ Program[i] = "malloc" <=> i = 1
                /\ Program[i] = "free" <=> i = Len(Program)
<1>1. CASE impl \in {"cuda", "hip"}
    <2>1. Program = <<"malloc", "copy_in", "broadcast", "copy_out", "sync", "free">>
        BY <1>1 DEF Program, CudaBroadcast, HipBroadcast
    <2>. QED
        BY <2>1
<1>2. CASE impl \in {"nccl", "rccl"}
    <2>1. Program = <<"malloc", "copy_in", "sync", "broadcast", "sync",
                      "copy_out", "sync", "free">>
        BY <1>2 DEF Program, NcclBroadcast, RcclBroadcast
    <2>. QED
        BY <2>1
<1>. QED
    BY <1>1, <1>2

LEMMA InputStays ==
    ASSUME UNCHANGED input
    PROVE  Program' = Program /\ Current' = Current
BY DEF input, Program, Current

\* The initial states satisfy the invariant.
LEMMA InitEstablishesInv == Init => Inv
<1>. SUFFICES ASSUME Init PROVE Inv
    OBVIOUS
<1>. USE LoraAssumption DEF Init
<1>1. LoraTypeOK
    <2>1. <<>> \in Seq(Operations) /\ <<>> \in Seq(Calls) /\ <<>> \in Seq(Values)
        OBVIOUS
    <2>. QED
        BY <2>1 DEF LoraTypeOK, Calls, Values, None, Other, Outcomes
<1>2. /\ Allocated /\ Reachable /\ OnlyThisCall /\ LeaksPast /\ StreamsHeld
      /\ InCleanup
    BY DEF Allocated, Reachable, OnlyThisCall, LeaksPast, StreamsHeld, InCleanup,
       None
<1>. QED
    BY <1>1, <1>2 DEF Inv

\* Where a host is that executes a step.
LEMMA CallingFacts ==
    ASSUME Inv, NEW r \in Group, NEW name, At(r, name)
    PROVE  call[r] \in Calls /\ step[r] \in 1 .. Len(Program)
BY ProgramShape DEF Inv, At, Allocated

\* The operation a device executes, and its memory.
LEMMA HeadFacts ==
    ASSUME Inv, NEW r \in Group, stream[r] # <<>>
    PROVE  /\ Head(stream[r]) \in Operations
           /\ Tail(stream[r]) \in Seq(Operations)
           /\ buffer[r][Head(stream[r]).call] # None
           /\ \A i \in DOMAIN Tail(stream[r]) :
                i + 1 \in DOMAIN stream[r] /\ Tail(stream[r])[i] = stream[r][i + 1]
<1>1. stream[r] \in Seq(Operations)
    BY DEF Inv, LoraTypeOK
<1>. HIDE DEF Operations
<1>2. /\ Head(stream[r]) = stream[r][1] /\ 1 \in DOMAIN stream[r]
      /\ stream[r][1] \in Operations
    BY <1>1
<1>3. buffer[r][stream[r][1].call] # None
    BY <1>2 DEF Inv, Reachable
<1>4. \A i \in DOMAIN Tail(stream[r]) :
        i + 1 \in DOMAIN stream[r] /\ Tail(stream[r])[i] = stream[r][i + 1]
    BY <1>1
<1>5. Tail(stream[r]) \in Seq(Operations)
    BY <1>1
<1>. QED
    BY <1>2, <1>3, <1>4, <1>5

\* CreateStream
LEMMA CreateStreamKeeps ==
    ASSUME Inv, NEW r \in Group, CreateStream(r), UNCHANGED input
    PROVE  Inv'
<1>. USE DEF Inv, CreateStream, Goto, input, host, device
<1>0. Program' = Program /\ Current' = Current
    BY InputStays
<1>1. LoraTypeOK'
    <2>1. at' \in [Group -> {"start", "ready", "calling", "cleanup", "ended"}]
        BY DEF LoraTypeOK
    <2>2. wrapper' \in [Group -> BOOLEAN]
        BY DEF LoraTypeOK
    <2>. QED
        BY <2>1, <2>2 DEF LoraTypeOK
<1>2. Allocated'
    <2>. SUFFICES ASSUME NEW q \in Group, at'[q] = "calling"
                  PROVE  /\ call'[q] \in Calls
                         /\ step'[q] \in 1 .. Len(Program) + 1
                         /\ step'[q] \in 2 .. Len(Program) =>
                                buffer'[q][call'[q]] # None
                         /\ step'[q] = Len(Program) + 1 =>
                                buffer'[q][call'[q]] = None
        BY <1>0 DEF Allocated, Calls
    <2>1. CASE q = r
        BY <2>1, ProgramShape DEF Allocated, LoraTypeOK, Values, None, Other
    <2>2. CASE q # r
        BY <2>2 DEF Allocated, LoraTypeOK
    <2>. QED
        BY <2>1, <2>2
<1>3. Reachable'
    <2>. SUFFICES ASSUME NEW q \in Group, NEW i \in DOMAIN stream'[q]
                  PROVE  buffer'[q][stream'[q][i].call] # None
        BY DEF Reachable
    <2>1. CASE q = r
        BY <2>1 DEF Reachable, LoraTypeOK, None, Other
    <2>2. CASE q # r
        BY <2>2 DEF Reachable, LoraTypeOK
    <2>. QED
        BY <2>1, <2>2
<1>4. OnlyThisCall'
    <2>. SUFFICES ASSUME Current, NEW q \in Group, NEW a \in Calls,
                         buffer'[q][a] # None
                  PROVE  \/ at'[q] \in {"calling", "cleanup"} /\ a = call'[q]
                         \/ outcome'[q][a] = "leaked"
        BY <1>0 DEF OnlyThisCall, Calls
    <2>1. CASE q = r
        <3>1. at[r] = "start" /\ UNCHANGED <<buffer, outcome>>
            OBVIOUS
        <3>. HIDE DEF CreateStream
        <3>. QED
            BY <2>1, <3>1 DEF OnlyThisCall
    <2>2. CASE q # r
        BY <2>2 DEF OnlyThisCall, LoraTypeOK
    <2>. QED
        BY <2>1, <2>2
<1>5. StreamsHeld' /\ InCleanup' /\ LeaksPast'
    BY <1>0 DEF StreamsHeld, InCleanup, LeaksPast, LoraTypeOK, Allocated, Calls
<1>6. step' \in [Group -> Nat]
    OBVIOUS
<1>. QED
    BY <1>1, <1>2, <1>3, <1>4, <1>5, <1>6

\* Enter
LEMMA EnterKeeps ==
    ASSUME Inv, NEW r \in Group, Enter(r), UNCHANGED input
    PROVE  Inv'
<1>. USE DEF Inv, Enter, Goto, input, host, device
<1>0. Program' = Program /\ Current' = Current
    BY InputStays
<1>a. call[r] + 1 \in Calls
    BY LoraAssumption DEF LoraTypeOK, Calls
<1>b. PICK result \in {"none", "returned", "thrown"} :
        \/ outcome' = outcome
        \/ outcome' = [outcome EXCEPT ![r][call[r] + 1] = result]
    OBVIOUS
<1>c. call' = [call EXCEPT ![r] = @ + 1]
    OBVIOUS
<1>1. LoraTypeOK'
    <2>1. at' \in [Group -> {"start", "ready", "calling", "cleanup", "ended"}]
        BY DEF LoraTypeOK
    <2>2. call' \in [Group -> 0 .. Adapters]
        BY LoraAssumption, <1>a DEF LoraTypeOK, Calls
    <2>3. outcome' \in [Group -> [Calls -> Outcomes]]
        <3>1. CASE ValidArguments(r)
            BY <3>1 DEF LoraTypeOK
        <3>2. CASE ~ValidArguments(r)
            <4>1. PICK how \in {"returned", "thrown"} :
                    outcome' = [outcome EXCEPT ![r][call[r] + 1] = how]
                BY <3>2
            <4>. HIDE DEF Enter
            <4>. QED
                BY <1>a, <4>1 DEF LoraTypeOK, Outcomes
        <3>. QED
            BY <3>1, <3>2
    <2>. QED
        BY <2>1, <2>2, <2>3 DEF LoraTypeOK
<1>2. Allocated'
    <2>. SUFFICES ASSUME NEW q \in Group, at'[q] = "calling"
                  PROVE  /\ call'[q] \in Calls
                         /\ step'[q] \in 1 .. Len(Program) + 1
                         /\ step'[q] \in 2 .. Len(Program) =>
                                buffer'[q][call'[q]] # None
                         /\ step'[q] = Len(Program) + 1 =>
                                buffer'[q][call'[q]] = None
        BY <1>0 DEF Allocated, Calls
    <2>1. CASE q = r
        BY <1>a, <2>1, ProgramShape DEF Allocated, LoraTypeOK, Values, None, Other
    <2>2. CASE q # r
        BY <2>2 DEF Allocated, LoraTypeOK
    <2>. QED
        BY <2>1, <2>2
<1>3. Reachable'
    <2>. SUFFICES ASSUME NEW q \in Group, NEW i \in DOMAIN stream'[q]
                  PROVE  buffer'[q][stream'[q][i].call] # None
        BY DEF Reachable
    <2>1. CASE q = r
        BY <1>a, <2>1 DEF Reachable, LoraTypeOK, None, Other
    <2>2. CASE q # r
        BY <2>2 DEF Reachable, LoraTypeOK
    <2>. QED
        BY <2>1, <2>2
<1>4. OnlyThisCall'
    <2>. SUFFICES ASSUME Current, NEW q \in Group, NEW a \in Calls,
                         buffer'[q][a] # None
                  PROVE  \/ at'[q] \in {"calling", "cleanup"} /\ a = call'[q]
                         \/ outcome'[q][a] = "leaked"
        BY <1>0 DEF OnlyThisCall, Calls
    <2>1. CASE q = r
        <3>1. at[r] = "ready" /\ buffer' = buffer
            OBVIOUS
        <3>. HIDE DEF Enter
        <3>2. outcome[r][a] = "leaked"
            BY <2>1, <3>1 DEF OnlyThisCall
        <3>3. a <= call[r] /\ call[r] \in Nat
            BY <2>1, <3>2 DEF LeaksPast, LoraTypeOK
        <3>4. outcome'[r][a] = outcome[r][a]
            <4>1. a # call[r] + 1
                BY <3>3 DEF Calls
            <4>2. outcome \in [Group -> [Calls -> Outcomes]]
                BY DEF LoraTypeOK
            <4>. HIDE DEF Inv
            <4>. QED
                BY <1>a, <1>b, <4>1, <4>2
        <3>. QED
            BY <2>1, <3>2, <3>4
    <2>2. CASE q # r
        BY <2>2 DEF OnlyThisCall, LoraTypeOK
    <2>. QED
        BY <2>1, <2>2
<1>5. StreamsHeld' /\ InCleanup' /\ LeaksPast'
    <2>1. StreamsHeld' /\ InCleanup'
        BY <1>a, <1>0 DEF StreamsHeld, InCleanup, LoraTypeOK, Allocated, Calls
    <2>2. /\ outcome \in [Group -> [Calls -> Outcomes]]
          /\ call \in [Group -> Nat]
          /\ LeaksPast
        BY DEF LoraTypeOK
    <2>. HIDE DEF Inv, Enter
    <2>4. ASSUME NEW q \in Group, NEW a \in Calls, outcome'[q][a] = "leaked"
          PROVE  a <= call'[q]
        <3>1. outcome[q][a] = "leaked"
            BY <1>a, <1>b, <2>2, <2>4
        <3>2. a <= call[q] /\ a \in Nat
            BY <2>2, <3>1 DEF LeaksPast, Calls
        <3>3. call'[q] \in {call[q], call[q] + 1}
            BY <1>c, <2>2
        <3>. QED
            BY <2>2, <3>2, <3>3
    <2>. QED
        BY <2>1, <2>4 DEF LeaksPast, Calls
<1>6. step' \in [Group -> Nat]
    OBVIOUS
<1>. QED
    BY <1>1, <1>2, <1>3, <1>4, <1>5, <1>6

\* Malloc
LEMMA MallocKeeps ==
    ASSUME Inv, NEW r \in Group, Malloc(r), UNCHANGED input
    PROVE  Inv'
<1>. USE DEF Inv, Malloc, Goto, At, SetBuffer, Advance, input, host, device
<1>0. Program' = Program /\ Current' = Current
    BY InputStays
<1>a. call[r] \in Calls /\ step[r] \in 1 .. Len(Program)
    BY CallingFacts
<1>1. LoraTypeOK'
    <2>1. buffer' \in [Group -> [Calls -> {None} \cup Values]]
        BY <1>a, LoraAssumption DEF LoraTypeOK, Values, None, Other
    <2>. QED
        BY <2>1 DEF LoraTypeOK
<1>2. Allocated'
    <2>. SUFFICES ASSUME NEW q \in Group, at'[q] = "calling"
                  PROVE  /\ call'[q] \in Calls
                         /\ step'[q] \in 1 .. Len(Program) + 1
                         /\ step'[q] \in 2 .. Len(Program) =>
                                buffer'[q][call'[q]] # None
                         /\ step'[q] = Len(Program) + 1 =>
                                buffer'[q][call'[q]] = None
        BY <1>0 DEF Allocated, Calls
    <2>1. CASE q = r
        BY <1>a, <2>1, ProgramShape DEF Allocated, LoraTypeOK, Values, None, Other
    <2>2. CASE q # r
        BY <2>2 DEF Allocated, LoraTypeOK
    <2>. QED
        BY <2>1, <2>2
<1>3. Reachable'
    <2>. SUFFICES ASSUME NEW q \in Group, NEW i \in DOMAIN stream'[q]
                  PROVE  buffer'[q][stream'[q][i].call] # None
        BY DEF Reachable
    <2>1. CASE q = r
        BY <1>a, <2>1 DEF Reachable, LoraTypeOK, None, Other
    <2>2. CASE q # r
        BY <2>2 DEF Reachable, LoraTypeOK
    <2>. QED
        BY <2>1, <2>2
<1>4. OnlyThisCall'
    <2>. SUFFICES ASSUME Current, NEW q \in Group, NEW a \in Calls,
                         buffer'[q][a] # None
                  PROVE  \/ at'[q] \in {"calling", "cleanup"} /\ a = call'[q]
                         \/ outcome'[q][a] = "leaked"
        BY <1>0 DEF OnlyThisCall, Calls
    <2>1. CASE q = r
        BY <1>a, <2>1, ProgramShape DEF OnlyThisCall, Allocated, LoraTypeOK, None, Other
    <2>2. CASE q # r
        BY <2>2 DEF OnlyThisCall, LoraTypeOK
    <2>. QED
        BY <2>1, <2>2
<1>5. StreamsHeld' /\ InCleanup' /\ LeaksPast'
    BY <1>a, <1>0 DEF StreamsHeld, InCleanup, LeaksPast, LoraTypeOK, Allocated, Calls
<1>6. step' \in [Group -> Nat]
    OBVIOUS
<1>. QED
    BY <1>1, <1>2, <1>3, <1>4, <1>5, <1>6

\* Copy
LEMMA CopyKeeps ==
    ASSUME Inv, NEW r \in Group, Copy(r), UNCHANGED input
    PROVE  Inv'
<1>. USE DEF Inv, Copy, Goto, At, Enqueue, Advance, input, host, device
<1>0. Program' = Program /\ Current' = Current
    BY InputStays
<1>a. call[r] \in Calls /\ step[r] \in 1 .. Len(Program)
    BY CallingFacts
<1>1. LoraTypeOK'
    <2>e. ASSUME NEW op \in {"copy_in", "broadcast", "copy_out"}
          PROVE  [op |-> op, call |-> call[r], n |-> Len(joined[r]) + 1] \in Operations
        BY <1>a DEF LoraTypeOK, Operations
    <2>1. stream' \in [Group -> Seq(Operations)]
        BY <2>e DEF LoraTypeOK
    <2>. QED
        BY <2>1 DEF LoraTypeOK
<1>2. Allocated'
    <2>. SUFFICES ASSUME NEW q \in Group, at'[q] = "calling"
                  PROVE  /\ call'[q] \in Calls
                         /\ step'[q] \in 1 .. Len(Program) + 1
                         /\ step'[q] \in 2 .. Len(Program) =>
                                buffer'[q][call'[q]] # None
                         /\ step'[q] = Len(Program) + 1 =>
                                buffer'[q][call'[q]] = None
        BY <1>0 DEF Allocated, Calls
    <2>1. CASE q = r
        BY <1>a, <2>1, ProgramShape DEF Allocated, LoraTypeOK, Values, None, Other
    <2>2. CASE q # r
        BY <2>2 DEF Allocated, LoraTypeOK
    <2>. QED
        BY <2>1, <2>2
<1>3. Reachable'
    <2>. SUFFICES ASSUME NEW q \in Group, NEW i \in DOMAIN stream'[q]
                  PROVE  buffer'[q][stream'[q][i].call] # None
        BY DEF Reachable
    <2>1. CASE q = r
        <3>1. stream[r] \in Seq(Operations)
            BY DEF LoraTypeOK
        <3>2. PICK op : op.call = call[r] /\ stream'[r] = Append(stream[r], op)
            <4>1. PICK name \in {"copy_in", "copy_out"} : Enqueue(r, name)
                BY DEF Copy
            <4>2. stream'[r] =
                    Append(stream[r], [op |-> name, call |-> call[r],
                                       n |-> Len(joined[r]) + 1])
                BY <4>1 DEF LoraTypeOK
            <4>. QED
                BY <4>2
        <3>3. buffer' = buffer /\ buffer[r][call[r]] # None
            BY <1>a, ProgramShape DEF Allocated
        <3>. HIDE DEF Copy, Operations
        <3>4. CASE i \in DOMAIN stream[r]
            <4>1. stream'[r][i] = stream[r][i]
                BY <3>1, <3>2, <3>4
            <4>. QED
                BY <2>1, <3>3, <3>4, <4>1 DEF Reachable
        <3>5. CASE i \notin DOMAIN stream[r]
            <4>1. stream'[r][i] = op
                BY <2>1, <3>1, <3>2, <3>5
            <4>. QED
                BY <2>1, <3>2, <3>3, <4>1
        <3>. QED
            BY <3>4, <3>5
    <2>2. CASE q # r
        BY <2>2 DEF Reachable, LoraTypeOK
    <2>. QED
        BY <2>1, <2>2
<1>4. OnlyThisCall'
    <2>. SUFFICES ASSUME Current, NEW q \in Group, NEW a \in Calls,
                         buffer'[q][a] # None
                  PROVE  \/ at'[q] \in {"calling", "cleanup"} /\ a = call'[q]
                         \/ outcome'[q][a] = "leaked"
        BY <1>0 DEF OnlyThisCall, Calls
    <2>1. CASE q = r
        BY <1>a, <2>1, ProgramShape DEF OnlyThisCall, Allocated, LoraTypeOK, None, Other
    <2>2. CASE q # r
        BY <2>2 DEF OnlyThisCall, LoraTypeOK
    <2>. QED
        BY <2>1, <2>2
<1>5. StreamsHeld' /\ InCleanup' /\ LeaksPast'
    BY <1>a, <1>0 DEF StreamsHeld, InCleanup, LeaksPast, LoraTypeOK, Allocated, Calls
<1>6. step' \in [Group -> Nat]
    OBVIOUS
<1>. QED
    BY <1>1, <1>2, <1>3, <1>4, <1>5, <1>6

\* Broadcast
LEMMA BroadcastKeeps ==
    ASSUME Inv, NEW r \in Group, Broadcast(r), UNCHANGED input
    PROVE  Inv'
<1>. USE DEF Inv, Broadcast, Goto, At, Enqueue, Advance, input, host, device
<1>0. Program' = Program /\ Current' = Current
    BY InputStays
<1>a. call[r] \in Calls /\ step[r] \in 1 .. Len(Program)
    BY CallingFacts
<1>1. LoraTypeOK'
    <2>e. ASSUME NEW op \in {"copy_in", "broadcast", "copy_out"}
          PROVE  [op |-> op, call |-> call[r], n |-> Len(joined[r]) + 1] \in Operations
        BY <1>a DEF LoraTypeOK, Operations
    <2>1. stream' \in [Group -> Seq(Operations)]
        BY <2>e DEF LoraTypeOK
    <2>2. joined' \in [Group -> Seq(Calls)]
        BY <1>a DEF LoraTypeOK
    <2>. QED
        BY <2>1, <2>2 DEF LoraTypeOK
<1>2. Allocated'
    <2>. SUFFICES ASSUME NEW q \in Group, at'[q] = "calling"
                  PROVE  /\ call'[q] \in Calls
                         /\ step'[q] \in 1 .. Len(Program) + 1
                         /\ step'[q] \in 2 .. Len(Program) =>
                                buffer'[q][call'[q]] # None
                         /\ step'[q] = Len(Program) + 1 =>
                                buffer'[q][call'[q]] = None
        BY <1>0 DEF Allocated, Calls
    <2>1. CASE q = r
        BY <1>a, <2>1, ProgramShape DEF Allocated, LoraTypeOK, Values, None, Other
    <2>2. CASE q # r
        BY <2>2 DEF Allocated, LoraTypeOK
    <2>. QED
        BY <2>1, <2>2
<1>3. Reachable'
    <2>. SUFFICES ASSUME NEW q \in Group, NEW i \in DOMAIN stream'[q]
                  PROVE  buffer'[q][stream'[q][i].call] # None
        BY DEF Reachable
    <2>1. CASE q = r
        <3>1. stream[r] \in Seq(Operations)
            BY DEF LoraTypeOK
        <3>2. PICK op : op.call = call[r] /\ stream'[r] = Append(stream[r], op)
            <4>1. stream'[r] =
                    Append(stream[r], [op |-> "broadcast", call |-> call[r],
                                       n |-> Len(joined[r]) + 1])
                BY DEF LoraTypeOK
            <4>. QED
                BY <4>1
        <3>3. buffer' = buffer /\ buffer[r][call[r]] # None
            BY <1>a, ProgramShape DEF Allocated
        <3>. HIDE DEF Broadcast, Operations
        <3>4. CASE i \in DOMAIN stream[r]
            <4>1. stream'[r][i] = stream[r][i]
                BY <3>1, <3>2, <3>4
            <4>. QED
                BY <2>1, <3>3, <3>4, <4>1 DEF Reachable
        <3>5. CASE i \notin DOMAIN stream[r]
            <4>1. stream'[r][i] = op
                BY <2>1, <3>1, <3>2, <3>5
            <4>. QED
                BY <2>1, <3>2, <3>3, <4>1
        <3>. QED
            BY <3>4, <3>5
    <2>2. CASE q # r
        BY <2>2 DEF Reachable, LoraTypeOK
    <2>. QED
        BY <2>1, <2>2
<1>4. OnlyThisCall'
    <2>. SUFFICES ASSUME Current, NEW q \in Group, NEW a \in Calls,
                         buffer'[q][a] # None
                  PROVE  \/ at'[q] \in {"calling", "cleanup"} /\ a = call'[q]
                         \/ outcome'[q][a] = "leaked"
        BY <1>0 DEF OnlyThisCall, Calls
    <2>1. CASE q = r
        BY <1>a, <2>1, ProgramShape DEF OnlyThisCall, Allocated, LoraTypeOK, None, Other
    <2>2. CASE q # r
        BY <2>2 DEF OnlyThisCall, LoraTypeOK
    <2>. QED
        BY <2>1, <2>2
<1>5. StreamsHeld' /\ InCleanup' /\ LeaksPast'
    BY <1>a, <1>0 DEF StreamsHeld, InCleanup, LeaksPast, LoraTypeOK, Allocated, Calls
<1>6. step' \in [Group -> Nat]
    OBVIOUS
<1>. QED
    BY <1>1, <1>2, <1>3, <1>4, <1>5, <1>6

\* Synchronize
LEMMA SynchronizeKeeps ==
    ASSUME Inv, NEW r \in Group, Synchronize(r), UNCHANGED input
    PROVE  Inv'
<1>. USE DEF Inv, Synchronize, Goto, At, Advance, input, host, device
<1>0. Program' = Program /\ Current' = Current
    BY InputStays
<1>a. call[r] \in Calls /\ step[r] \in 1 .. Len(Program)
    BY CallingFacts
<1>1. LoraTypeOK'
    BY DEF LoraTypeOK
<1>2. Allocated'
    <2>. SUFFICES ASSUME NEW q \in Group, at'[q] = "calling"
                  PROVE  /\ call'[q] \in Calls
                         /\ step'[q] \in 1 .. Len(Program) + 1
                         /\ step'[q] \in 2 .. Len(Program) =>
                                buffer'[q][call'[q]] # None
                         /\ step'[q] = Len(Program) + 1 =>
                                buffer'[q][call'[q]] = None
        BY <1>0 DEF Allocated, Calls
    <2>1. CASE q = r
        BY <1>a, <2>1, ProgramShape DEF Allocated, LoraTypeOK, Values, None, Other
    <2>2. CASE q # r
        BY <2>2 DEF Allocated, LoraTypeOK
    <2>. QED
        BY <2>1, <2>2
<1>3. Reachable'
    <2>. SUFFICES ASSUME NEW q \in Group, NEW i \in DOMAIN stream'[q]
                  PROVE  buffer'[q][stream'[q][i].call] # None
        BY DEF Reachable
    <2>1. CASE q = r
        BY <1>a, <2>1 DEF Reachable, LoraTypeOK, None, Other
    <2>2. CASE q # r
        BY <2>2 DEF Reachable, LoraTypeOK
    <2>. QED
        BY <2>1, <2>2
<1>4. OnlyThisCall'
    <2>. SUFFICES ASSUME Current, NEW q \in Group, NEW a \in Calls,
                         buffer'[q][a] # None
                  PROVE  \/ at'[q] \in {"calling", "cleanup"} /\ a = call'[q]
                         \/ outcome'[q][a] = "leaked"
        BY <1>0 DEF OnlyThisCall, Calls
    <2>1. CASE q = r
        BY <1>a, <2>1, ProgramShape DEF OnlyThisCall, Allocated, LoraTypeOK, None, Other
    <2>2. CASE q # r
        BY <2>2 DEF OnlyThisCall, LoraTypeOK
    <2>. QED
        BY <2>1, <2>2
<1>5. StreamsHeld' /\ InCleanup' /\ LeaksPast'
    BY <1>a, <1>0 DEF StreamsHeld, InCleanup, LeaksPast, LoraTypeOK, Allocated, Calls
<1>6. step' \in [Group -> Nat]
    OBVIOUS
<1>. QED
    BY <1>1, <1>2, <1>3, <1>4, <1>5, <1>6

\* Free
LEMMA FreeKeeps ==
    ASSUME Inv, NEW r \in Group, Free(r), UNCHANGED input
    PROVE  Inv'
<1>. USE DEF Inv, Free, Goto, At, SetBuffer, Advance, input, host, device
<1>0. Program' = Program /\ Current' = Current
    BY InputStays
<1>a. call[r] \in Calls /\ step[r] \in 1 .. Len(Program)
    BY CallingFacts
<1>1. LoraTypeOK'
    <2>1. buffer' \in [Group -> [Calls -> {None} \cup Values]]
        BY <1>a, LoraAssumption DEF LoraTypeOK, Values, None, Other
    <2>. QED
        BY <2>1 DEF LoraTypeOK
<1>2. Allocated'
    <2>. SUFFICES ASSUME NEW q \in Group, at'[q] = "calling"
                  PROVE  /\ call'[q] \in Calls
                         /\ step'[q] \in 1 .. Len(Program) + 1
                         /\ step'[q] \in 2 .. Len(Program) =>
                                buffer'[q][call'[q]] # None
                         /\ step'[q] = Len(Program) + 1 =>
                                buffer'[q][call'[q]] = None
        BY <1>0 DEF Allocated, Calls
    <2>1. CASE q = r
        BY <1>a, <2>1, ProgramShape DEF Allocated, LoraTypeOK, Values, None, Other
    <2>2. CASE q # r
        BY <2>2 DEF Allocated, LoraTypeOK
    <2>. QED
        BY <2>1, <2>2
<1>3. Reachable'
    <2>. SUFFICES ASSUME NEW q \in Group, NEW i \in DOMAIN stream'[q]
                  PROVE  buffer'[q][stream'[q][i].call] # None
        BY DEF Reachable
    <2>1. CASE q = r
        BY <1>a, <2>1 DEF Reachable, LoraTypeOK, None, Other
    <2>2. CASE q # r
        BY <2>2 DEF Reachable, LoraTypeOK
    <2>. QED
        BY <2>1, <2>2
<1>4. OnlyThisCall'
    <2>. SUFFICES ASSUME Current, NEW q \in Group, NEW a \in Calls,
                         buffer'[q][a] # None
                  PROVE  \/ at'[q] \in {"calling", "cleanup"} /\ a = call'[q]
                         \/ outcome'[q][a] = "leaked"
        BY <1>0 DEF OnlyThisCall, Calls
    <2>1. CASE q = r
        BY <1>a, <2>1, ProgramShape DEF OnlyThisCall, Allocated, LoraTypeOK, None, Other
    <2>2. CASE q # r
        BY <2>2 DEF OnlyThisCall, LoraTypeOK
    <2>. QED
        BY <2>1, <2>2
<1>5. StreamsHeld' /\ InCleanup' /\ LeaksPast'
    BY <1>a, <1>0 DEF StreamsHeld, InCleanup, LeaksPast, LoraTypeOK, Allocated, Calls
<1>6. step' \in [Group -> Nat]
    OBVIOUS
<1>. QED
    BY <1>1, <1>2, <1>3, <1>4, <1>5, <1>6

\* Return
LEMMA ReturnKeeps ==
    ASSUME Inv, NEW r \in Group, Return(r), UNCHANGED input
    PROVE  Inv'
<1>. USE DEF Inv, Return, Goto, End, input, host, device
<1>0. Program' = Program /\ Current' = Current
    BY InputStays
<1>a. call[r] \in Calls
    BY DEF Allocated, InCleanup
<1>1. LoraTypeOK'
    <2>1. at' \in [Group -> {"start", "ready", "calling", "cleanup", "ended"}]
        BY DEF LoraTypeOK
    <2>2. outcome' \in [Group -> [Calls -> Outcomes]]
        BY <1>a DEF LoraTypeOK, Outcomes
    <2>. QED
        BY <2>1, <2>2 DEF LoraTypeOK
<1>2. Allocated'
    <2>. SUFFICES ASSUME NEW q \in Group, at'[q] = "calling"
                  PROVE  /\ call'[q] \in Calls
                         /\ step'[q] \in 1 .. Len(Program) + 1
                         /\ step'[q] \in 2 .. Len(Program) =>
                                buffer'[q][call'[q]] # None
                         /\ step'[q] = Len(Program) + 1 =>
                                buffer'[q][call'[q]] = None
        BY <1>0 DEF Allocated, Calls
    <2>1. CASE q = r
        BY <1>a, <2>1, ProgramShape DEF Allocated, LoraTypeOK, Values, None, Other
    <2>2. CASE q # r
        BY <2>2 DEF Allocated, LoraTypeOK
    <2>. QED
        BY <2>1, <2>2
<1>3. Reachable'
    <2>. SUFFICES ASSUME NEW q \in Group, NEW i \in DOMAIN stream'[q]
                  PROVE  buffer'[q][stream'[q][i].call] # None
        BY DEF Reachable
    <2>1. CASE q = r
        BY <1>a, <2>1 DEF Reachable, LoraTypeOK, None, Other
    <2>2. CASE q # r
        BY <2>2 DEF Reachable, LoraTypeOK
    <2>. QED
        BY <2>1, <2>2
<1>4. OnlyThisCall'
    <2>. SUFFICES ASSUME Current, NEW q \in Group, NEW a \in Calls,
                         buffer'[q][a] # None
                  PROVE  \/ at'[q] \in {"calling", "cleanup"} /\ a = call'[q]
                         \/ outcome'[q][a] = "leaked"
        BY <1>0 DEF OnlyThisCall, Calls
    <2>1. CASE q = r
        BY <1>a, <2>1, ProgramShape DEF OnlyThisCall, Allocated, LoraTypeOK, None, Other
    <2>2. CASE q # r
        BY <2>2 DEF OnlyThisCall, LoraTypeOK
    <2>. QED
        BY <2>1, <2>2
<1>5. StreamsHeld' /\ InCleanup' /\ LeaksPast'
    BY <1>a, <1>0 DEF StreamsHeld, InCleanup, LeaksPast, LoraTypeOK, Allocated, Calls
<1>6. step' \in [Group -> Nat]
    OBVIOUS
<1>. QED
    BY <1>1, <1>2, <1>3, <1>4, <1>5, <1>6

\* CallFails
LEMMA CallFailsKeeps ==
    ASSUME Inv, NEW r \in Group, CallFails(r), UNCHANGED input
    PROVE  Inv'
<1>. USE DEF Inv, CallFails, Goto, At, End, input, host, device
<1>0. Program' = Program /\ Current' = Current
    BY InputStays
<1>a. call[r] \in Calls /\ step[r] \in 1 .. Len(Program)
    BY CallingFacts
<1>1. LoraTypeOK'
    <2>1. at' \in [Group -> {"start", "ready", "calling", "cleanup", "ended"}]
        BY DEF LoraTypeOK
    <2>2. outcome' \in [Group -> [Calls -> Outcomes]]
        <3>1. CASE Current
            BY <3>1 DEF LoraTypeOK
        <3>2. CASE ~Current
            <4>1. PICK how \in {"returned", "thrown"} :
                    outcome' = [outcome EXCEPT ![r][call[r]] = how]
                BY <3>2
            <4>. HIDE DEF CallFails
            <4>. QED
                BY <1>a, <4>1 DEF LoraTypeOK, Outcomes
        <3>. QED
            BY <3>1, <3>2
    <2>. QED
        BY <2>1, <2>2 DEF LoraTypeOK
<1>2. Allocated'
    <2>. SUFFICES ASSUME NEW q \in Group, at'[q] = "calling"
                  PROVE  /\ call'[q] \in Calls
                         /\ step'[q] \in 1 .. Len(Program) + 1
                         /\ step'[q] \in 2 .. Len(Program) =>
                                buffer'[q][call'[q]] # None
                         /\ step'[q] = Len(Program) + 1 =>
                                buffer'[q][call'[q]] = None
        BY <1>0 DEF Allocated, Calls
    <2>1. CASE q = r
        BY <1>a, <2>1, ProgramShape DEF Allocated, LoraTypeOK, Values, None, Other
    <2>2. CASE q # r
        BY <2>2 DEF Allocated, LoraTypeOK
    <2>. QED
        BY <2>1, <2>2
<1>3. Reachable'
    <2>. SUFFICES ASSUME NEW q \in Group, NEW i \in DOMAIN stream'[q]
                  PROVE  buffer'[q][stream'[q][i].call] # None
        BY DEF Reachable
    <2>1. CASE q = r
        BY <1>a, <2>1 DEF Reachable, LoraTypeOK, None, Other
    <2>2. CASE q # r
        BY <2>2 DEF Reachable, LoraTypeOK
    <2>. QED
        BY <2>1, <2>2
<1>4. OnlyThisCall'
    <2>. SUFFICES ASSUME Current, NEW q \in Group, NEW a \in Calls,
                         buffer'[q][a] # None
                  PROVE  \/ at'[q] \in {"calling", "cleanup"} /\ a = call'[q]
                         \/ outcome'[q][a] = "leaked"
        BY <1>0 DEF OnlyThisCall, Calls
    <2>1. CASE q = r
        BY <1>a, <2>1, ProgramShape DEF OnlyThisCall, Allocated, LoraTypeOK, None, Other
    <2>2. CASE q # r
        BY <2>2 DEF OnlyThisCall, LoraTypeOK
    <2>. QED
        BY <2>1, <2>2
<1>5. StreamsHeld' /\ InCleanup' /\ LeaksPast'
    <2>1. StreamsHeld' /\ InCleanup'
        BY <1>a, <1>0 DEF StreamsHeld, InCleanup, LoraTypeOK, Allocated, Calls
    <2>2. PICK how \in {"none", "returned", "thrown"} :
            \/ outcome' = outcome
            \/ outcome' = [outcome EXCEPT ![r][call[r]] = how]
        OBVIOUS
    <2>3. call' = call
        OBVIOUS
    <2>4. outcome \in [Group -> [Calls -> Outcomes]] /\ LeaksPast
        BY DEF LoraTypeOK
    <2>. HIDE DEF Inv, CallFails
    <2>5. ASSUME NEW q \in Group, NEW a \in Calls, outcome'[q][a] = "leaked"
          PROVE  a <= call'[q]
        <3>1. outcome[q][a] = "leaked"
            BY <1>a, <2>2, <2>4, <2>5
        <3>. QED
            BY <2>3, <2>4, <3>1 DEF LeaksPast
    <2>. QED
        BY <2>1, <2>5 DEF LeaksPast, Calls
<1>6. step' \in [Group -> Nat]
    OBVIOUS
<1>. QED
    BY <1>1, <1>2, <1>3, <1>4, <1>5, <1>6

\* Cleanup
LEMMA CleanupKeeps ==
    ASSUME Inv, NEW r \in Group, Cleanup(r), UNCHANGED input
    PROVE  Inv'
<1>. USE DEF Inv, Cleanup, Goto, End, SetBuffer, input, host, device
<1>0. Program' = Program /\ Current' = Current
    BY InputStays
<1>a. call[r] \in Calls
    BY DEF Allocated, InCleanup
<1>1. LoraTypeOK'
    <2>1. at' \in [Group -> {"start", "ready", "calling", "cleanup", "ended"}]
        BY DEF LoraTypeOK
    <2>2. outcome' \in [Group -> [Calls -> Outcomes]]
        BY <1>a DEF LoraTypeOK, Outcomes
    <2>3. buffer' \in [Group -> [Calls -> {None} \cup Values]]
        BY <1>a, LoraAssumption DEF LoraTypeOK, Values, None, Other
    <2>. QED
        BY <2>1, <2>2, <2>3 DEF LoraTypeOK
<1>2. Allocated'
    <2>. SUFFICES ASSUME NEW q \in Group, at'[q] = "calling"
                  PROVE  /\ call'[q] \in Calls
                         /\ step'[q] \in 1 .. Len(Program) + 1
                         /\ step'[q] \in 2 .. Len(Program) =>
                                buffer'[q][call'[q]] # None
                         /\ step'[q] = Len(Program) + 1 =>
                                buffer'[q][call'[q]] = None
        BY <1>0 DEF Allocated, Calls
    <2>1. CASE q = r
        BY <1>a, <2>1, ProgramShape DEF Allocated, LoraTypeOK, Values, None, Other
    <2>2. CASE q # r
        BY <2>2 DEF Allocated, LoraTypeOK
    <2>. QED
        BY <2>1, <2>2
<1>3. Reachable'
    <2>. SUFFICES ASSUME NEW q \in Group, NEW i \in DOMAIN stream'[q]
                  PROVE  buffer'[q][stream'[q][i].call] # None
        BY DEF Reachable
    <2>1. CASE q = r
        BY <1>a, <2>1 DEF Reachable, LoraTypeOK, None, Other
    <2>2. CASE q # r
        BY <2>2 DEF Reachable, LoraTypeOK
    <2>. QED
        BY <2>1, <2>2
<1>4. OnlyThisCall'
    <2>. SUFFICES ASSUME Current, NEW q \in Group, NEW a \in Calls,
                         buffer'[q][a] # None
                  PROVE  \/ at'[q] \in {"calling", "cleanup"} /\ a = call'[q]
                         \/ outcome'[q][a] = "leaked"
        BY <1>0 DEF OnlyThisCall, Calls
    <2>1. CASE q = r
        BY <1>a, <2>1, ProgramShape DEF OnlyThisCall, Allocated, LoraTypeOK, None, Other
    <2>2. CASE q # r
        BY <2>2 DEF OnlyThisCall, LoraTypeOK
    <2>. QED
        BY <2>1, <2>2
<1>5. StreamsHeld' /\ InCleanup' /\ LeaksPast'
    BY <1>a, <1>0 DEF StreamsHeld, InCleanup, LeaksPast, LoraTypeOK, Allocated, Calls
<1>6. step' \in [Group -> Nat]
    OBVIOUS
<1>. QED
    BY <1>1, <1>2, <1>3, <1>4, <1>5, <1>6

\* CleanupFails
LEMMA CleanupFailsKeeps ==
    ASSUME Inv, NEW r \in Group, CleanupFails(r), UNCHANGED input
    PROVE  Inv'
<1>. USE DEF Inv, CleanupFails, Goto, End, input, host, device
<1>0. Program' = Program /\ Current' = Current
    BY InputStays
<1>a. call[r] \in Calls
    BY DEF Allocated, InCleanup
<1>1. LoraTypeOK'
    <2>1. at' \in [Group -> {"start", "ready", "calling", "cleanup", "ended"}]
        BY DEF LoraTypeOK
    <2>2. outcome' \in [Group -> [Calls -> Outcomes]]
        BY <1>a DEF LoraTypeOK, Outcomes
    <2>. QED
        BY <2>1, <2>2 DEF LoraTypeOK
<1>2. Allocated'
    <2>. SUFFICES ASSUME NEW q \in Group, at'[q] = "calling"
                  PROVE  /\ call'[q] \in Calls
                         /\ step'[q] \in 1 .. Len(Program) + 1
                         /\ step'[q] \in 2 .. Len(Program) =>
                                buffer'[q][call'[q]] # None
                         /\ step'[q] = Len(Program) + 1 =>
                                buffer'[q][call'[q]] = None
        BY <1>0 DEF Allocated, Calls
    <2>1. CASE q = r
        BY <1>a, <2>1, ProgramShape DEF Allocated, LoraTypeOK, Values, None, Other
    <2>2. CASE q # r
        BY <2>2 DEF Allocated, LoraTypeOK
    <2>. QED
        BY <2>1, <2>2
<1>3. Reachable'
    <2>. SUFFICES ASSUME NEW q \in Group, NEW i \in DOMAIN stream'[q]
                  PROVE  buffer'[q][stream'[q][i].call] # None
        BY DEF Reachable
    <2>1. CASE q = r
        BY <1>a, <2>1 DEF Reachable, LoraTypeOK, None, Other
    <2>2. CASE q # r
        BY <2>2 DEF Reachable, LoraTypeOK
    <2>. QED
        BY <2>1, <2>2
<1>4. OnlyThisCall'
    <2>. SUFFICES ASSUME Current, NEW q \in Group, NEW a \in Calls,
                         buffer'[q][a] # None
                  PROVE  \/ at'[q] \in {"calling", "cleanup"} /\ a = call'[q]
                         \/ outcome'[q][a] = "leaked"
        BY <1>0 DEF OnlyThisCall, Calls
    <2>1. CASE q = r
        BY <1>a, <2>1, ProgramShape DEF OnlyThisCall, Allocated, LoraTypeOK, None, Other
    <2>2. CASE q # r
        BY <2>2 DEF OnlyThisCall, LoraTypeOK
    <2>. QED
        BY <2>1, <2>2
<1>5. StreamsHeld' /\ InCleanup' /\ LeaksPast'
    BY <1>a, <1>0 DEF StreamsHeld, InCleanup, LeaksPast, LoraTypeOK, Allocated, Calls
<1>6. step' \in [Group -> Nat]
    OBVIOUS
<1>. QED
    BY <1>1, <1>2, <1>3, <1>4, <1>5, <1>6

\* DestroyStream
LEMMA DestroyStreamKeeps ==
    ASSUME Inv, NEW r \in Group, DestroyStream(r), UNCHANGED input
    PROVE  Inv'
<1>. USE DEF Inv, DestroyStream, Goto, input, host, device
<1>0. Program' = Program /\ Current' = Current
    BY InputStays
<1>1. LoraTypeOK'
    <2>1. at' \in [Group -> {"start", "ready", "calling", "cleanup", "ended"}]
        BY DEF LoraTypeOK
    <2>2. wrapper' \in [Group -> BOOLEAN]
        BY DEF LoraTypeOK
    <2>. QED
        BY <2>1, <2>2 DEF LoraTypeOK
<1>2. Allocated'
    <2>. SUFFICES ASSUME NEW q \in Group, at'[q] = "calling"
                  PROVE  /\ call'[q] \in Calls
                         /\ step'[q] \in 1 .. Len(Program) + 1
                         /\ step'[q] \in 2 .. Len(Program) =>
                                buffer'[q][call'[q]] # None
                         /\ step'[q] = Len(Program) + 1 =>
                                buffer'[q][call'[q]] = None
        BY <1>0 DEF Allocated, Calls
    <2>1. CASE q = r
        BY <2>1, ProgramShape DEF Allocated, LoraTypeOK, Values, None, Other
    <2>2. CASE q # r
        BY <2>2 DEF Allocated, LoraTypeOK
    <2>. QED
        BY <2>1, <2>2
<1>3. Reachable'
    <2>. SUFFICES ASSUME NEW q \in Group, NEW i \in DOMAIN stream'[q]
                  PROVE  buffer'[q][stream'[q][i].call] # None
        BY DEF Reachable
    <2>1. CASE q = r
        BY <2>1 DEF Reachable, LoraTypeOK, None, Other
    <2>2. CASE q # r
        BY <2>2 DEF Reachable, LoraTypeOK
    <2>. QED
        BY <2>1, <2>2
<1>4. OnlyThisCall'
    <2>. SUFFICES ASSUME Current, NEW q \in Group, NEW a \in Calls,
                         buffer'[q][a] # None
                  PROVE  \/ at'[q] \in {"calling", "cleanup"} /\ a = call'[q]
                         \/ outcome'[q][a] = "leaked"
        BY <1>0 DEF OnlyThisCall, Calls
    <2>1. CASE q = r
        BY <2>1, ProgramShape DEF OnlyThisCall, Allocated, LoraTypeOK, None, Other
    <2>2. CASE q # r
        BY <2>2 DEF OnlyThisCall, LoraTypeOK
    <2>. QED
        BY <2>1, <2>2
<1>5. StreamsHeld' /\ InCleanup' /\ LeaksPast'
    BY <1>0 DEF StreamsHeld, InCleanup, LeaksPast, LoraTypeOK, Allocated, Calls
<1>6. step' \in [Group -> Nat]
    OBVIOUS
<1>. QED
    BY <1>1, <1>2, <1>3, <1>4, <1>5, <1>6

\* What all operations of the device have in common: the head of the stream
\* goes, and memory that is allocated may get another value.
LEMMA DeviceKeeps ==
    ASSUME Inv, NEW r \in Group, NEW a \in Calls, NEW value \in Values,
           UNCHANGED <<input, host>>, stream[r] # <<>>, Pop(r),
           buffer[r][a] # None,
           buffer' = buffer \/ SetBuffer(r, a, value)
    PROVE  /\ stream' \in [Group -> Seq(Operations)]
           /\ buffer' \in [Group -> [Calls -> {None} \cup Values]]
           /\ Allocated' /\ Reachable' /\ OnlyThisCall' /\ LeaksPast' /\ StreamsHeld'
           /\ InCleanup' /\ step' \in [Group -> Nat]
<1>. USE DEF Inv, input, host
<1>0. Program' = Program /\ Current' = Current
    BY InputStays
<1>1. stream' = [stream EXCEPT ![r] = Tail(@)]
    BY DEF Pop
<1>2. stream' \in [Group -> Seq(Operations)]
    BY <1>1, HeadFacts DEF LoraTypeOK
<1>3. buffer' \in [Group -> [Calls -> {None} \cup Values]]
    <2>1. buffer \in [Group -> [Calls -> {None} \cup Values]]
        BY DEF LoraTypeOK
    <2>2. CASE buffer' = buffer
        BY <2>1, <2>2
    <2>3. CASE buffer' = [buffer EXCEPT ![r][a] = value]
        <3>. HIDE DEF Inv
        <3>. QED
            BY <2>1, <2>3
    <2>. QED
        BY <2>2, <2>3 DEF SetBuffer
<1>4. \A q \in Group : \A b \in Calls : buffer'[q][b] # None <=> buffer[q][b] # None
    <2>1. value # None
        BY LoraAssumption DEF Values, None
    <2>2. CASE buffer' = buffer
        BY <2>2
    <2>3. CASE SetBuffer(r, a, value)
        BY <2>1, <2>3 DEF SetBuffer, LoraTypeOK
    <2>. QED
        BY <2>2, <2>3
<1>5. Allocated'
    BY <1>0, <1>4 DEF Allocated, Calls
<1>6. Reachable'
    <2>. SUFFICES ASSUME NEW q \in Group, NEW i \in DOMAIN stream'[q]
                  PROVE  buffer'[q][stream'[q][i].call] # None
        BY DEF Reachable
    <2>1. PICK j \in DOMAIN stream[q] : stream'[q][i] = stream[q][j]
        <3>1. CASE q = r
            <4>1. stream'[r] = Tail(stream[r])
                BY <1>1 DEF LoraTypeOK
            <4>. QED
                BY <3>1, <4>1, HeadFacts
        <3>2. CASE q # r
            BY <1>1, <3>2 DEF LoraTypeOK
        <3>. QED
            BY <3>1, <3>2
    <2>2. stream[q][j] \in Operations
        BY DEF LoraTypeOK
    <2>3. stream[q][j].call \in Calls
        BY <2>2 DEF Operations
    <2>. QED
        BY <1>4, <2>1, <2>3 DEF Reachable
<1>7. OnlyThisCall'
    BY <1>0, <1>4 DEF OnlyThisCall, Calls
<1>8. StreamsHeld' /\ InCleanup' /\ LeaksPast' /\ step' \in [Group -> Nat]
    BY <1>0 DEF StreamsHeld, InCleanup, LeaksPast, Calls
<1>. QED
    BY <1>2, <1>3, <1>5, <1>6, <1>7, <1>8

\* MovesIn
LEMMA MovesInKeeps ==
    ASSUME Inv, NEW r \in Group, MovesIn(r), UNCHANGED <<input, host>>
    PROVE  Inv'
<1>. DEFINE a == Head(stream[r]).call
<1>1. stream[r] # <<>> /\ Pop(r)
    BY DEF MovesIn, AtHead
<1>2. a \in Calls /\ Head(stream[r]).n \in Nat \ {0}
    BY <1>1, HeadFacts DEF Operations
<1>3. buffer[r][a] # None
    BY <1>1, HeadFacts
<1>4. buffer[r][a] \in Values /\ weights[r][a] \in Values
    BY <1>2, <1>3 DEF Inv, LoraTypeOK
<1>5. \E value \in Values : buffer' = buffer \/ SetBuffer(r, a, value)
    BY <1>3, <1>4 DEF MovesIn, Write
<1>6. weights' \in [Group -> [Calls -> Values]] /\ sent' \in Seq(Values)
    BY DEF MovesIn, Inv, LoraTypeOK
<1>. HIDE DEF a
<1>7. /\ stream' \in [Group -> Seq(Operations)]
      /\ buffer' \in [Group -> [Calls -> {None} \cup Values]]
      /\ Allocated' /\ Reachable' /\ OnlyThisCall' /\ LeaksPast' /\ StreamsHeld'
      /\ InCleanup' /\ step' \in [Group -> Nat]
    BY <1>1, <1>2, <1>3, <1>5, DeviceKeeps
<1>8. LoraTypeOK'
    BY <1>6, <1>7 DEF MovesIn, Inv, LoraTypeOK, input, host
<1>. QED
    BY <1>7, <1>8 DEF Inv, input

\* MovesOut
LEMMA MovesOutKeeps ==
    ASSUME Inv, NEW r \in Group, MovesOut(r), UNCHANGED <<input, host>>
    PROVE  Inv'
<1>. DEFINE a == Head(stream[r]).call
<1>1. stream[r] # <<>> /\ Pop(r)
    BY DEF MovesOut, AtHead
<1>2. a \in Calls /\ Head(stream[r]).n \in Nat \ {0}
    BY <1>1, HeadFacts DEF Operations
<1>3. buffer[r][a] # None
    BY <1>1, HeadFacts
<1>4. buffer[r][a] \in Values /\ weights[r][a] \in Values
    BY <1>2, <1>3 DEF Inv, LoraTypeOK
<1>5. \E value \in Values : buffer' = buffer \/ SetBuffer(r, a, value)
    BY <1>4 DEF MovesOut
<1>6. weights' \in [Group -> [Calls -> Values]] /\ sent' \in Seq(Values)
    <2>1. weights' = [weights EXCEPT ![r][a] = buffer[r][a]]
        BY DEF MovesOut
    <2>2. weights \in [Group -> [Calls -> Values]]
        BY DEF Inv, LoraTypeOK
    <2>. HIDE DEF a
    <2>3. weights' \in [Group -> [Calls -> Values]]
        BY <1>2, <1>4, <2>1, <2>2
    <2>. QED
        BY <2>3 DEF MovesOut, Inv, LoraTypeOK
<1>. HIDE DEF a
<1>7. /\ stream' \in [Group -> Seq(Operations)]
      /\ buffer' \in [Group -> [Calls -> {None} \cup Values]]
      /\ Allocated' /\ Reachable' /\ OnlyThisCall' /\ LeaksPast' /\ StreamsHeld'
      /\ InCleanup' /\ step' \in [Group -> Nat]
    BY <1>1, <1>2, <1>3, <1>5, DeviceKeeps
<1>8. LoraTypeOK'
    BY <1>6, <1>7 DEF MovesOut, Inv, LoraTypeOK, input, host
<1>. QED
    BY <1>7, <1>8 DEF Inv, input

\* Broadcasts
LEMMA BroadcastsKeeps ==
    ASSUME Inv, NEW r \in Group, Broadcasts(r), UNCHANGED <<input, host>>
    PROVE  Inv'
<1>. DEFINE a == Head(stream[r]).call
<1>1. stream[r] # <<>> /\ Pop(r)
    BY DEF Broadcasts, AtHead
<1>2. a \in Calls /\ Head(stream[r]).n \in Nat \ {0}
    BY <1>1, HeadFacts DEF Operations
<1>3. buffer[r][a] # None
    BY <1>1, HeadFacts
<1>4. buffer[r][a] \in Values /\ weights[r][a] \in Values
    BY <1>2, <1>3 DEF Inv, LoraTypeOK
<1>5. \E value \in Values : buffer' = buffer \/ SetBuffer(r, a, value)
    <2>1. CASE r = Root
        BY <1>4, <2>1 DEF Broadcasts
    <2>2. CASE r # Root
        <3>1. /\ Head(stream[r]).n <= Len(sent)
              /\ SetBuffer(r, a, sent[Head(stream[r]).n])
            BY <1>3, <2>2 DEF Broadcasts, Write
        <3>2. sent \in Seq(Values)
            BY DEF Inv, LoraTypeOK
        <3>3. sent[Head(stream[r]).n] \in Values
            BY <1>2, <3>1, <3>2
        <3>. QED
            BY <3>1, <3>3
    <2>. QED
        BY <2>1, <2>2
<1>6. weights' \in [Group -> [Calls -> Values]] /\ sent' \in Seq(Values)
    <2>1. sent \in Seq(Values) /\ weights \in [Group -> [Calls -> Values]]
        BY DEF Inv, LoraTypeOK
    <2>2. sent' = sent \/ sent' = Append(sent, buffer[r][a])
        BY DEF Broadcasts
    <2>3. sent' \in Seq(Values)
        BY <1>4, <2>1, <2>2
    <2>. QED
        BY <2>1, <2>3 DEF Broadcasts
<1>. HIDE DEF a
<1>7. /\ stream' \in [Group -> Seq(Operations)]
      /\ buffer' \in [Group -> [Calls -> {None} \cup Values]]
      /\ Allocated' /\ Reachable' /\ OnlyThisCall' /\ LeaksPast' /\ StreamsHeld'
      /\ InCleanup' /\ step' \in [Group -> Nat]
    BY <1>1, <1>2, <1>3, <1>5, DeviceKeeps
<1>8. LoraTypeOK'
    BY <1>6, <1>7 DEF Broadcasts, Inv, LoraTypeOK, input, host
<1>. QED
    BY <1>7, <1>8 DEF Inv, input

-----------------------------------------------------------------------------
\* Every step keeps the invariant.
LEMMA NextKeepsInv == Inv /\ [Next]_vars => Inv'
<1>. SUFFICES ASSUME Inv, [Next]_vars PROVE Inv'
    OBVIOUS
<1>1. ASSUME NEW r \in Group, HostStep(r) PROVE Inv'
    BY <1>1, CreateStreamKeeps, EnterKeeps, MallocKeeps, CopyKeeps,
       BroadcastKeeps, SynchronizeKeeps, FreeKeeps, ReturnKeeps, CleanupKeeps,
       DestroyStreamKeeps
    DEF HostStep
<1>2. ASSUME NEW r \in Group, Failure(r) PROVE Inv'
    BY <1>2, CallFailsKeeps, CleanupFailsKeeps DEF Failure
<1>3. ASSUME NEW r \in Group, DeviceStep(r) PROVE Inv'
    BY <1>3, MovesInKeeps, MovesOutKeeps, BroadcastsKeeps DEF DeviceStep
<1>4. CASE UNCHANGED vars
    <2>. USE <1>4 DEF Inv, vars, input, host, device
    <2>0. Program' = Program /\ Current' = Current
        BY InputStays
    <2>. QED
        BY <2>0 DEF LoraTypeOK, Allocated, Reachable, OnlyThisCall, LeaksPast,
           StreamsHeld, InCleanup
<1>. QED
    BY <1>1, <1>2, <1>3, <1>4 DEF Next

LEMMA InvInvariant == Spec => []Inv
BY InitEstablishesInv, NextKeepsInv, PTL DEF Spec

\* The variables keep their types, and memory is used only while it is
\* allocated, in all four versions of broadcast_lora_adapter.
THEOREM LoraTypeCorrect == Spec => []LoraTypeOK
<1>1. Inv => LoraTypeOK
    BY DEF Inv
<1>. QED
    BY <1>1, InvInvariant, PTL

\* What Inv says of a rank outside a call.
LEMMA NothingLeft == Inv => NothingOutlivesACall
<1>. SUFFICES ASSUME Inv, NEW r \in Group
              PROVE  /\ Current /\ at[r] \notin {"calling", "cleanup"} =>
                        /\ \A op \in ToSet(stream[r]) :
                            outcome[r][op.call] = "leaked"
                        /\ \A a \in Calls :
                            buffer[r][a] # None => outcome[r][a] = "leaked"
                     /\ at[r] = "ended" => ~wrapper[r]
    BY DEF NothingOutlivesACall
<1>1. at[r] = "ended" => ~wrapper[r]
    BY DEF Inv, StreamsHeld
<1>2. ASSUME Current, at[r] \notin {"calling", "cleanup"}
      PROVE  \A a \in Calls : buffer[r][a] # None => outcome[r][a] = "leaked"
    BY <1>2 DEF Inv, OnlyThisCall
<1>3. ASSUME Current, at[r] \notin {"calling", "cleanup"},
             NEW op \in ToSet(stream[r])
      PROVE  outcome[r][op.call] = "leaked"
    <2>1. PICK i \in DOMAIN stream[r] : op = stream[r][i]
        BY DEF ToSet
    <2>2. op.call \in Calls
        <3>1. op \in Operations
            BY <2>1 DEF Inv, LoraTypeOK
        <3>. QED
            BY <3>1 DEF Operations
    <2>3. buffer[r][op.call] # None
        BY <2>1 DEF Inv, Reachable
    <2>. QED
        BY <1>2, <1>3, <2>2, <2>3
<1>. QED
    BY <1>1, <1>2, <1>3

\* A call of a current version leaves no memory and no operation behind,
\* whichever of its steps fails - unless the cudaFree of its catch fails too,
\* and then it leaves its own and no other call's.  (broadcast_lora_adapter's
\* catch)
THEOREM NothingOutlivesACallInvariant == Spec => []NothingOutlivesACall
BY NothingLeft, InvInvariant, PTL
-----------------------------------------------------------------------------
(* Whose weights a rank receives.  The n-th broadcast of a rank meets the  *)
(* n-th of Root, so it has to be shown that without a call left out the    *)
(* n-th is that of adapter n, that the device executes what belongs to a   *)
(* call in order, and that Root's weights stay what they are.              *)

BroadcastAt == IF Current THEN 3 ELSE 4
CopyOutAt   == IF Current THEN 4 ELSE 6

\* Rank r is through with the call for adapter b, or has joined its broadcast.
Ended(r, b) ==
    b < call[r] \/ (b = call[r] /\ at[r] \notin {"calling", "cleanup"})

Due(r, b) == Ended(r, b) \/ (b = call[r] /\ step[r] > BroadcastAt)

OutcomesOfEnded ==
    \A r \in Group : \A b \in Calls : outcome[r][b] # "none" => Ended(r, b)

AllDue(r) == \A i \in DOMAIN joined[r] : Due(r, joined[r][i])

JoinedAreDue == \A r \in Group : AllDue(r)

JoinedOnce ==
    \A r \in Group : \A i, j \in DOMAIN joined[r] :
        joined[r][i] = joined[r][j] => i = j

\* A rank that has left no call joins the a-th broadcast for adapter a.
JoinedInOrder ==
    \A r \in Group : \A a \in Calls : ~ Skipped(r, a) =>
        /\ a \in DOMAIN joined[r] <=> Due(r, a)
        /\ a \in DOMAIN joined[r] => joined[r][a] = a

Order == OutcomesOfEnded /\ JoinedAreDue /\ JoinedOnce /\ JoinedInOrder

\* Who has left a call has left it for good.
LeftStays == \A q \in Group : \A b \in Calls : Left(q, b) => Left(q, b)'

LEMMA SkippedStays ==
    ASSUME LeftStays, NEW q \in Group, NEW a \in Calls, Skipped(q, a)
    PROVE  Skipped(q, a)'
<1>1. \A b \in 1 .. a : b \in Calls
    BY LoraAssumption DEF Calls
<1>2. PICK b \in 1 .. a : Left(q, b)
    BY DEF Skipped
<1>3. Left(q, b)'
    BY <1>1, <1>2 DEF LeftStays
<1>. QED
    BY <1>3 DEF Skipped

LEMMA SkippedMore ==
    ASSUME NEW q, NEW a \in Calls, NEW b \in Calls, b <= a, Skipped(q, b)
    PROVE  Skipped(q, a)
BY LoraAssumption DEF Skipped, Calls

\* What the four versions do at which step.
LEMMA ProgramSteps ==
    ASSUME impl \in {"cuda", "hip", "nccl", "rccl"}
    PROVE  /\ Len(Program) = IF Current THEN 6 ELSE 8
           /\ DOMAIN Program = 1 .. Len(Program)
           /\ \A i \in DOMAIN Program :
                /\ Program[i] = "malloc" <=> i = 1
                /\ Program[i] = "copy_in" <=> i = 2
                /\ Program[i] = "broadcast" <=> i = BroadcastAt
                /\ Program[i] = "copy_out" <=> i = CopyOutAt
                /\ Program[i] = "free" <=> i = Len(Program)
                /\ i = Len(Program) - 1 => Program[i] = "sync"
<1>1. CASE impl \in {"cuda", "hip"}
    <2>1. Program = <<"malloc", "copy_in", "broadcast", "copy_out", "sync", "free">>
        BY <1>1 DEF Program, CudaBroadcast, HipBroadcast
    <2>2. BroadcastAt = 3 /\ CopyOutAt = 4 /\ Current
        BY <1>1 DEF BroadcastAt, CopyOutAt, Current
    <2>. QED
        BY <2>1, <2>2
<1>2. CASE impl \in {"nccl", "rccl"}
    <2>1. Program = <<"malloc", "copy_in", "sync", "broadcast", "sync",
                      "copy_out", "sync", "free">>
        BY <1>2 DEF Program, NcclBroadcast, RcclBroadcast
    <2>2. BroadcastAt = 4 /\ CopyOutAt = 6 /\ ~ Current
        BY <1>2 DEF BroadcastAt, CopyOutAt, Current
    <2>. QED
        BY <2>1, <2>2
<1>. QED
    BY <1>1, <1>2

\* The step of a host that executes a call of that name.
LEMMA StepAt ==
    ASSUME Inv, NEW r \in Group
    PROVE  /\ At(r, "malloc") => step[r] = 1
           /\ At(r, "copy_in") => step[r] = 2
           /\ At(r, "broadcast") => step[r] = BroadcastAt
           /\ At(r, "copy_out") => step[r] = CopyOutAt
           /\ At(r, "free") => step[r] = Len(Program)
           /\ At(r, "sync") => /\ step[r] \notin {1, 2, BroadcastAt, CopyOutAt}
                               /\ step[r] # Len(Program)
           /\ BroadcastAt \in {3, 4} /\ CopyOutAt \in {4, 6}
           /\ BroadcastAt < CopyOutAt /\ CopyOutAt < Len(Program) - 1
           /\ Len(Program) \in {6, 8} /\ step[r] \in Nat
<1>1. impl \in {"cuda", "hip", "nccl", "rccl"} /\ step[r] \in Nat
    BY DEF Inv
<1>2. /\ At(r, "malloc") => step[r] = 1
      /\ At(r, "copy_in") => step[r] = 2
      /\ At(r, "broadcast") => step[r] = BroadcastAt
      /\ At(r, "copy_out") => step[r] = CopyOutAt
      /\ At(r, "free") => step[r] = Len(Program)
    BY <1>1, ProgramSteps DEF At
<1>3. At(r, "sync") => /\ step[r] \notin {1, 2, BroadcastAt, CopyOutAt}
                       /\ step[r] # Len(Program)
    <2>1. \A i \in DOMAIN Program : i \in {1, 2, BroadcastAt, CopyOutAt, Len(Program)}
            => Program[i] \in {"malloc", "copy_in", "broadcast", "copy_out", "free"}
        BY <1>1, ProgramSteps
    <2>. QED
        BY <2>1 DEF At
<1>4. /\ BroadcastAt \in {3, 4} /\ CopyOutAt \in {4, 6}
      /\ BroadcastAt < CopyOutAt /\ CopyOutAt < Len(Program) - 1
      /\ Len(Program) \in {6, 8}
    BY <1>1, ProgramSteps DEF BroadcastAt, CopyOutAt
<1>. QED
    BY <1>1, <1>2, <1>3, <1>4

\* The types of what says where a rank stands.
LEMMA Standing ==
    ASSUME Inv, NEW r \in Group
    PROVE  /\ call[r] \in 0 .. Adapters /\ step[r] \in Nat /\ Adapters \in Nat
           /\ joined[r] \in Seq(Calls)
           /\ Len(joined[r]) \in Nat /\ DOMAIN joined[r] = 1 .. Len(joined[r])
           /\ \A i \in DOMAIN joined[r] : joined[r][i] \in Calls
           /\ \A b \in Calls : b \in Nat /\ b > 0
           /\ at[r] \in {"calling", "cleanup"} => call[r] \in Calls
<1>1. joined[r] \in Seq(Calls) /\ call[r] \in 0 .. Adapters /\ step[r] \in Nat
    BY DEF Inv, LoraTypeOK
<1>2. at[r] \in {"calling", "cleanup"} => call[r] \in Calls
    BY DEF Inv, Allocated, InCleanup
<1>. QED
    BY <1>1, <1>2, LoraAssumption DEF Calls

\* A step that ends no call and joins no broadcast.
LEMMA SameOrder ==
    ASSUME Inv, Order, UNCHANGED <<input, joined, outcome>>,
           \A q \in Group : \A b \in Calls :
                (Ended(q, b)' <=> Ended(q, b)) /\ (Due(q, b)' <=> Due(q, b))
    PROVE  Order' /\ LeftStays
<1>1. \A q \in Group : \A b \in Calls : Left(q, b)' <=> Left(q, b)
    BY DEF Left, input
<1>2. \A q \in Group : \A a \in Calls : Skipped(q, a)' <=> Skipped(q, a)
    BY <1>1, LoraAssumption DEF Skipped, Calls
<1>3. OutcomesOfEnded'
    BY DEF Order, OutcomesOfEnded, Calls
<1>4. JoinedAreDue' /\ JoinedOnce'
    BY Standing DEF Order, JoinedAreDue, AllDue, JoinedOnce
<1>5. JoinedInOrder'
    BY <1>2 DEF Order, JoinedInOrder, Calls
<1>. QED
    BY <1>1, <1>3, <1>4, <1>5 DEF Order, LeftStays

\* What a step of rank r leaves as it was.
OthersStay(r) ==
    /\ UNCHANGED input
    /\ \A q \in Group : q # r =>
        /\ at'[q] = at[q] /\ step'[q] = step[q] /\ call'[q] = call[q]
        /\ outcome'[q] = outcome[q] /\ joined'[q] = joined[q]

\* It is enough to look at that rank.
LEMMA OrderOfOne ==
    ASSUME Inv, Order, NEW r \in Group, OthersStay(r),
           \A b \in Calls : outcome'[r][b] # "none" => Ended(r, b)',
           AllDue(r)',
           \A i, j \in DOMAIN joined'[r] :
                joined'[r][i] = joined'[r][j] => i = j,
           \A b \in Calls : Left(r, b) => Left(r, b)',
           \A a \in Calls : ~ Skipped(r, a)' =>
                /\ a \in DOMAIN joined'[r] <=> Due(r, a)'
                /\ a \in DOMAIN joined'[r] => joined'[r][a] = a
    PROVE  Order' /\ LeftStays
<1>1. ASSUME NEW q \in Group, q # r
      PROVE  /\ \A b : Left(q, b)' <=> Left(q, b)
             /\ \A b : Ended(q, b)' <=> Ended(q, b)
             /\ AllDue(q) => AllDue(q)'
             /\ \A b : Due(q, b)' <=> Due(q, b)
    <2>1. at'[q] = at[q] /\ step'[q] = step[q] /\ call'[q] = call[q]
          /\ outcome'[q] = outcome[q] /\ joined'[q] = joined[q]
          /\ sized' = sized /\ BroadcastAt' = BroadcastAt
        BY <1>1 DEF OthersStay, input, BroadcastAt, Current
    <2>2. \A b : Left(q, b)' <=> Left(q, b)
        BY <2>1 DEF Left
    <2>3. \A b : Ended(q, b)' <=> Ended(q, b)
        BY <2>1 DEF Ended
    <2>4. \A b : Due(q, b)' <=> Due(q, b)
        BY <2>1, <2>3 DEF Due
    <2>5. AllDue(q) => AllDue(q)'
        BY <2>1 DEF AllDue, Due, Ended
    <2>. QED
        BY <2>2, <2>3, <2>4, <2>5
<1>2. ASSUME NEW q \in Group, q # r
      PROVE  \A a : Skipped(q, a)' <=> Skipped(q, a)
    BY <1>1, <1>2 DEF Skipped
<1>3. OutcomesOfEnded'
    BY <1>1 DEF Order, OutcomesOfEnded, OthersStay, Calls
<1>4. JoinedAreDue' /\ JoinedOnce'
    <2>1. JoinedAreDue'
        BY <1>1 DEF Order, JoinedAreDue
    <2>2. JoinedOnce'
        BY DEF Order, JoinedOnce, OthersStay
    <2>. QED
        BY <2>1, <2>2
<1>5. JoinedInOrder'
    BY <1>1, <1>2 DEF Order, JoinedInOrder, OthersStay, Calls
<1>. QED
    BY <1>1, <1>3, <1>4, <1>5 DEF Order, LeftStays

\* A call that ends: it has joined the broadcast, or it has thrown.
LEMMA EndKeepsOrder ==
    ASSUME Inv, Order, NEW r \in Group, at[r] \in {"calling", "cleanup"},
           NEW how \in {"returned", "thrown", "leaked"}, End(r, how),
           how = "returned" => step[r] > BroadcastAt,
           UNCHANGED <<input, step, call, joined>>
    PROVE  Order' /\ LeftStays
<1>1. PICK c \in Calls : c = call[r]
    BY Standing
<1>2. /\ at' = [at EXCEPT ![r] = "ready"]
      /\ outcome' = [outcome EXCEPT ![r][c] = how]
    BY <1>1 DEF End, Goto
<1>3. /\ at'[r] = "ready" /\ outcome'[r][c] = how
      /\ \A b \in Calls : b # c => outcome'[r][b] = outcome[r][b]
    BY <1>1, <1>2 DEF Inv, LoraTypeOK
<1>4. OthersStay(r)
    BY <1>2 DEF OthersStay, Inv, LoraTypeOK
<1>5. /\ \A b \in Calls : Ended(r, b) <=> b < c
      /\ \A b \in Calls : Ended(r, b)' <=> b <= c
      /\ \A b \in Calls : Due(r, b)' <=> b <= c
      /\ \A b \in Calls : Due(r, b) <=> b < c \/ (b = c /\ step[r] > BroadcastAt)
    BY <1>1, <1>3, Standing DEF Ended, Due
<1>6. ASSUME NEW b \in Calls
      PROVE  outcome'[r][b] # "none" => Ended(r, b)'
    BY <1>1, <1>3, <1>5, Standing DEF Order, OutcomesOfEnded
<1>7. AllDue(r)'
    <2>1. ASSUME NEW i \in DOMAIN joined[r]
          PROVE  joined[r][i] \in Calls /\ joined[r][i] <= c
        <3>1. PICK b \in Calls : b = joined[r][i]
            BY Standing
        <3>2. Due(r, b)
            BY <3>1 DEF Order, JoinedAreDue, AllDue
        <3>3. b \in Nat /\ c \in Nat
            BY Standing
        <3>. QED
            BY <1>5, <3>1, <3>2, <3>3
    <2>2. call'[r] = c
        BY <1>1
    <2>. QED
        BY <1>3, <2>1, <2>2, Standing DEF AllDue, Due, Ended
<1>8. ASSUME NEW b \in Calls, Left(r, b)
      PROVE  Left(r, b)'
    <2>1. b # c
        BY <1>5, <1>8, <1>1, Standing DEF Left, Thrown, Order, OutcomesOfEnded
    <2>. QED
        BY <1>3, <1>8, <2>1 DEF Left, input
<1>9. ASSUME NEW a \in Calls, ~ Skipped(r, a)'
      PROVE  /\ a \in DOMAIN joined'[r] <=> Due(r, a)'
             /\ a \in DOMAIN joined'[r] => joined'[r][a] = a
    <2>1. ~ Skipped(r, a)
        <3>1. ASSUME NEW b \in 1 .. a, Left(r, b)
              PROVE  Left(r, b)'
            BY <1>8, <3>1, LoraAssumption DEF Calls
        <3>. QED
            BY <1>9, <3>1 DEF Skipped
    <2>2. /\ a \in DOMAIN joined[r] <=> Due(r, a)
          /\ a \in DOMAIN joined[r] => joined[r][a] = a
        BY <2>1 DEF Order, JoinedInOrder
    <2>3. Due(r, a) <=> Due(r, a)'
        <3>1. CASE a = c /\ step[r] <= BroadcastAt
            <4>1. ~ Left(r, c)'
                BY <1>1, <1>9, <3>1, Standing DEF Skipped
            <4>2. ToSet(joined[r]) = {joined[r][i] : i \in DOMAIN joined[r]}
                BY DEF ToSet
            <4>3. c \notin ToSet(joined[r])
                BY <1>1, <1>5, <3>1, <4>2, StepAt, Standing
                DEF Order, JoinedAreDue, AllDue
            <4>4. outcome'[r][c] \in Thrown
                BY <1>3, <3>1, StepAt DEF Thrown
            <4>. QED
                BY <4>1, <4>3, <4>4 DEF Left, Thrown
        <3>2. CASE a # c \/ step[r] > BroadcastAt
            BY <1>1, <1>5, <3>2, Standing
        <3>. QED
            BY <3>1, <3>2, StepAt
    <2>. QED
        BY <2>2, <2>3
<1>10. \A i, j \in DOMAIN joined'[r] : joined'[r][i] = joined'[r][j] => i = j
    BY DEF Order, JoinedOnce
<1>. QED
    BY <1>4, <1>6, <1>7, <1>8, <1>9, <1>10, OrderOfOne

\* A call that cannot even start is left.
LEMMA RefusedKeepsOrder ==
    ASSUME Inv, Order, NEW r \in Group, Enter(r), UNCHANGED input,
           ~ ValidArguments(r)
    PROVE  Order' /\ LeftStays
<1>. DEFINE how == IF Current THEN "thrown" ELSE "returned"
<1>2. PICK c \in Calls : c = call[r] + 1
    BY Standing DEF Calls, Enter
<1>1. /\ call' = [call EXCEPT ![r] = c]
      /\ outcome' = [outcome EXCEPT ![r][c] = how]
      /\ UNCHANGED <<at, step, joined>> /\ at[r] = "ready" /\ call[r] < Adapters
    BY <1>2 DEF Enter, device
<1>3. /\ call'[r] = c /\ outcome'[r][c] = how
      /\ \A b \in Calls : b # c => outcome'[r][b] = outcome[r][b]
    BY <1>1, <1>2 DEF Inv, LoraTypeOK
<1>4. OthersStay(r)
    BY <1>1 DEF OthersStay, Inv, LoraTypeOK
<1>5. /\ \A b \in Calls : Ended(r, b) <=> b < c
      /\ \A b \in Calls : Ended(r, b)' <=> b <= c
      /\ \A b \in Calls : Due(r, b)' <=> b <= c
      /\ \A b \in Calls : Due(r, b) => b < c
    BY <1>1, <1>2, <1>3, Standing DEF Ended, Due
<1>6. ASSUME NEW b \in Calls
      PROVE  outcome'[r][b] # "none" => Ended(r, b)'
    BY <1>2, <1>3, <1>5, Standing DEF Order, OutcomesOfEnded
<1>7. AllDue(r)'
    <2>1. ASSUME NEW i \in DOMAIN joined[r]
          PROVE  joined[r][i] \in Calls /\ joined[r][i] <= c
        <3>1. PICK b \in Calls : b = joined[r][i]
            BY Standing
        <3>2. Due(r, b)
            BY <3>1 DEF Order, JoinedAreDue, AllDue
        <3>3. b \in Nat /\ c \in Nat
            BY Standing
        <3>. QED
            BY <1>5, <3>1, <3>2, <3>3
    <2>2. at'[r] \notin {"calling", "cleanup"} /\ joined' = joined
        BY <1>1
    <2>. QED
        BY <1>3, <2>1, <2>2, Standing DEF AllDue, Due, Ended
<1>8. ASSUME NEW b \in Calls, Left(r, b)
      PROVE  Left(r, b)'
    <2>1. b # c
        BY <1>5, <1>8, <1>2, Standing DEF Left, Thrown, Order, OutcomesOfEnded
    <2>. QED
        BY <1>1, <1>3, <1>8, <2>1 DEF Left, input
<1>9. ASSUME NEW a \in Calls, ~ Skipped(r, a)'
      PROVE  /\ a \in DOMAIN joined'[r] <=> Due(r, a)'
             /\ a \in DOMAIN joined'[r] => joined'[r][a] = a
    <2>1. ~ Skipped(r, a)
        <3>1. ASSUME NEW b \in 1 .. a, Left(r, b)
              PROVE  Left(r, b)'
            BY <1>8, <3>1, LoraAssumption DEF Calls
        <3>. QED
            BY <1>9, <3>1 DEF Skipped
    <2>2. /\ a \in DOMAIN joined[r] <=> Due(r, a)
          /\ a \in DOMAIN joined[r] => joined[r][a] = a
        BY <2>1 DEF Order, JoinedInOrder
    <2>3. Left(r, c)'
        <3>1. ToSet(joined[r]) = {joined[r][i] : i \in DOMAIN joined[r]}
            BY DEF ToSet
        <3>2. c \notin ToSet(joined[r])
            BY <1>2, <1>5, <3>1, Standing DEF Order, JoinedAreDue, AllDue
        <3>. QED
            BY <1>1, <1>3, <3>2 DEF Left, Thrown, ValidArguments, input
    <2>4. a < c
        BY <1>2, <1>9, <2>3, Standing DEF Skipped
    <2>5. Ended(r, a) /\ Due(r, a) /\ Due(r, a)'
        BY <1>2, <1>5, <2>4, Standing DEF Due
    <2>. QED
        BY <1>1, <2>2, <2>5
<1>10. \A i, j \in DOMAIN joined'[r] : joined'[r][i] = joined'[r][j] => i = j
    BY <1>1 DEF Order, JoinedOnce
<1>. QED
    BY <1>4, <1>6, <1>7, <1>8, <1>9, <1>10, OrderOfOne

\* A broadcast that is joined is the next, unless a call has been left.
LEMMA BroadcastKeepsOrder ==
    ASSUME Inv, Order, NEW r \in Group, Broadcast(r), UNCHANGED input
    PROVE  Order' /\ LeftStays
<1>0. PICK c \in Calls : c = call[r]
    BY CallingFacts DEF Broadcast
<1>k. PICK k : k = Len(joined[r]) + 1
    OBVIOUS
<1>1. c \in Calls /\ c = call[r] /\ at[r] = "calling" /\ step[r] = BroadcastAt
    BY <1>0, StepAt DEF Broadcast, At
<1>2. /\ joined' = [joined EXCEPT ![r] = Append(@, c)]
      /\ step' = [step EXCEPT ![r] = @ + 1]
      /\ UNCHANGED <<at, call, outcome>>
    BY <1>1 DEF Broadcast, Advance
<1>3. /\ DOMAIN joined[r] = 1 .. k - 1 /\ k \in Nat /\ k > 0
      /\ DOMAIN joined'[r] = 1 .. k /\ joined'[r][k] = c
      /\ \A i \in 1 .. k - 1 : joined'[r][i] = joined[r][i]
      /\ Len(joined[r]) = k - 1
    <2>1. joined'[r] = Append(joined[r], c)
        BY <1>2 DEF Inv, LoraTypeOK
    <2>. QED
        BY <1>1, <1>k, <2>1, Standing
<1>4. OthersStay(r)
    BY <1>2 DEF OthersStay, Inv, LoraTypeOK
<1>5. step'[r] > BroadcastAt' /\ ~ (step[r] > BroadcastAt)
    <2>1. BroadcastAt' = BroadcastAt
        BY DEF BroadcastAt, Current, input
    <2>2. step'[r] = step[r] + 1
        BY <1>2 DEF Inv
    <2>. QED
        BY <1>1, <2>1, <2>2, StepAt
<1>6. /\ \A b \in Calls : Ended(r, b) <=> b < c
      /\ \A b \in Calls : Ended(r, b)' <=> b < c
      /\ \A b \in Calls : Due(r, b)' <=> b <= c
      /\ \A b \in Calls : Due(r, b) <=> b < c
    BY <1>1, <1>2, <1>5, Standing DEF Ended, Due
<1>7. ASSUME NEW b \in Calls
      PROVE  outcome'[r][b] # "none" => Ended(r, b)'
    BY <1>2, <1>6 DEF Order, OutcomesOfEnded
<1>8. ASSUME NEW i \in 1 .. k - 1
      PROVE  joined[r][i] \in Calls /\ joined[r][i] < c
    BY <1>3, <1>6, Standing DEF Order, JoinedAreDue, AllDue
<1>9. AllDue(r)'
    <2>1. ASSUME NEW i \in DOMAIN joined'[r]
          PROVE  joined'[r][i] = c \/ joined'[r][i] < c
        <3>1. i = k \/ i \in 1 .. k - 1
            BY <1>3
        <3>. QED
            BY <1>3, <1>8, <3>1
    <2>2. call'[r] = c
        BY <1>1, <1>2
    <2>. QED
        BY <1>5, <2>1, <2>2 DEF AllDue, Due, Ended
<1>10. ASSUME NEW i \in DOMAIN joined'[r], NEW j \in DOMAIN joined'[r],
              joined'[r][i] = joined'[r][j]
       PROVE  i = j
    <2>1. (i = k \/ i \in 1 .. k - 1) /\ (j = k \/ j \in 1 .. k - 1)
        BY <1>3
    <2>2. c \in Nat
        BY <1>1, Standing
    <2>3. ASSUME NEW l \in 1 .. k - 1 PROVE joined'[r][l] # c
        <3>1. joined[r][l] \in Nat /\ joined[r][l] < c
            BY <1>8, Standing
        <3>. QED
            BY <1>3, <2>2, <3>1
    <2>. QED
        BY <1>3, <1>10, <2>1, <2>3 DEF Order, JoinedOnce
<1>11. ASSUME NEW b \in Calls, Left(r, b)
       PROVE  Left(r, b)'
    <2>1. b # c
        BY <1>1, <1>6, <1>11, Standing DEF Left, Thrown, Order, OutcomesOfEnded
    <2>2. ToSet(joined[r]) = {joined[r][i] : i \in DOMAIN joined[r]}
          /\ ToSet(joined[r])' = {joined'[r][i] : i \in DOMAIN joined'[r]}
        BY DEF ToSet
    <2>3. \A i \in DOMAIN joined'[r] : i = k \/ i \in 1 .. k - 1
        BY <1>3
    <2>4. b \notin ToSet(joined[r])'
        BY <1>3, <1>11, <2>1, <2>2, <2>3 DEF Left
    <2>. QED
        BY <1>2, <1>11, <2>4 DEF Left, input
<1>12. ASSUME NEW a \in Calls, ~ Skipped(r, a)'
       PROVE  /\ a \in DOMAIN joined'[r] <=> Due(r, a)'
              /\ a \in DOMAIN joined'[r] => joined'[r][a] = a
    <2>1. ~ Skipped(r, a)
        <3>1. ASSUME NEW b \in 1 .. a, Left(r, b)
              PROVE  Left(r, b)'
            BY <1>11, <3>1, LoraAssumption DEF Calls
        <3>. QED
            BY <1>12, <3>1 DEF Skipped
    <2>2. ASSUME NEW b \in Calls, b <= a
          PROVE  /\ b \in DOMAIN joined[r] <=> b < c
                 /\ b \in DOMAIN joined[r] => joined[r][b] = b
        <3>1. ~ Skipped(r, b)
            BY <2>1, <2>2, SkippedMore
        <3>. QED
            BY <1>6, <3>1 DEF Order, JoinedInOrder
    <2>3. a \in Nat /\ a > 0 /\ c \in Nat /\ c > 0
        BY <1>1, Standing
    <2>4. CASE a < c
        <3>1. a \in 1 .. k - 1 /\ joined[r][a] = a
            BY <1>3, <2>2, <2>3, <2>4
        <3>. QED
            BY <1>3, <1>6, <2>3, <2>4, <3>1
    <2>5. CASE c <= a
        <3>1. c \notin 1 .. k - 1
            BY <1>1, <1>3, <2>2, <2>3, <2>5
        <3>2. c = 1 \/ c - 1 \in 1 .. k - 1
            <4>1. c # 1 => c - 1 \in Calls /\ c - 1 <= a /\ c - 1 < c
                BY <1>1, <2>3, <2>5, LoraAssumption DEF Calls
            <4>. QED
                BY <1>3, <2>2, <4>1
        <3>3. k = c
            BY <1>3, <2>3, <3>1, <3>2
        <3>. QED
            BY <1>3, <1>6, <2>3, <2>5, <3>3
    <2>. QED
        BY <2>3, <2>4, <2>5
<1>. QED
    BY <1>4, <1>7, <1>9, <1>10, <1>11, <1>12, OrderOfOne

\* Every step keeps the order.
LEMMA HostKeepsOrder ==
    ASSUME Inv, Order, NEW r \in Group, HostStep(r) \/ Failure(r)
    PROVE  Order' /\ LeftStays
<1>. DEFINE Same == \A q \in Group : \A b \in Calls :
                (Ended(q, b)' <=> Ended(q, b)) /\ (Due(q, b)' <=> Due(q, b))
<1>0. UNCHANGED input
    BY DEF HostStep, Failure
<1>1. BroadcastAt' = BroadcastAt
    BY <1>0 DEF BroadcastAt, Current, input
<1>2. CASE CreateStream(r) \/ DestroyStream(r)
    <2>1. UNCHANGED <<step, call, outcome, joined>>
        BY <1>2 DEF CreateStream, DestroyStream, device
    <2>2. \A q \in Group : at'[q] \in {"calling", "cleanup"}
                                <=> at[q] \in {"calling", "cleanup"}
        BY <1>2 DEF CreateStream, DestroyStream, Goto, Inv, LoraTypeOK
    <2>3. Same
        BY <1>1, <2>1, <2>2 DEF Ended, Due
    <2>. QED
        BY <1>0, <2>1, <2>3, SameOrder
<1>3. CASE Malloc(r) \/ Copy(r) \/ Synchronize(r) \/ Free(r)
    <2>1. /\ UNCHANGED <<at, call, outcome, joined>>
          /\ step' = [step EXCEPT ![r] = @ + 1]
        BY <1>3 DEF Malloc, Copy, Synchronize, Free, Advance, device
    <2>2. \A q \in Group : step'[q] > BroadcastAt <=> step[q] > BroadcastAt
        <3>1. step[r] # BroadcastAt
            BY <1>3, StepAt DEF Malloc, Copy, Synchronize, Free
        <3>2. step'[r] > BroadcastAt <=> step[r] > BroadcastAt
            BY <2>1, <3>1, StepAt DEF Inv
        <3>. QED
            BY <2>1, <3>2 DEF Inv
    <2>3. Same
        BY <1>1, <2>1, <2>2 DEF Ended, Due
    <2>. QED
        BY <1>0, <2>1, <2>3, SameOrder
<1>4. CASE Enter(r)
    <2>1. CASE ValidArguments(r)
        <3>1. /\ UNCHANGED <<outcome, joined>>
              /\ call' = [call EXCEPT ![r] = @ + 1]
              /\ step' = [step EXCEPT ![r] = 1]
              /\ at' = [at EXCEPT ![r] = "calling"] /\ at[r] = "ready"
            BY <1>4, <2>1 DEF Enter, Goto, device
        <3>2. call'[r] = call[r] + 1 /\ at'[r] = "calling" /\ step'[r] = 1
            BY <3>1 DEF Inv, LoraTypeOK
        <3>3. \A b \in Calls : (Ended(r, b)' <=> Ended(r, b))
                                /\ (Due(r, b)' <=> Due(r, b))
            BY <1>1, <3>1, <3>2, Standing, StepAt DEF Ended, Due
        <3>4. Same
            BY <1>1, <3>1, <3>3 DEF Ended, Due, Inv, LoraTypeOK
        <3>. QED
            BY <1>0, <3>1, <3>4, SameOrder
    <2>2. CASE ~ ValidArguments(r)
        BY <1>0, <1>4, <2>2, RefusedKeepsOrder
    <2>. QED
        BY <2>1, <2>2
<1>5. CASE Broadcast(r)
    BY <1>0, <1>5, BroadcastKeepsOrder
<1>6. CASE Return(r)
    <2>1. step[r] > BroadcastAt
        BY <1>6, StepAt DEF Return
    <2>. QED
        BY <1>0, <1>6, <2>1, EndKeepsOrder DEF Return, device
<1>7. CASE Cleanup(r)
    BY <1>0, <1>7, EndKeepsOrder DEF Cleanup
<1>8. CASE CallFails(r)
    <2>1. at[r] = "calling" /\ UNCHANGED <<step, call, joined>>
        BY <1>8 DEF CallFails, At, device
    <2>2. CASE Current
        <3>1. at' = [at EXCEPT ![r] = "cleanup"] /\ UNCHANGED outcome
            BY <1>8, <2>2 DEF CallFails, Goto
        <3>2. \A q \in Group : at'[q] \in {"calling", "cleanup"}
                                <=> at[q] \in {"calling", "cleanup"}
            BY <2>1, <3>1 DEF Inv, LoraTypeOK
        <3>3. Same
            BY <1>1, <2>1, <3>2 DEF Ended, Due
        <3>. QED
            BY <1>0, <2>1, <3>1, <3>3, SameOrder
    <2>3. CASE ~ Current
        <3>. DEFINE how == IF At(r, "free") THEN "returned" ELSE "thrown"
        <3>1. End(r, how) /\ how \in {"returned", "thrown"}
            BY <1>8, <2>3 DEF CallFails
        <3>2. how = "returned" => step[r] > BroadcastAt
            BY StepAt
        <3>. HIDE DEF how
        <3>. QED
            BY <1>0, <2>1, <3>1, <3>2, EndKeepsOrder
    <2>. QED
        BY <2>2, <2>3
<1>9. CASE CleanupFails(r)
    BY <1>0, <1>9, EndKeepsOrder DEF CleanupFails, device
<1>. QED
    BY <1>2, <1>3, <1>4, <1>5, <1>6, <1>7, <1>8, <1>9 DEF HostStep, Failure

LEMMA DeviceKeepsOrder ==
    ASSUME Inv, Order, UNCHANGED <<input, host, joined>>
    PROVE  Order' /\ LeftStays
<1>1. BroadcastAt' = BroadcastAt
    BY DEF BroadcastAt, Current, input
<1>. QED
    BY <1>1, SameOrder DEF host, Ended, Due
-----------------------------------------------------------------------------
(* Streams. *)

\* What is in a stream s, and what is there before its j-th operation.
Queued(s, op, a) == \E i \in DOMAIN s : s[i].op = op /\ s[i].call = a

Before(s, j, op, a) ==
    \E i \in DOMAIN s : i < j /\ s[i].op = op /\ s[i].call = a

\* A queued broadcast is the one that was joined, the call at hand has
\* nothing in the stream before its weights are copied in, and they are
\* copied in first.
InOrder(r) ==
    \A i \in DOMAIN stream[r] :
        /\ stream[r][i].op = "broadcast" =>
            /\ stream[r][i].n \in DOMAIN joined[r]
            /\ joined[r][stream[r][i].n] = stream[r][i].call
        /\ stream[r][i].call <= call[r]
        /\ at[r] = "calling" /\ step[r] <= 2 => stream[r][i].call # call[r]
        /\ \A j \in DOMAIN stream[r] :
            i < j /\ stream[r][i].call = stream[r][j].call =>
                stream[r][j].op # "copy_in"

\* Root's next broadcasts, in order, are those it has not sent yet.
Sends(i) == i \in DOMAIN stream[Root] /\ stream[Root][i].op = "broadcast"

RootsNumbers ==
    /\ Len(sent) <= Len(joined[Root])
    /\ \A i : Sends(i) => stream[Root][i].n > Len(sent)
    /\ \A i, j : Sends(i) /\ Sends(j) /\ i < j =>
            stream[Root][i].n < stream[Root][j].n
    /\ \A m \in Len(sent) + 1 .. Len(joined[Root]) :
            \E i : Sends(i) /\ stream[Root][i].n = m

\* The weights of an adapter, if nobody has left a call.
Right(r, a, value) == value = a \/ Skipped(r, a) \/ Skipped(Root, a)

\* Root's weights stay and are what is in its memory when that is used.
RootsData ==
    /\ \A a \in Calls : weights[Root][a] = a
    /\ \A m \in DOMAIN sent : sent[m] = joined[Root][m]
    /\ \A j \in DOMAIN stream[Root] :
        stream[Root][j].op # "copy_in" =>
            \/ Before(stream[Root], j, "copy_in", stream[Root][j].call)
            \/ buffer[Root][stream[Root][j].call] = stream[Root][j].call

\* What is copied out has been received, or will have been.
Received(r) ==
    \A j \in DOMAIN stream[r] : stream[r][j].op = "copy_out" =>
        \/ Before(stream[r], j, "broadcast", stream[r][j].call)
        \/ /\ Right(r, stream[r][j].call, buffer[r][stream[r][j].call])
           /\ ~ Before(stream[r], j, "copy_in", stream[r][j].call)

\* How far the weights of the call at hand have come.
OnTheWay(r) ==
    at[r] = "calling" =>
        /\ r = Root /\ step[r] > 2 /\ step[r] <= CopyOutAt =>
            Queued(stream[r], "copy_in", call[r]) \/ buffer[r][call[r]] = call[r]
        /\ step[r] > BroadcastAt /\ step[r] <= CopyOutAt =>
            \/ Queued(stream[r], "broadcast", call[r])
            \/ /\ Right(r, call[r], buffer[r][call[r]])
               /\ ~ Queued(stream[r], "copy_in", call[r])
        /\ step[r] > CopyOutAt =>
            \/ Queued(stream[r], "copy_out", call[r])
            \/ Right(r, call[r], weights[r][call[r]])
        /\ step[r] >= Len(Program) => stream[r] = <<>>

Succeeded(r) ==
    \A a \in Calls :
        outcome[r][a] = "returned" /\ (Current \/ r \in sized) =>
            Right(r, a, weights[r][a])

Flow ==
    /\ RootsNumbers /\ RootsData
    /\ \A r \in Group : InOrder(r) /\ Received(r) /\ OnTheWay(r) /\ Succeeded(r)
-----------------------------------------------------------------------------
LEMMA AppendFacts ==
    ASSUME NEW s \in Seq(Operations), NEW e \in Operations, NEW t, NEW k,
           t = Append(s, e), k = Len(s) + 1
    PROVE  /\ k \in Nat /\ k > 0 /\ DOMAIN s = 1 .. (k - 1) /\ DOMAIN t = 1 .. k
           /\ t[k] = e /\ \A i \in 1 .. (k - 1) : t[i] = s[i]
           /\ \A op, a : Queued(s, op, a) => Queued(t, op, a)
           /\ \A op, a : \A j \in 1 .. (k - 1) :
                Before(t, j, op, a) <=> Before(s, j, op, a)
           /\ Queued(t, e.op, e.call)
           /\ t # <<>>
<1>. HIDE DEF Operations
<1>1. /\ k \in Nat /\ k > 0 /\ DOMAIN s = 1 .. (k - 1) /\ DOMAIN t = 1 .. k
      /\ t[k] = e /\ \A i \in 1 .. (k - 1) : t[i] = s[i]
    OBVIOUS
<1>2. \A i \in 1 .. k : i = k \/ i \in 1 .. (k - 1)
    BY <1>1
<1>3. \A i \in 1 .. (k - 1) : i \in 1 .. k /\ i < k
    BY <1>1
<1>4. \A op, a : Queued(s, op, a) => Queued(t, op, a)
    BY <1>1, <1>3 DEF Queued
<1>6. \A op, a : \A j \in 1 .. (k - 1) : Before(t, j, op, a) <=> Before(s, j, op, a)
    <2>1. \A j \in 1 .. (k - 1) : ~ (k < j)
        BY <1>1
    <2>. QED
        BY <1>1, <1>2, <1>3, <2>1 DEF Before
<1>7. Queued(t, e.op, e.call)
    <2>1. k \in DOMAIN t
        BY <1>1
    <2>. QED
        BY <1>1, <2>1 DEF Queued
<1>8. t # <<>>
    OBVIOUS
<1>. QED
    BY <1>1, <1>4, <1>6, <1>7, <1>8

LEMMA TailFacts ==
    ASSUME NEW s \in Seq(Operations), NEW t, NEW h, NEW k,
           s # <<>>, t = Tail(s), h = Head(s), k = Len(s)
    PROVE  /\ k \in Nat /\ k > 0 /\ DOMAIN s = 1 .. k /\ DOMAIN t = 1 .. (k - 1)
           /\ h = s[1] /\ h \in Operations
           /\ \A i \in 1 .. (k - 1) : t[i] = s[i + 1] /\ i + 1 \in DOMAIN s
<1>. HIDE DEF Operations
<1>1. /\ k \in Nat /\ k > 0 /\ DOMAIN s = 1 .. k /\ DOMAIN t = 1 .. (k - 1)
      /\ h = s[1] /\ h \in Operations
      /\ \A i \in 1 .. (k - 1) : t[i] = s[i + 1]
    OBVIOUS
<1>2. \A i \in 1 .. (k - 1) : i + 1 \in 1 .. k
    BY <1>1
<1>. QED
    BY <1>1, <1>2

\* A value that is right stays right.
LEMMA RightStays ==
    ASSUME LeftStays, Root \in Group, NEW r \in Group, NEW a \in Calls,
           NEW value, Right(r, a, value)
    PROVE  Right(r, a, value)'
BY SkippedStays DEF Right

\* What a step of rank r or of its device leaves as it was.
Elsewhere(r) ==
    /\ OthersStay(r)
    /\ r # Root => sent' = sent
    /\ \A q \in Group : q # r =>
        /\ stream'[q] = stream[q] /\ buffer'[q] = buffer[q]
        /\ weights'[q] = weights[q]

\* The operations in a stream.
LEMMA Streaming ==
    ASSUME Inv, NEW r \in Group
    PROVE  /\ stream[r] \in Seq(Operations)
           /\ Len(stream[r]) \in Nat /\ DOMAIN stream[r] = 1 .. Len(stream[r])
           /\ \A i \in DOMAIN stream[r] :
                /\ stream[r][i] \in Operations
                /\ stream[r][i].op \in {"copy_in", "broadcast", "copy_out"}
                /\ stream[r][i].call \in Calls
                /\ stream[r][i].n \in Nat \ {0}
<1>1. stream[r] \in Seq(Operations)
    BY DEF Inv, LoraTypeOK
<1>2. /\ Len(stream[r]) \in Nat /\ DOMAIN stream[r] = 1 .. Len(stream[r])
      /\ \A i \in DOMAIN stream[r] : stream[r][i] \in Operations
    <2>. HIDE DEF Operations
    <2>. QED
        BY <1>1
<1>. QED
    BY <1>1, <1>2 DEF Operations

LEMMA InputConstants ==
    ASSUME UNCHANGED input
    PROVE  /\ Program' = Program /\ (Current' <=> Current) /\ sized' = sized
           /\ BroadcastAt' = BroadcastAt /\ CopyOutAt' = CopyOutAt
BY DEF input, Program, Current, BroadcastAt, CopyOutAt

\* Whose outcomes and weights stay, has what it had.
LEMMA SucceededStays ==
    ASSUME LeftStays, UNCHANGED input, NEW r \in Group, Succeeded(r),
           outcome'[r] = outcome[r], weights'[r] = weights[r]
    PROVE  Succeeded(r)'
<1>1. \A a \in Calls : Right(r, a, weights[r][a]) => Right(r, a, weights[r][a])'
    BY SkippedStays, LoraAssumption DEF Right
<1>. QED
    BY <1>1, InputConstants DEF Succeeded, Calls

LEMMA ReceivedStays ==
    ASSUME Inv, LeftStays, NEW r \in Group, Received(r),
           stream'[r] = stream[r],
           \A j \in DOMAIN stream[r] :
                buffer'[r][stream[r][j].call] = buffer[r][stream[r][j].call]
    PROVE  Received(r)'
<1>. SUFFICES ASSUME NEW j \in DOMAIN stream[r], stream[r][j].op = "copy_out"
              PROVE  \/ Before(stream[r], j, "broadcast", stream[r][j].call)
                     \/ /\ Right(r, stream[r][j].call,
                                 buffer[r][stream[r][j].call])'
                        /\ ~ Before(stream[r], j, "copy_in", stream[r][j].call)
    BY DEF Received, Before
<1>1. PICK a \in Calls : a = stream[r][j].call
    BY Streaming
<1>2. PICK value : value = buffer[r][a]
    OBVIOUS
<1>3. Right(r, a, value) => Right(r, a, value)'
    BY RightStays, LoraAssumption
<1>4. Right(r, a, value)' <=> Right(r, stream[r][j].call,
                                    buffer[r][stream[r][j].call])'
    BY <1>1, <1>2 DEF Right
<1>. QED
    BY <1>1, <1>2, <1>3, <1>4 DEF Received

\* The other ranks.
LEMMA OthersFlow ==
    ASSUME Inv, LeftStays, NEW r \in Group, Elsewhere(r),
           NEW q \in Group, q # r,
           InOrder(q), Received(q), OnTheWay(q), Succeeded(q)
    PROVE  InOrder(q)' /\ Received(q)' /\ OnTheWay(q)' /\ Succeeded(q)'
<1>1. /\ at'[q] = at[q] /\ step'[q] = step[q] /\ call'[q] = call[q]
      /\ outcome'[q] = outcome[q] /\ joined'[q] = joined[q]
      /\ stream'[q] = stream[q] /\ buffer'[q] = buffer[q]
      /\ weights'[q] = weights[q] /\ UNCHANGED input
    BY DEF Elsewhere, OthersStay
<1>2. InOrder(q)'
    BY <1>1 DEF InOrder
<1>3. Received(q)'
    BY <1>1, ReceivedStays
<1>4. Succeeded(q)'
    BY <1>1, SucceededStays
<1>5. OnTheWay(q)'
    <2>. SUFFICES ASSUME at[q] = "calling" PROVE OnTheWay(q)'
        BY <1>1 DEF OnTheWay
    <2>1. PICK c \in Calls : c = call[q]
        BY Standing
    <2>2. PICK b, w : b = buffer[q][c] /\ w = weights[q][c]
        OBVIOUS
    <2>3. /\ Right(q, c, b) => Right(q, c, b)'
          /\ Right(q, c, w) => Right(q, c, w)'
        BY RightStays, LoraAssumption
    <2>4. /\ Right(q, c, b)' <=> Right(q, call[q], buffer[q][call[q]])'
          /\ Right(q, c, w)' <=> Right(q, call[q], weights[q][call[q]])'
        BY <1>1, <2>1, <2>2 DEF Right
    <2>5. /\ Right(q, c, b) <=> Right(q, call[q], buffer[q][call[q]])
          /\ Right(q, c, w) <=> Right(q, call[q], weights[q][call[q]])
        BY <2>1, <2>2
    <2>. HIDE DEF Right
    <2>. QED
        BY <1>1, <2>3, <2>4, <2>5, InputConstants DEF OnTheWay, Queued
<1>. QED
    BY <1>2, <1>3, <1>4, <1>5

LEMMA FlowOfOne ==
    ASSUME Inv, Flow, LeftStays, NEW r \in Group, Elsewhere(r),
           InOrder(r)', Received(r)', OnTheWay(r)', Succeeded(r)',
           r = Root => RootsNumbers' /\ RootsData'
    PROVE  Flow'
<1>1. ASSUME NEW q \in Group, q # r
      PROVE  InOrder(q)' /\ Received(q)' /\ OnTheWay(q)' /\ Succeeded(q)'
    BY <1>1, OthersFlow DEF Flow
<1>2. CASE r # Root
    <2>1. /\ sent' = sent /\ stream'[Root] = stream[Root]
          /\ joined'[Root] = joined[Root] /\ buffer'[Root] = buffer[Root]
          /\ weights'[Root] = weights[Root]
        BY <1>2, LoraAssumption DEF Elsewhere, OthersStay
    <2>2. RootsNumbers'
        BY <2>1 DEF Flow, RootsNumbers, Sends
    <2>3. RootsData'
        BY <2>1 DEF Flow, RootsData, Before, Calls
    <2>. QED
        BY <1>1, <2>2, <2>3 DEF Flow
<1>. QED
    BY <1>1, <1>2 DEF Flow

\* A step of the host that puts nothing in the stream.
LEMMA QuietKeepsFlow ==
    ASSUME Inv, Flow, LeftStays, NEW r \in Group, OthersStay(r),
           UNCHANGED <<stream, joined, weights, sent>>,
           \A q \in Group : q # r => buffer'[q] = buffer[q],
           \A j \in DOMAIN stream[r] :
                buffer'[r][stream[r][j].call] = buffer[r][stream[r][j].call],
           call'[r] \in {call[r], call[r] + 1},
           at'[r] = "calling" /\ step'[r] <= 2 =>
                \/ call'[r] = call[r] + 1
                \/ at[r] = "calling" /\ step[r] <= 2,
           OnTheWay(r)', Succeeded(r)'
    PROVE  Flow'
<1>1. Elsewhere(r)
    BY DEF Elsewhere
<1>2. InOrder(r)'
    <2>1. ASSUME NEW i \in DOMAIN stream[r]
          PROVE  /\ stream[r][i].call <= call'[r]
                 /\ at'[r] = "calling" /\ step'[r] <= 2 =>
                        stream[r][i].call # call'[r]
        <3>1. stream[r][i].call \in Nat /\ call[r] \in Nat
            BY Streaming, Standing
        <3>2. /\ stream[r][i].call <= call[r]
              /\ at[r] = "calling" /\ step[r] <= 2 => stream[r][i].call # call[r]
            BY DEF Flow, InOrder
        <3>. QED
            BY <3>1, <3>2
    <2>. QED
        BY <2>1 DEF Flow, InOrder
<1>3. Received(r)'
    BY ReceivedStays DEF Flow
<1>4. RootsNumbers'
    BY DEF Flow, RootsNumbers, Sends
<1>5. ASSUME r = Root PROVE RootsData'
    BY <1>5 DEF Flow, RootsData, Before, Calls
<1>. QED
    BY <1>1, <1>2, <1>3, <1>4, <1>5, FlowOfOne

\* Steps between calls, or out of one that does not return.
LEMMA OutsideKeepsFlow ==
    ASSUME Inv, Flow, LeftStays, NEW r \in Group, UNCHANGED input,
           \/ CreateStream(r) \/ DestroyStream(r) \/ Cleanup(r)
           \/ CleanupFails(r)
           \/ CallFails(r) /\ Current
    PROVE  Flow'
<1>1. /\ UNCHANGED <<call, step, stream, joined, weights, sent>>
      /\ at'[r] # "calling"
      /\ \A q \in Group : q # r =>
            /\ at'[q] = at[q] /\ outcome'[q] = outcome[q]
            /\ buffer'[q] = buffer[q]
    BY DEF CreateStream, DestroyStream, Cleanup, CleanupFails, CallFails, End, Goto,
           SetBuffer, device, Inv, LoraTypeOK
<1>2. OthersStay(r)
    BY <1>1 DEF OthersStay
<1>3. ASSUME NEW j \in DOMAIN stream[r]
      PROVE  buffer'[r][stream[r][j].call] = buffer[r][stream[r][j].call]
    <2>1. CASE Cleanup(r)
        <3>1. buffer[r][call[r]] = None
            BY <2>1, Streaming DEF Cleanup
        <3>2. buffer' = [buffer EXCEPT ![r][call[r]] = None]
            BY <2>1 DEF Cleanup, SetBuffer
        <3>3. buffer \in [Group -> [Calls -> {None} \cup Values]]
              /\ stream[r][j].call \in Calls
            BY Streaming DEF Inv, LoraTypeOK
        <3>. QED
            BY <3>1, <3>2, <3>3
    <2>2. CASE ~ Cleanup(r)
        BY <2>2 DEF CreateStream, DestroyStream, CleanupFails, CallFails, device
    <2>. QED
        BY <2>1, <2>2
<1>4. OnTheWay(r)'
    BY <1>1 DEF OnTheWay
<1>5. Succeeded(r)'
    <2>1. CASE Cleanup(r) \/ CleanupFails(r)
        <3>1. PICK c \in Calls : c = call[r]
            BY <2>1, Standing DEF Cleanup, CleanupFails
        <3>2. PICK how \in Thrown : outcome' = [outcome EXCEPT ![r][c] = how]
            BY <2>1, <3>1 DEF Cleanup, CleanupFails, End, Thrown
        <3>3. \A a \in Calls : outcome'[r][a] = "returned" =>
                outcome[r][a] = "returned"
            BY <3>1, <3>2 DEF Inv, LoraTypeOK, Thrown
        <3>4. \A a \in Calls :
                Right(r, a, weights[r][a]) => Right(r, a, weights[r][a])'
            BY <1>1, SkippedStays, LoraAssumption DEF Right
        <3>. QED
            BY <3>3, <3>4, InputConstants DEF Flow, Succeeded, Calls
    <2>2. CASE ~ (Cleanup(r) \/ CleanupFails(r))
        <3>1. outcome' = outcome /\ weights' = weights
            BY <2>2 DEF CreateStream, DestroyStream, CallFails, device
        <3>. QED
            BY <3>1, SucceededStays DEF Flow
    <2>. QED
        BY <2>1, <2>2
<1>. QED
    BY <1>1, <1>2, <1>3, <1>4, <1>5, QuietKeepsFlow

\* A call that ends: when it returns, the weights have arrived.
LEMMA EndKeepsFlow ==
    ASSUME Inv, Flow, LeftStays, NEW r \in Group, UNCHANGED input,
           at[r] = "calling", NEW how \in {"returned", "thrown"}, End(r, how),
           how = "returned" => step[r] >= Len(Program),
           UNCHANGED <<step, call, wrapper, device>>
    PROVE  Flow'
<1>1. PICK c \in Calls : c = call[r]
    BY Standing
<1>2. /\ at' = [at EXCEPT ![r] = "ready"]
      /\ outcome' = [outcome EXCEPT ![r][c] = how]
      /\ UNCHANGED <<stream, joined, weights, sent, buffer>>
    BY <1>1 DEF End, Goto, device
<1>3. OthersStay(r)
    BY <1>2 DEF OthersStay, Inv, LoraTypeOK
<1>4. OnTheWay(r)'
    <2>1. at'[r] # "calling"
        BY <1>2 DEF Inv, LoraTypeOK
    <2>. QED
        BY <2>1 DEF OnTheWay
<1>5. ASSUME how = "returned" PROVE Right(r, c, weights[r][c])
    <2>1. step[r] > CopyOutAt /\ step[r] >= Len(Program)
        BY <1>5, StepAt
    <2>2. OnTheWay(r)
        BY DEF Flow
    <2>3. stream[r] = <<>>
        BY <2>1, <2>2 DEF OnTheWay
    <2>4. ~ Queued(stream[r], "copy_out", c)
        BY <2>3 DEF Queued
    <2>. QED
        BY <1>1, <2>1, <2>2, <2>4 DEF OnTheWay
<1>6. Succeeded(r)'
    <2>1. \A a \in Calls :
            Right(r, a, weights[r][a]) => Right(r, a, weights[r][a])'
        BY <1>2, SkippedStays, LoraAssumption DEF Right
    <2>2. outcome'[r][c] = how
          /\ \A a \in Calls : a # c => outcome'[r][a] = outcome[r][a]
        BY <1>2 DEF Inv, LoraTypeOK
    <2>3. ASSUME NEW a \in Calls, outcome'[r][a] = "returned",
                 Current \/ r \in sized
          PROVE  Right(r, a, weights[r][a])
        <3>1. CASE a = c
            BY <1>5, <2>2, <2>3, <3>1
        <3>2. CASE a # c
            BY <2>2, <2>3, <3>2 DEF Flow, Succeeded
        <3>. QED
            BY <3>1, <3>2
    <2>. QED
        BY <2>1, <2>3, InputConstants DEF Succeeded, Calls
<1>. QED
    BY <1>2, <1>3, <1>4, <1>6, QuietKeepsFlow DEF Inv, LoraTypeOK

\* Enter
LEMMA EnterKeepsFlow ==
    ASSUME Inv, Flow, LeftStays, NEW r \in Group, Enter(r), UNCHANGED input
    PROVE  Flow'
<1>1. /\ UNCHANGED <<stream, joined, weights, sent, buffer>>
      /\ call' = [call EXCEPT ![r] = @ + 1]
      /\ at[r] = "ready"
    BY DEF Enter, device
<1>2. call'[r] = call[r] + 1
    BY <1>1 DEF Inv, LoraTypeOK
<1>3. OthersStay(r)
    BY <1>1 DEF OthersStay, Enter, Goto, Inv, LoraTypeOK
<1>4. OnTheWay(r)'
    <2>1. CASE ValidArguments(r)
        <3>1. step'[r] = 1
            BY <2>1 DEF Enter, Inv
        <3>. HIDE DEF Enter
        <3>2. /\ ~ (1 > 2) /\ ~ (1 > BroadcastAt) /\ ~ (1 > CopyOutAt)
              /\ ~ (1 >= Len(Program))
            BY StepAt
        <3>. QED
            BY <3>1, <3>2, InputConstants DEF OnTheWay
    <2>2. CASE ~ ValidArguments(r)
        BY <1>1, <2>2 DEF Enter, OnTheWay
    <2>. QED
        BY <2>1, <2>2
<1>5. Succeeded(r)'
    <2>1. CASE ValidArguments(r)
        <3>1. outcome' = outcome
            BY <2>1 DEF Enter
        <3>. QED
            BY <1>1, <3>1, SucceededStays DEF Flow
    <2>2. CASE ~ ValidArguments(r)
        <3>1. PICK c \in Calls : c = call[r] + 1
            BY Standing DEF Calls, Enter
        <3>2. outcome' = [outcome EXCEPT
                    ![r][c] = IF Current THEN "thrown" ELSE "returned"]
            BY <2>2, <3>1 DEF Enter
        <3>3. /\ outcome'[r][c] = IF Current THEN "thrown" ELSE "returned"
              /\ \A a \in Calls : a # c => outcome'[r][a] = outcome[r][a]
            BY <3>2 DEF Inv, LoraTypeOK
        <3>4. r \notin sized
            BY <2>2 DEF ValidArguments
        <3>5. \A a \in Calls :
                Right(r, a, weights[r][a]) => Right(r, a, weights[r][a])'
            BY <1>1, SkippedStays, LoraAssumption DEF Right
        <3>. QED
            BY <3>3, <3>4, <3>5, InputConstants DEF Flow, Succeeded, Calls
    <2>. QED
        BY <2>1, <2>2
<1>. QED
    BY <1>1, <1>2, <1>3, <1>4, <1>5, QuietKeepsFlow

\* Malloc, Synchronize and Free
LEMMA WaitingKeepsFlow ==
    ASSUME Inv, Flow, LeftStays, NEW r \in Group, UNCHANGED input,
           Malloc(r) \/ Synchronize(r) \/ Free(r)
    PROVE  Flow'
<1>1. PICK c \in Calls : c = call[r]
    BY CallingFacts DEF Malloc, Synchronize, Free
<1>2. /\ UNCHANGED <<at, call, outcome, stream, joined, weights, sent>>
      /\ step' = [step EXCEPT ![r] = @ + 1] /\ at[r] = "calling"
      /\ step'[r] = step[r] + 1
    BY DEF Malloc, Synchronize, Free, Advance, At, device, Inv
<1>3. OthersStay(r)
    BY <1>2 DEF OthersStay, Inv
<1>4. /\ \A q \in Group : q # r => buffer'[q] = buffer[q]
      /\ \A a \in Calls : a # c => buffer'[r][a] = buffer[r][a]
    BY <1>1 DEF Malloc, Synchronize, Free, SetBuffer, device, Inv, LoraTypeOK
<1>5. ASSUME NEW j \in DOMAIN stream[r]
      PROVE  buffer'[r][stream[r][j].call] = buffer[r][stream[r][j].call]
    <2>1. Malloc(r)
        BY Streaming DEF Synchronize, Free
    <2>2. step[r] = 1
        BY <2>1, StepAt DEF Malloc
    <2>3. stream[r][j].call # c /\ stream[r][j].call \in Calls
        BY <1>1, <1>2, <2>2, Streaming DEF Flow, InOrder
    <2>. QED
        BY <1>4, <2>3
<1>6. Succeeded(r)'
    BY <1>2, SucceededStays DEF Flow
<1>7. OnTheWay(r)
    BY DEF Flow
<1>8. ASSUME step'[r] <= 2 PROVE step[r] <= 2
    BY <1>2, <1>8, StepAt
<1>9. OnTheWay(r)'
    <2>1. CASE Malloc(r)
        <3>1. step'[r] = 2
            BY <1>2, <2>1, StepAt DEF Malloc
        <3>2. /\ ~ (2 > 2) /\ ~ (2 > BroadcastAt) /\ ~ (2 > CopyOutAt)
              /\ ~ (2 >= Len(Program))
            BY StepAt
        <3>. QED
            BY <3>1, <3>2, InputConstants DEF OnTheWay
    <2>2. PICK b, w : b = buffer[r][c] /\ w = weights[r][c]
        OBVIOUS
    <2>3. Right(r, c, b) => Right(r, c, b)'
        BY RightStays, LoraAssumption
    <2>4. Right(r, c, w) => Right(r, c, w)'
        BY RightStays, LoraAssumption
    <2>5. weights'[r][c] = w /\ call'[r] = c
        BY <1>1, <1>2, <2>2
    <2>6. Right(r, call[r], weights[r][call[r]])' <=> Right(r, c, w)'
        BY <2>5 DEF Right
    <2>7. Right(r, call[r], weights[r][call[r]]) <=> Right(r, c, w)
        BY <1>1, <2>2
    <2>8. stream[r] = <<>> => \A op : ~ Queued(stream[r], op, c)
        BY DEF Queued
    <2>9. CASE Free(r)
        <3>1. step[r] = Len(Program) /\ stream[r] = <<>>
            BY <2>9, StepAt DEF Free
        <3>2. /\ step[r] > CopyOutAt /\ step'[r] > CopyOutAt
              /\ step'[r] > BroadcastAt
            BY <1>2, <3>1, StepAt
        <3>3. Right(r, c, w)
            BY <1>1, <1>2, <1>7, <2>7, <2>8, <3>1, <3>2 DEF OnTheWay
        <3>4. ~ (step'[r] <= CopyOutAt)
            BY <1>2, <3>2, StepAt
        <3>. HIDE DEF Right
        <3>. QED
            BY <1>2, <2>4, <2>6, <3>1, <3>3, <3>4, InputConstants DEF OnTheWay
    <2>10. CASE Synchronize(r)
        <3>1. stream[r] = <<>> /\ buffer' = buffer
            BY <2>10 DEF Synchronize, device
        <3>2. /\ step'[r] > 2 => step[r] > 2
              /\ step'[r] <= CopyOutAt => step[r] <= CopyOutAt
              /\ step'[r] > BroadcastAt => step[r] > BroadcastAt
              /\ step'[r] > CopyOutAt => step[r] > CopyOutAt
            BY <1>2, <2>10, StepAt DEF Synchronize
        <3>3. Right(r, call[r], buffer[r][call[r]])' <=> Right(r, c, b)'
            BY <2>2, <2>5, <3>1 DEF Right
        <3>4. Right(r, call[r], buffer[r][call[r]]) <=> Right(r, c, b)
            BY <1>1, <2>2
        <3>5. \A op, a : ~ Queued(stream[r], op, a)
            BY <3>1 DEF Queued
        <3>6. \A op, a : ~ Queued(stream'[r], op, a)
            BY <1>2, <3>5
        <3>7. /\ r = Root /\ step[r] > 2 /\ step[r] <= CopyOutAt =>
                    buffer[r][c] = c
              /\ step[r] > BroadcastAt /\ step[r] <= CopyOutAt => Right(r, c, b)
              /\ step[r] > CopyOutAt => Right(r, c, w)
            <4>. HIDE DEF Right
            <4>. QED
                BY <1>1, <1>2, <1>7, <2>7, <3>4, <3>5 DEF OnTheWay
        <3>8. /\ Right(r, c, b)' => Right(r, call[r], buffer[r][call[r]])'
              /\ ~ Queued(stream[r], "copy_in", call[r])'
              /\ buffer'[r][call'[r]] = buffer[r][c] /\ call'[r] = c
              /\ stream'[r] = <<>>
            BY <1>1, <1>2, <3>1, <3>3, <3>6
        <3>. HIDE DEF Right, Queued
        <3>. QED
            BY <2>3, <2>4, <2>6, <3>2, <3>7, <3>8, InputConstants DEF OnTheWay
    <2>. QED
        BY <2>1, <2>9, <2>10
<1>. QED
    BY <1>2, <1>3, <1>4, <1>5, <1>6, <1>8, <1>9, QuietKeepsFlow

\* Copy and Broadcast: one more operation in the stream.
LEMMA EnqueueKeepsFlow ==
    ASSUME Inv, Flow, LeftStays, NEW r \in Group, UNCHANGED input,
           NEW op \in {"copy_in", "broadcast", "copy_out"}, At(r, op),
           Enqueue(r, op), Advance(r), UNCHANGED <<buffer, weights, sent>>,
           joined' = IF op = "broadcast"
                     THEN [joined EXCEPT ![r] = Append(@, call[r])] ELSE joined
    PROVE  Flow'
<1>1. PICK c \in Calls : c = call[r]
    BY CallingFacts
<1>2. PICK n : n = Len(joined[r]) + 1
    OBVIOUS
<1>3. PICK e \in Operations : e.op = op /\ e.call = c /\ e.n = n
                              /\ stream' = [stream EXCEPT ![r] = Append(@, e)]
    <2>1. [op |-> op, call |-> c, n |-> n] \in Operations
        BY <1>2, Standing DEF Operations
    <2>. QED
        BY <1>1, <1>2, <2>1 DEF Enqueue
<1>4. PICK s \in Seq(Operations) : s = stream[r]
    BY Streaming
<1>5. PICK t : t = Append(s, e)
    OBVIOUS
<1>6. PICK k : k = Len(s) + 1
    OBVIOUS
<1>7. /\ k \in Nat /\ k > 0 /\ DOMAIN s = 1 .. (k - 1) /\ DOMAIN t = 1 .. k
      /\ t[k] = e /\ \A i \in 1 .. (k - 1) : t[i] = s[i]
      /\ \A o, a : Queued(s, o, a) => Queued(t, o, a)
      /\ \A o, a : Queued(s, o, a) <=> Before(t, k, o, a)
      /\ \A o, a : \A j \in 1 .. (k - 1) : Before(t, j, o, a) <=> Before(s, j, o, a)
      /\ Queued(t, op, c) /\ t # <<>>
    <2>1. Queued(t, e.op, e.call)
        BY <1>5, <1>6, AppendFacts
    <2>2. Queued(t, op, c)
        BY <1>3, <2>1
    <2>. HIDE DEF Queued, Before, Operations
    <2>3. /\ k \in Nat /\ k > 0 /\ DOMAIN s = 1 .. (k - 1) /\ DOMAIN t = 1 .. k
          /\ t[k] = e /\ \A i \in 1 .. (k - 1) : t[i] = s[i]
          /\ t # <<>>
        BY <1>5, <1>6, AppendFacts
    <2>4. \A o, a : Queued(s, o, a) => Queued(t, o, a)
        BY <1>5, <1>6, AppendFacts
    <2>5. ASSUME NEW o, NEW a
          PROVE  Queued(s, o, a) <=> Before(t, k, o, a)
        <3>1. ASSUME Queued(s, o, a) PROVE Before(t, k, o, a)
            <4>1. PICK i \in 1 .. (k - 1) : s[i].op = o /\ s[i].call = a
                BY <2>3, <3>1 DEF Queued
            <4>2. i \in 1 .. k /\ i < k
                BY <2>3
            <4>. QED
                BY <2>3, <4>1, <4>2 DEF Before
        <3>2. ASSUME Before(t, k, o, a) PROVE Queued(s, o, a)
            <4>1. PICK i \in 1 .. k : i < k /\ t[i].op = o /\ t[i].call = a
                BY <2>3, <3>2 DEF Before
            <4>2. i \in 1 .. (k - 1)
                BY <2>3, <4>1
            <4>. QED
                BY <2>3, <4>1, <4>2 DEF Queued
        <3>. QED
            BY <3>1, <3>2
    <2>6. \A o, a : \A j \in 1 .. (k - 1) :
            Before(t, j, o, a) <=> Before(s, j, o, a)
        BY <1>5, <1>6, AppendFacts
    <2>. QED
        BY <2>2, <2>3, <2>4, <2>5, <2>6
<1>8. /\ stream'[r] = t /\ stream[r] = s
      /\ \A q \in Group : q # r => stream'[q] = stream[q]
    BY <1>3, <1>4, <1>5 DEF Inv, LoraTypeOK
<1>9. /\ UNCHANGED <<at, call, outcome>> /\ step'[r] = step[r] + 1
      /\ at[r] = "calling" /\ call'[r] = c
      /\ \A q \in Group : q # r => step'[q] = step[q]
    BY <1>1 DEF Advance, At, Inv
<1>10. Elsewhere(r)
    BY <1>8, <1>9 DEF Elsewhere, OthersStay, Inv, LoraTypeOK
<1>11. /\ op = "copy_in" <=> step[r] = 2
       /\ op = "broadcast" <=> step[r] = BroadcastAt
       /\ op = "copy_out" <=> step[r] = CopyOutAt
       /\ step[r] \in {2, BroadcastAt, CopyOutAt}
       /\ ~ (step'[r] <= 2)
    BY <1>9, StepAt
<1>12. \A i \in 1 .. k : i = k \/ (i \in 1 .. (k - 1) /\ i < k)
    BY <1>7
<1>13. /\ DOMAIN joined[r] = 1 .. (n - 1) /\ n \in Nat /\ n > 0
       /\ DOMAIN joined[r] \subseteq DOMAIN joined'[r]
       /\ \A m \in 1 .. (n - 1) : joined'[r][m] = joined[r][m]
       /\ op = "broadcast" => /\ DOMAIN joined'[r] = 1 .. n
                              /\ joined'[r][n] = c /\ Len(joined'[r]) = n
       /\ op # "broadcast" => joined'[r] = joined[r]
       /\ Len(joined[r]) = n - 1
    <2>1. /\ op = "broadcast" => joined'[r] = Append(joined[r], c)
          /\ op # "broadcast" => joined'[r] = joined[r]
        BY <1>1 DEF Inv, LoraTypeOK
    <2>. QED
        BY <1>1, <1>2, <2>1, Standing
<1>14. \A i \in 1 .. (k - 1) :
            /\ s[i].op = "broadcast" =>
                s[i].n \in DOMAIN joined[r] /\ joined[r][s[i].n] = s[i].call
            /\ s[i].call <= c
            /\ step[r] <= 2 => s[i].call # c
            /\ \A j \in 1 .. (k - 1) :
                i < j /\ s[i].call = s[j].call => s[j].op # "copy_in"
    BY <1>1, <1>7, <1>8, <1>9 DEF Flow, InOrder
<1>15. InOrder(r)'
    <2>. SUFFICES ASSUME NEW i \in 1 .. k
                  PROVE  /\ t[i].op = "broadcast" =>
                            /\ t[i].n \in DOMAIN joined'[r]
                            /\ joined'[r][t[i].n] = t[i].call
                         /\ t[i].call <= c
                         /\ \A j \in 1 .. k : i < j /\ t[i].call = t[j].call =>
                                t[j].op # "copy_in"
        BY <1>7, <1>8, <1>9, <1>11 DEF InOrder
    <2>1. CASE i = k
        <3>1. t[i].op = op /\ t[i].call = c /\ t[i].n = n
            BY <1>3, <1>7, <2>1
        <3>2. \A j \in 1 .. k : ~ (k < j)
            BY <1>7
        <3>3. op = "broadcast" => n \in 1 .. n
            BY <1>13
        <3>4. c <= c
            BY Standing
        <3>. QED
            BY <1>13, <2>1, <3>1, <3>2, <3>3, <3>4
    <2>2. CASE i \in 1 .. (k - 1)
        <3>1. t[i] = s[i]
            BY <1>7, <2>2
        <3>2. ASSUME NEW j \in 1 .. k, i < j, t[i].call = t[j].call
              PROVE  t[j].op # "copy_in"
            <4>1. CASE j = k
                BY <1>3, <1>7, <1>11, <1>14, <2>2, <3>1, <3>2, <4>1, StepAt
            <4>2. CASE j \in 1 .. (k - 1)
                BY <1>7, <1>14, <2>2, <3>1, <3>2, <4>2
            <4>. QED
                BY <1>12, <4>1, <4>2
        <3>. QED
            BY <1>13, <1>14, <2>2, <3>1, <3>2
    <2>. QED
        BY <1>12, <2>1, <2>2
<1>16. PICK b, w : b = buffer[r][c] /\ w = weights[r][c]
    OBVIOUS
<1>17. OnTheWay(r)
    BY DEF Flow
<1>18. /\ r = Root /\ op # "copy_in" => Queued(s, "copy_in", c) \/ b = c
       /\ op = "copy_out" => \/ Queued(s, "broadcast", c)
                             \/ Right(r, c, b) /\ ~ Queued(s, "copy_in", c)
    <2>1. /\ op # "copy_in" => step[r] > 2 /\ step[r] <= CopyOutAt
          /\ op = "copy_out" => step[r] > BroadcastAt /\ step[r] <= CopyOutAt
        BY <1>11, StepAt
    <2>. HIDE DEF Right, Queued
    <2>. QED
        BY <1>1, <1>8, <1>9, <1>16, <1>17, <2>1 DEF OnTheWay
<1>19. Received(r)'
    <2>. SUFFICES ASSUME NEW j \in 1 .. k, t[j].op = "copy_out"
                  PROVE  \/ Before(t, j, "broadcast", t[j].call)
                         \/ /\ Right(r, stream[r][j].call,
                                     buffer[r][stream[r][j].call])'
                            /\ ~ Before(t, j, "copy_in", t[j].call)
        BY <1>7, <1>8 DEF Received, Before
    <2>1. PICK a : a = t[j].call
        OBVIOUS
    <2>2. PICK v : v = buffer[r][a]
        OBVIOUS
    <2>3. Right(r, a, v)' <=> Right(r, stream[r][j].call,
                                    buffer[r][stream[r][j].call])'
        BY <1>8, <2>1, <2>2 DEF Right
    <2>4. a \in Calls
        <3>1. CASE j = k
            BY <1>3, <1>7, <2>1, <3>1
        <3>2. CASE j \in 1 .. (k - 1)
            BY <1>7, <1>8, <2>1, <3>2, Streaming
        <3>. QED
            BY <1>12, <3>1, <3>2
    <2>5. Right(r, a, v) => Right(r, a, v)'
        BY <2>4, RightStays, LoraAssumption
    <2>. HIDE DEF Right
    <2>6. CASE j = k
        <3>1. op = "copy_out" /\ a = c /\ v = b
            BY <1>3, <1>7, <1>16, <2>1, <2>2, <2>6
        <3>. QED
            BY <1>7, <1>18, <2>1, <2>3, <2>5, <2>6, <3>1
    <2>7. CASE j \in 1 .. (k - 1)
        <3>1. s[j].op = "copy_out" /\ s[j].call = a
            BY <1>7, <2>1, <2>7
        <3>2. \/ Before(s, j, "broadcast", a)
              \/ Right(r, a, v) /\ ~ Before(s, j, "copy_in", a)
            BY <1>7, <1>8, <2>2, <2>7, <3>1 DEF Flow, Received
        <3>. QED
            BY <1>7, <2>1, <2>3, <2>5, <2>7, <3>2
    <2>. QED
        BY <1>12, <2>6, <2>7
<1>20. ASSUME r = Root PROVE RootsNumbers'
    <2>1. PICK l : l = Len(sent)
        OBVIOUS
    <2>2. l \in Nat /\ l <= n - 1 /\ Len(sent') = l
        <3>1. sent \in Seq(Values)
            BY DEF Inv, LoraTypeOK
        <3>. QED
            BY <1>13, <1>20, <2>1, <3>1 DEF Flow, RootsNumbers
    <2>3. \A i \in 1 .. (k - 1) : s[i].op = "broadcast" =>
            /\ s[i].n \in 1 .. (n - 1) /\ s[i].n > l
            /\ \A j \in 1 .. (k - 1) : s[j].op = "broadcast" /\ i < j =>
                    s[i].n < s[j].n
        BY <1>7, <1>8, <1>13, <1>14, <1>20, <2>1 DEF Flow, RootsNumbers, Sends
    <2>4. \A m \in l + 1 .. n - 1 : \E i \in 1 .. (k - 1) :
            s[i].op = "broadcast" /\ s[i].n = m
        BY <1>7, <1>8, <1>13, <1>20, <2>1 DEF Flow, RootsNumbers, Sends
    <2>5. t[k].op = op /\ t[k].n = n
        BY <1>3, <1>7
    <2>6. ASSUME NEW i \in 1 .. k, t[i].op = "broadcast"
          PROVE  t[i].n > l /\ (i = k => t[i].n = n)
                 /\ (i # k => t[i].n < n)
        <3>1. CASE i = k
            BY <1>13, <2>2, <2>5, <3>1
        <3>2. CASE i \in 1 .. (k - 1)
            <4>1. t[i] = s[i] /\ i # k
                BY <1>7, <3>2
            <4>2. s[i].n \in 1 .. (n - 1) /\ s[i].n > l
                BY <2>3, <2>6, <3>2, <4>1
            <4>3. n \in Int
                BY <1>13
            <4>. QED
                BY <4>1, <4>2, <4>3
        <3>. QED
            BY <1>12, <3>1, <3>2
    <2>7. ASSUME NEW i \in 1 .. k, NEW j \in 1 .. k, i < j,
                 t[i].op = "broadcast", t[j].op = "broadcast"
          PROVE  t[i].n < t[j].n
        <3>1. i # k /\ i \in 1 .. (k - 1)
            BY <1>7, <1>12, <2>7
        <3>2. CASE j = k
            BY <2>6, <2>7, <3>1, <3>2
        <3>3. CASE j \in 1 .. (k - 1)
            BY <1>7, <2>3, <2>7, <3>1, <3>3
        <3>. QED
            BY <1>12, <3>2, <3>3
    <2>8. \A i \in 1 .. (k - 1) : i \in 1 .. k
        BY <1>7
    <2>9. ASSUME NEW m \in l + 1 .. n - 1
          PROVE  \E i \in 1 .. k : t[i].op = "broadcast" /\ t[i].n = m
        BY <1>7, <2>4, <2>8
    <2>10. k \in 1 .. k
        BY <1>7
    <2>11. ASSUME NEW m \in l + 1 .. Len(joined'[r])
           PROVE  \E i \in 1 .. k : t[i].op = "broadcast" /\ t[i].n = m
        <3>1. CASE op = "broadcast"
            <4>1. m = n \/ m \in l + 1 .. n - 1
                BY <1>13, <2>2, <3>1
            <4>. QED
                BY <2>5, <2>9, <2>10, <3>1, <4>1
        <3>2. CASE op # "broadcast"
            BY <1>13, <2>9, <3>2
        <3>. QED
            BY <3>1, <3>2
    <2>12. Len(joined'[r]) >= l /\ Len(joined'[r]) \in Nat
        BY <1>13, <2>2
    <2>. QED
        BY <1>7, <1>8, <1>20, <2>2, <2>6, <2>7, <2>11, <2>12
        DEF RootsNumbers, Sends
<1>21. ASSUME r = Root PROVE RootsData'
    <2>1. ASSUME NEW m \in DOMAIN sent PROVE sent[m] = joined'[r][m]
        <3>1. m \in 1 .. (n - 1)
            <4>1. sent \in Seq(Values) /\ Len(sent) <= Len(joined[r])
                BY <1>21 DEF Inv, LoraTypeOK, Flow, RootsNumbers
            <4>2. Len(sent) \in Nat /\ m \in 1 .. Len(sent)
                BY <2>1, <4>1
            <4>. QED
                BY <1>13, <4>1, <4>2
        <3>. QED
            BY <1>13, <1>21, <2>1, <3>1 DEF Flow, RootsData
    <2>2. ASSUME NEW j \in 1 .. k, t[j].op # "copy_in"
          PROVE  \/ Before(t, j, "copy_in", t[j].call)
                 \/ buffer[r][t[j].call] = t[j].call
        <3>1. CASE j = k
            BY <1>3, <1>7, <1>16, <1>18, <1>21, <2>2, <3>1
        <3>2. CASE j \in 1 .. (k - 1)
            <4>1. t[j] = s[j]
                BY <1>7, <3>2
            <4>2. \/ Before(s, j, "copy_in", s[j].call)
                  \/ buffer[r][s[j].call] = s[j].call
                BY <1>7, <1>8, <1>21, <2>2, <3>2, <4>1 DEF Flow, RootsData
            <4>. QED
                BY <1>7, <3>2, <4>1, <4>2
        <3>. QED
            BY <1>12, <3>1, <3>2
    <2>3. \A a \in Calls : weights'[Root][a] = a
        BY DEF Flow, RootsData
    <2>4. buffer' = buffer /\ sent' = sent /\ stream'[Root] = t
        BY <1>8, <1>21
    <2>5. \A j, a : Before(stream[Root], j, "copy_in", a)' <=> Before(t, j, "copy_in", a)
        BY <2>4 DEF Before
    <2>6. \A m \in DOMAIN sent' : sent'[m] = joined'[Root][m]
        BY <1>21, <2>1, <2>4
    <2>7. ASSUME NEW j \in DOMAIN stream'[Root], stream'[Root][j].op # "copy_in"
          PROVE  \/ Before(stream'[Root], j, "copy_in", stream'[Root][j].call)
                 \/ buffer'[Root][stream'[Root][j].call] = stream'[Root][j].call
        BY <1>7, <1>21, <2>2, <2>4, <2>7
    <2>. HIDE DEF Before
    <2>. QED
        BY <2>3, <2>6, <2>7 DEF RootsData, Calls
<1>22. OnTheWay(r)'
    <2>1. /\ at'[r] = "calling" /\ stream'[r] = t /\ call'[r] = c
          /\ buffer'[r][c] = b /\ weights'[r][c] = w
          /\ BroadcastAt' = BroadcastAt /\ CopyOutAt' = CopyOutAt
          /\ Program' = Program
        BY <1>8, <1>9, <1>16, InputConstants
    <2>2. ~ (step'[r] >= Len(Program))
        BY <1>9, <1>11, StepAt
    <2>3. step'[r] <= CopyOutAt => op \in {"copy_in", "broadcast"}
        BY <1>9, <1>11, StepAt
    <2>4. step'[r] > CopyOutAt => op = "copy_out"
        BY <1>9, <1>11, StepAt
    <2>5. step'[r] > BroadcastAt /\ step'[r] <= CopyOutAt => op = "broadcast"
        BY <1>9, <1>11, <2>3, StepAt
    <2>6. r = Root /\ step'[r] <= CopyOutAt => Queued(t, "copy_in", c) \/ b = c
        BY <1>7, <1>18, <2>3
    <2>7. /\ step'[r] > BroadcastAt /\ step'[r] <= CopyOutAt =>
                Queued(t, "broadcast", c)
          /\ step'[r] > CopyOutAt => Queued(t, "copy_out", c)
        BY <1>7, <2>4, <2>5
    <2>8. \A o : Queued(stream[r], o, call[r])' <=> Queued(t, o, c)
        BY <2>1 DEF Queued
    <2>. HIDE DEF Right, Queued
    <2>. QED
        BY <2>1, <2>2, <2>6, <2>7, <2>8 DEF OnTheWay
<1>23. Succeeded(r)'
    BY <1>9, SucceededStays DEF Flow
<1>. QED
    BY <1>10, <1>15, <1>19, <1>20, <1>21, <1>22, <1>23, FlowOfOne

\* The first operation of a stream has been executed: what it brings is
\* right, and what comes after it finds what it needs.
LEMMA PopKeepsFlow ==
    ASSUME Inv, Flow, LeftStays, NEW r \in Group, UNCHANGED <<input, host, joined>>,
           stream[r] # <<>>, Pop(r), r # Root => sent' = sent,
           \A q \in Group : q # r =>
                buffer'[q] = buffer[q] /\ weights'[q] = weights[q],
           NEW h, h = Head(stream[r]),
           \A b \in Calls : b # h.call =>
                buffer'[r][b] = buffer[r][b] /\ weights'[r][b] = weights[r][b],
           h.op # "copy_out" => weights'[r][h.call] = weights[r][h.call],
           h.op = "copy_out" => /\ buffer'[r][h.call] = buffer[r][h.call]
                                /\ weights'[r][h.call] = buffer[r][h.call],
           h.op = "broadcast" => Right(r, h.call, buffer[r][h.call])',
           r = Root =>
                /\ h.op = "copy_in" => buffer'[r][h.call] = weights[r][h.call]
                /\ h.op = "broadcast" => buffer'[r][h.call] = buffer[r][h.call]
                /\ RootsNumbers'
                /\ \A m \in DOMAIN sent' : sent'[m] = joined[Root][m]
    PROVE  Flow'
<1>1. PICK s \in Seq(Operations) : s = stream[r]
    BY Streaming
<1>2. PICK t : t = Tail(s)
    OBVIOUS
<1>3. PICK k : k = Len(s)
    OBVIOUS
<1>4. PICK a \in Calls : a = h.call
    BY HeadFacts DEF Operations
<1>5. /\ k \in Nat /\ k > 0 /\ DOMAIN s = 1 .. k /\ DOMAIN t = 1 .. (k - 1)
      /\ h = s[1] /\ h.op \in {"copy_in", "broadcast", "copy_out"}
      /\ \A i \in 1 .. (k - 1) : t[i] = s[i + 1] /\ i + 1 \in 1 .. k
    <2>1. s # <<>> /\ h = Head(s)
        BY <1>1
    <2>2. /\ k \in Nat /\ k > 0 /\ DOMAIN s = 1 .. k /\ DOMAIN t = 1 .. (k - 1)
          /\ h = s[1] /\ h \in Operations
          /\ \A i \in 1 .. (k - 1) : t[i] = s[i + 1] /\ i + 1 \in DOMAIN s
        BY <1>2, <1>3, <2>1, TailFacts
    <2>. QED
        BY <2>2 DEF Operations
<1>6. ASSUME NEW op, NEW b
      PROVE  /\ Queued(s, op, b) => Queued(t, op, b) \/ (h.op = op /\ a = b)
             /\ Queued(t, op, b) => Queued(s, op, b)
             /\ h.op = op /\ a = b => Queued(s, op, b)
             /\ ~ Before(s, 1, op, b)
             /\ \A j \in 1 .. (k - 1) :
                /\ Before(s, j + 1, op, b) =>
                        Before(t, j, op, b) \/ (h.op = op /\ a = b)
                /\ Before(t, j, op, b) => Before(s, j + 1, op, b)
                /\ h.op = op /\ a = b => Before(s, j + 1, op, b)
    <2>1. \A i \in 1 .. k : i = 1 \/ (i - 1 \in 1 .. (k - 1) /\ (i - 1) + 1 = i)
        BY <1>5
    <2>2. 1 \in 1 .. k /\ s[1].call = a
        BY <1>4, <1>5
    <2>3. ASSUME Queued(s, op, b)
          PROVE  Queued(t, op, b) \/ (h.op = op /\ a = b)
        <3>1. PICK i \in 1 .. k : s[i].op = op /\ s[i].call = b
            BY <1>5, <2>3 DEF Queued
        <3>2. CASE i = 1
            BY <1>5, <2>2, <3>1, <3>2
        <3>3. CASE i - 1 \in 1 .. (k - 1)
            <4>1. t[i - 1] = s[i]
                BY <1>5, <3>1, <3>3
            <4>. QED
                BY <1>5, <3>1, <3>3, <4>1 DEF Queued
        <3>. QED
            BY <2>1, <3>2, <3>3
    <2>4. Queued(t, op, b) => Queued(s, op, b)
        BY <1>5 DEF Queued
    <2>5. h.op = op /\ a = b => Queued(s, op, b)
        BY <1>5, <2>2 DEF Queued
    <2>6. ~ Before(s, 1, op, b)
        BY <1>5 DEF Before
    <2>7. ASSUME NEW j \in 1 .. (k - 1), Before(s, j + 1, op, b)
          PROVE  Before(t, j, op, b) \/ (h.op = op /\ a = b)
        <3>1. PICK i \in 1 .. k : i < j + 1 /\ s[i].op = op /\ s[i].call = b
            BY <1>5, <2>7 DEF Before
        <3>2. CASE i = 1
            BY <1>5, <2>2, <3>1, <3>2
        <3>3. CASE i - 1 \in 1 .. (k - 1)
            <4>1. t[i - 1] = s[i] /\ i - 1 < j
                BY <1>5, <3>1, <3>3
            <4>. QED
                BY <1>5, <3>1, <3>3, <4>1 DEF Before
        <3>. QED
            BY <2>1, <3>2, <3>3
    <2>8. ASSUME NEW j \in 1 .. (k - 1), Before(t, j, op, b)
          PROVE  Before(s, j + 1, op, b)
        <3>1. PICK i \in 1 .. (k - 1) : i < j /\ t[i].op = op /\ t[i].call = b
            BY <1>5, <2>8 DEF Before
        <3>2. i + 1 \in 1 .. k /\ i + 1 < j + 1 /\ s[i + 1] = t[i]
            BY <1>5, <3>1
        <3>. QED
            BY <1>5, <3>1, <3>2 DEF Before
    <2>9. ASSUME NEW j \in 1 .. (k - 1), h.op = op, a = b
          PROVE  Before(s, j + 1, op, b)
        <3>1. 1 < j + 1
            BY <1>5
        <3>. QED
            BY <1>5, <2>2, <2>9, <3>1 DEF Before
    <2>. HIDE DEF Queued, Before
    <2>. QED
        BY <2>3, <2>4, <2>5, <2>6, <2>7, <2>8, <2>9
<1>7. /\ stream'[r] = t /\ stream[r] = s
      /\ \A q \in Group : q # r => stream'[q] = stream[q]
    BY <1>1, <1>2 DEF Pop, Inv, LoraTypeOK
<1>8. UNCHANGED <<at, step, call, outcome, wrapper>>
    BY DEF host
<1>9. Elsewhere(r)
    BY <1>7, <1>8 DEF Elsewhere, OthersStay
<1>10. InOrder(r)'
    <2>1. \A i, j \in 1 .. (k - 1) : i < j => i + 1 < j + 1
        BY <1>5
    <2>2. \A i \in 1 .. k :
            /\ s[i].op = "broadcast" =>
                s[i].n \in DOMAIN joined[r] /\ joined[r][s[i].n] = s[i].call
            /\ s[i].call <= call[r]
            /\ at[r] = "calling" /\ step[r] <= 2 => s[i].call # call[r]
            /\ \A j \in 1 .. k :
                i < j /\ s[i].call = s[j].call => s[j].op # "copy_in"
        <3>1. InOrder(r) /\ DOMAIN stream[r] = 1 .. k /\ stream[r] = s
            BY <1>5, <1>7 DEF Flow
        <3>. QED
            BY <3>1 DEF InOrder
    <2>. QED
        BY <1>5, <1>7, <1>8, <2>1, <2>2 DEF InOrder
\* Nothing is copied in after the first operation of its call.
<1>11. ASSUME NEW j \in 1 .. (k - 1), t[j].call = a
       PROVE  t[j].op # "copy_in"
    <2>1. 1 \in 1 .. k /\ j + 1 \in 1 .. k /\ 1 < j + 1
        BY <1>5
    <2>2. s[1].call = s[j + 1].call => s[j + 1].op # "copy_in"
        <3>1. InOrder(r) /\ DOMAIN stream[r] = 1 .. k /\ stream[r] = s
            BY <1>5, <1>7 DEF Flow
        <3>. QED
            BY <2>1, <3>1 DEF InOrder
    <2>. QED
        BY <1>4, <1>5, <1>11, <2>2
<1>12. ~ Queued(t, "copy_in", a) /\ \A j : ~ Before(t, j, "copy_in", a)
    BY <1>5, <1>11 DEF Queued, Before
\* What Root has in memory and in its weights.
<1>13. ASSUME r = Root
       PROVE  weights[r][a] = a /\ buffer'[r][a] = a /\ weights'[r][a] = a
    <2>1. weights[r][a] = a
        BY <1>13 DEF Flow, RootsData
    <2>2. h.op # "copy_in" => buffer[r][a] = a
        <3>1. 1 \in 1 .. k
            BY <1>5
        <3>2. h.op # "copy_in" => \/ Before(s, 1, "copy_in", a)
                                  \/ buffer[r][a] = a
            BY <1>4, <1>5, <1>7, <1>13, <3>1 DEF Flow, RootsData
        <3>. QED
            BY <1>6, <3>2
    <2>. QED
        BY <1>4, <1>5, <1>13, <2>1, <2>2
<1>14. \A b \in Calls : \A value : Right(r, b, value) => Right(r, b, value)'
    BY RightStays, LoraAssumption
\* What is copied out now.
<1>15. ASSUME h.op = "copy_out"
       PROVE  Right(r, a, buffer[r][a])
    <2>1. 1 \in 1 .. k
        BY <1>5
    <2>2. \/ Before(s, 1, "broadcast", a)
          \/ Right(r, a, buffer[r][a])
        <3>1. Received(r) /\ DOMAIN stream[r] = 1 .. k /\ stream[r] = s
            BY <1>5, <1>7 DEF Flow
        <3>2. s[1].op = "copy_out" /\ s[1].call = a
            BY <1>4, <1>5, <1>15
        <3>. QED
            BY <2>1, <3>1, <3>2 DEF Received
    <2>. QED
        BY <1>6, <2>2
<1>16. PICK b, w, b1, w1 : /\ b = buffer[r] /\ w = weights[r]
                           /\ b1 = buffer'[r] /\ w1 = weights'[r]
    OBVIOUS
<1>17. /\ h.op = "broadcast" => Right(r, a, b1[a])'
       /\ h.op = "copy_out" => Right(r, a, w1[a])' /\ Right(r, a, b1[a])'
    <2>1. Right(r, h.call, buffer[r][h.call])' <=> Right(r, a, b1[a])'
        BY <1>4, <1>16 DEF Right
    <2>2. h.op = "copy_out" => Right(r, a, b[a])
        BY <1>15, <1>16
    <2>3. h.op = "copy_out" => b1[a] = b[a] /\ w1[a] = b[a]
        BY <1>4, <1>16
    <2>4. Right(r, a, b[a]) => Right(r, a, b[a])'
        BY <1>14
    <2>. HIDE DEF Right
    <2>. QED
        BY <2>1, <2>2, <2>3, <2>4
<1>18. Received(r)'
    <2>. SUFFICES ASSUME NEW j \in 1 .. (k - 1), t[j].op = "copy_out"
                  PROVE  \/ Before(t, j, "broadcast", t[j].call)
                         \/ /\ Right(r, stream[r][j].call,
                                     buffer[r][stream[r][j].call])'
                            /\ ~ Before(t, j, "copy_in", t[j].call)
        BY <1>5, <1>7 DEF Received, Before
    <2>1. PICK c \in Calls : c = t[j].call
        BY <1>5, <1>7, Streaming
    <2>2. Right(r, c, b1[c])' <=> Right(r, stream[r][j].call,
                                        buffer[r][stream[r][j].call])'
        BY <1>7, <1>16, <2>1 DEF Right
    <2>3. \/ Before(s, j + 1, "broadcast", c)
          \/ Right(r, c, b[c]) /\ ~ Before(s, j + 1, "copy_in", c)
        BY <1>5, <1>7, <1>16, <2>1 DEF Flow, Received
    <2>. HIDE DEF Right, Before
    <2>4. CASE c # a
        <3>1. b1[c] = b[c]
            BY <1>4, <1>16, <2>4
        <3>. QED
            BY <1>6, <1>14, <2>1, <2>2, <2>3, <2>4, <3>1
    <2>5. CASE c = a /\ h.op = "copy_in"
        BY <1>6, <2>1, <2>3, <2>5
    <2>6. CASE c = a /\ h.op # "copy_in"
        BY <1>5, <1>12, <1>17, <2>1, <2>2, <2>6
    <2>. QED
        BY <2>4, <2>5, <2>6
<1>19. OnTheWay(r)'
    <2>. SUFFICES ASSUME at[r] = "calling" PROVE OnTheWay(r)'
        BY <1>8 DEF OnTheWay
    <2>1. PICK c \in Calls : c = call[r]
        BY Standing
    <2>2. /\ Right(r, c, b1[c])' <=> Right(r, call[r], buffer[r][call[r]])'
          /\ Right(r, c, w1[c])' <=> Right(r, call[r], weights[r][call[r]])'
          /\ \A op : Queued(stream[r], op, call[r])' <=> Queued(t, op, c)
        BY <1>7, <1>8, <1>16, <2>1 DEF Right, Queued
    <2>3. /\ r = Root /\ step[r] > 2 /\ step[r] <= CopyOutAt =>
                Queued(s, "copy_in", c) \/ b[c] = c
          /\ step[r] > BroadcastAt /\ step[r] <= CopyOutAt =>
                \/ Queued(s, "broadcast", c)
                \/ Right(r, c, b[c]) /\ ~ Queued(s, "copy_in", c)
          /\ step[r] > CopyOutAt =>
                Queued(s, "copy_out", c) \/ Right(r, c, w[c])
          /\ ~ (step[r] >= Len(Program))
        <3>1. OnTheWay(r)
            BY DEF Flow
        <3>. HIDE DEF Right, Queued
        <3>. QED
            BY <1>7, <1>16, <2>1, <3>1 DEF OnTheWay
    <2>4. c # a => b1[c] = b[c] /\ w1[c] = w[c]
        BY <1>4, <1>16
    <2>5. h.op # "copy_out" => w1[a] = w[a]
        BY <1>4, <1>16
    <2>. HIDE DEF Right, Queued
    <2>6. r = Root /\ step[r] > 2 /\ step[r] <= CopyOutAt =>
            Queued(t, "copy_in", c) \/ b1[c] = c
        BY <1>6, <1>13, <1>16, <2>3, <2>4
    <2>7. step[r] > BroadcastAt /\ step[r] <= CopyOutAt =>
            \/ Queued(t, "broadcast", c)
            \/ Right(r, c, b1[c])' /\ ~ Queued(t, "copy_in", c)
        <3>1. CASE c # a
            BY <1>6, <1>14, <2>3, <2>4, <3>1
        <3>2. CASE c = a /\ h.op = "copy_in"
            BY <1>6, <2>3, <3>2
        <3>3. CASE c = a /\ h.op # "copy_in"
            BY <1>5, <1>12, <1>17, <3>3
        <3>. QED
            BY <3>1, <3>2, <3>3
    <2>8. step[r] > CopyOutAt =>
            Queued(t, "copy_out", c) \/ Right(r, c, w1[c])'
        <3>1. CASE c # a
            BY <1>6, <1>14, <2>3, <2>4, <3>1
        <3>2. CASE c = a /\ h.op # "copy_out"
            BY <1>6, <1>14, <2>3, <2>5, <3>2
        <3>3. CASE c = a /\ h.op = "copy_out"
            BY <1>17, <3>3
        <3>. QED
            BY <3>1, <3>2, <3>3
    <2>9. buffer'[r][call'[r]] = b1[c] /\ call'[r] = c
        BY <1>8, <1>16, <2>1
    <2>. QED
        BY <1>8, <2>2, <2>3, <2>6, <2>7, <2>8, <2>9, InputConstants
        DEF OnTheWay
<1>20. Succeeded(r)'
    <2>. SUFFICES ASSUME NEW c \in Calls, outcome[r][c] = "returned",
                         Current \/ r \in sized
                  PROVE  Right(r, c, weights[r][c])'
        BY <1>8, InputConstants DEF Succeeded, Calls
    <2>1. Right(r, c, w1[c])' <=> Right(r, c, weights[r][c])'
        BY <1>16 DEF Right
    <2>2. Right(r, c, w[c])
        BY <1>16 DEF Flow, Succeeded
    <2>. HIDE DEF Right
    <2>3. CASE c = a /\ h.op = "copy_out"
        BY <1>17, <2>1, <2>3
    <2>4. CASE c # a \/ h.op # "copy_out"
        <3>1. w1[c] = w[c]
            BY <1>4, <1>16, <2>4
        <3>. QED
            BY <1>14, <2>1, <2>2, <3>1
    <2>. QED
        BY <2>3, <2>4
<1>21. ASSUME r = Root PROVE RootsData'
    <2>1. ASSUME NEW c \in Calls PROVE weights'[Root][c] = c
        <3>1. weights[r][c] = c
            BY <1>21 DEF Flow, RootsData
        <3>. QED
            BY <1>4, <1>13, <1>21, <3>1
    <2>2. ASSUME NEW j \in 1 .. (k - 1), t[j].op # "copy_in"
          PROVE  Before(t, j, "copy_in", t[j].call) \/ b1[t[j].call] = t[j].call
        <3>0. DOMAIN stream[r] = 1 .. k /\ stream[r] = s /\ j + 1 \in 1 .. k
              /\ t[j] = s[j + 1]
            BY <1>5, <1>7
        <3>1. PICK c \in Calls : c = t[j].call
            BY <3>0, Streaming
        <3>2. Before(s, j + 1, "copy_in", c) \/ b[c] = c
            BY <1>5, <1>7, <1>16, <1>21, <2>2, <3>1 DEF Flow, RootsData
        <3>. HIDE DEF Before
        <3>3. CASE c = a
            BY <1>13, <1>16, <1>21, <3>1, <3>3
        <3>4. CASE c # a
            <4>1. b1[c] = b[c]
                BY <1>4, <1>16, <3>4
            <4>. QED
                BY <1>6, <3>1, <3>2, <3>4, <4>1
        <3>. QED
            BY <3>3, <3>4
    <2>3. stream'[Root] = t /\ buffer'[Root] = b1
        BY <1>7, <1>16, <1>21
    <2>4. ASSUME NEW j \in DOMAIN stream'[Root], stream'[Root][j].op # "copy_in"
          PROVE  \/ Before(stream'[Root], j, "copy_in", stream'[Root][j].call)
                 \/ buffer'[Root][stream'[Root][j].call] = stream'[Root][j].call
        BY <1>5, <2>2, <2>3, <2>4
    <2>5. \A m \in DOMAIN sent' : sent'[m] = joined'[Root][m]
        BY <1>21
    <2>. HIDE DEF Before
    <2>. QED
        BY <2>1, <2>4, <2>5 DEF RootsData, Calls
<1>. QED
    BY <1>9, <1>10, <1>18, <1>19, <1>20, <1>21, FlowOfOne

\* The next broadcast of Root is the next one it joined.
LEMMA PopKeepsNumbers ==
    ASSUME Inv, Flow, UNCHANGED joined, stream[Root] # <<>>, Pop(Root),
           NEW h, h = Head(stream[Root]),
           Len(sent') = IF h.op = "broadcast" THEN Len(sent) + 1 ELSE Len(sent)
    PROVE  /\ h.op = "broadcast" => h.n = Len(sent) + 1
           /\ RootsNumbers'
<1>0. Root \in Group
    BY LoraAssumption
<1>1. PICK s \in Seq(Operations) : s = stream[Root]
    BY <1>0, Streaming
<1>2. PICK t : t = Tail(s)
    OBVIOUS
<1>3. PICK k : k = Len(s)
    OBVIOUS
<1>4. PICK N \in Nat : N = Len(sent)
    BY DEF Inv, LoraTypeOK, Values
<1>5. PICK L \in Nat : L = Len(joined[Root])
    BY <1>0, Standing
<1>6. /\ k \in Nat /\ k > 0 /\ DOMAIN s = 1 .. k /\ DOMAIN t = 1 .. (k - 1)
      /\ h = s[1]
      /\ \A i \in 1 .. (k - 1) : t[i] = s[i + 1] /\ i + 1 \in 1 .. k
    <2>1. s # <<>> /\ h = Head(s)
        BY <1>1
    <2>2. /\ k \in Nat /\ k > 0 /\ DOMAIN s = 1 .. k /\ DOMAIN t = 1 .. (k - 1)
          /\ h = s[1] /\ h \in Operations
          /\ \A i \in 1 .. (k - 1) : t[i] = s[i + 1] /\ i + 1 \in DOMAIN s
        BY <1>2, <1>3, <2>1, TailFacts
    <2>. QED
        BY <2>2
<1>7. stream'[Root] = t /\ stream[Root] = s
    BY <1>0, <1>1, <1>2 DEF Pop, Inv, LoraTypeOK
<1>8. \A i \in 1 .. k : s[i].n \in Nat
    BY <1>0, <1>6, <1>7, Streaming
<1>9. /\ \A i : Sends(i) <=> i \in 1 .. k /\ s[i].op = "broadcast"
      /\ \A i : Sends(i)' <=> i \in 1 .. (k - 1) /\ t[i].op = "broadcast"
    BY <1>6, <1>7 DEF Sends
<1>10. /\ N <= L
       /\ \A i : Sends(i) => s[i].n > N
       /\ \A i, j : Sends(i) /\ Sends(j) /\ i < j => s[i].n < s[j].n
       /\ \A m \in N + 1 .. L : \E i : Sends(i) /\ s[i].n = m
    BY <1>4, <1>5, <1>7 DEF Flow, RootsNumbers
<1>11. ASSUME h.op = "broadcast"
       PROVE  h.n = N + 1 /\ N + 1 <= L /\ Sends(1)
    <2>1. 1 \in 1 .. k /\ Sends(1)
        BY <1>6, <1>9, <1>11
    <2>2. s[1].n \in 1 .. L
        <3>1. InOrder(Root) /\ DOMAIN stream[Root] = 1 .. k
              /\ DOMAIN joined[Root] = 1 .. L
            BY <1>0, <1>5, <1>6, <1>7, Standing DEF Flow
        <3>2. s[1].op = "broadcast"
            BY <1>6, <1>11
        <3>. QED
            BY <1>7, <2>1, <3>1, <3>2 DEF InOrder
    <2>3. s[1].n > N
        BY <1>10, <2>1
    <2>4. N + 1 \in N + 1 .. L
        BY <2>2, <2>3
    <2>5. PICK i : Sends(i) /\ s[i].n = N + 1
        BY <1>10, <2>4
    <2>6. i \in 1 .. k
        BY <1>9, <2>5
    <2>7. i = 1
        <3>1. CASE 1 < i
            <4>1. s[1].n < N + 1
                BY <1>10, <2>1, <2>5, <3>1
            <4>. QED
                BY <2>2, <2>3, <4>1
        <3>. QED
            BY <1>6, <2>6, <3>1
    <2>. QED
        BY <1>6, <2>1, <2>4, <2>5, <2>7
<1>12. PICK M : M = Len(sent')
    OBVIOUS
<1>13. /\ M \in Nat /\ M <= L /\ N <= M
       /\ h.op = "broadcast" => M = N + 1 /\ h.n = M
       /\ h.op # "broadcast" => M = N
    BY <1>4, <1>10, <1>11, <1>12
<1>14. \A i : Sends(i)' =>
        /\ Sends(i + 1) /\ i + 1 \in 1 .. k /\ t[i] = s[i + 1]
        /\ i \in Nat /\ 1 < i + 1
    BY <1>6, <1>9
<1>15. ASSUME NEW i, Sends(i)' PROVE t[i].n > M
    <2>1. Sends(i + 1) /\ i + 1 \in 1 .. k /\ t[i] = s[i + 1] /\ 1 < i + 1
        BY <1>14, <1>15
    <2>2. CASE h.op = "broadcast"
        BY <1>6, <1>10, <1>11, <1>13, <2>1, <2>2
    <2>3. CASE h.op # "broadcast"
        BY <1>10, <1>13, <2>1, <2>3
    <2>. QED
        BY <2>2, <2>3
<1>16. ASSUME NEW i, NEW j, Sends(i)', Sends(j)', i < j PROVE t[i].n < t[j].n
    <2>1. Sends(i + 1) /\ t[i] = s[i + 1] /\ Sends(j + 1) /\ t[j] = s[j + 1]
          /\ i + 1 < j + 1
        BY <1>14, <1>16
    <2>. QED
        BY <1>10, <2>1
<1>17. ASSUME NEW m \in M + 1 .. L
       PROVE  \E i : Sends(i)' /\ t[i].n = m
    <2>1. m \in N + 1 .. L /\ m # M
        BY <1>13
    <2>2. PICK i : Sends(i) /\ s[i].n = m
        BY <1>10, <2>1
    <2>3. i \in 1 .. k /\ s[i].op = "broadcast"
        BY <1>9, <2>2
    <2>4. i # 1
        BY <1>6, <1>13, <2>1, <2>2, <2>3
    <2>5. i - 1 \in 1 .. (k - 1) /\ (i - 1) + 1 = i
        BY <1>6, <2>3, <2>4
    <2>6. t[i - 1] = s[i]
        BY <1>6, <2>5
    <2>7. Sends(i - 1)' /\ t[i - 1].n = m
        BY <1>9, <2>2, <2>3, <2>5, <2>6
    <2>. QED
        BY <2>7
<1>18. /\ Len(sent') = M /\ stream'[Root] = t /\ Len(joined'[Root]) = L
    BY <1>5, <1>7, <1>12
<1>. HIDE DEF Sends
<1>. QED
    BY <1>4, <1>11, <1>13, <1>15, <1>16, <1>17, <1>18 DEF RootsNumbers

LEMMA MovesInKeepsFlow ==
    ASSUME Inv, Flow, LeftStays, NEW r \in Group, UNCHANGED <<input, host>>,
           MovesIn(r)
    PROVE  Flow'
<1>1. PICK h : h = Head(stream[r])
    OBVIOUS
<1>2. stream[r] # <<>> /\ h.op = "copy_in" /\ Pop(r)
      /\ UNCHANGED <<weights, joined, sent>>
      /\ buffer' = [buffer EXCEPT ![r][h.call] = weights[r][h.call]]
    BY <1>1, HeadFacts DEF MovesIn, AtHead, Write, SetBuffer
<1>3. h.call \in Calls
    BY <1>1, <1>2, HeadFacts DEF Operations
<1>4. /\ buffer'[r][h.call] = weights[r][h.call]
      /\ \A b \in Calls : b # h.call => buffer'[r][b] = buffer[r][b]
      /\ \A q \in Group : q # r => buffer'[q] = buffer[q]
    BY <1>2, <1>3 DEF Inv, LoraTypeOK
<1>5. r = Root => RootsNumbers'
    BY <1>1, <1>2, PopKeepsNumbers
<1>6. \A m \in DOMAIN sent' : sent'[m] = joined[Root][m]
    BY <1>2 DEF Flow, RootsData
<1>. QED
    BY <1>1, <1>2, <1>4, <1>5, <1>6, PopKeepsFlow

LEMMA MovesOutKeepsFlow ==
    ASSUME Inv, Flow, LeftStays, NEW r \in Group, UNCHANGED <<input, host>>,
           MovesOut(r)
    PROVE  Flow'
<1>1. PICK h : h = Head(stream[r])
    OBVIOUS
<1>2. stream[r] # <<>> /\ h.op = "copy_out" /\ Pop(r)
      /\ UNCHANGED <<buffer, joined, sent>>
      /\ weights' = [weights EXCEPT ![r][h.call] = buffer[r][h.call]]
    BY <1>1 DEF MovesOut, AtHead
<1>3. h.call \in Calls
    BY <1>1, <1>2, HeadFacts DEF Operations
<1>4. /\ weights'[r][h.call] = buffer[r][h.call]
      /\ \A b \in Calls : b # h.call => weights'[r][b] = weights[r][b]
      /\ \A q \in Group : q # r => weights'[q] = weights[q]
    BY <1>2, <1>3 DEF Inv, LoraTypeOK
<1>5. r = Root => RootsNumbers'
    BY <1>1, <1>2, PopKeepsNumbers
<1>6. \A m \in DOMAIN sent' : sent'[m] = joined[Root][m]
    BY <1>2 DEF Flow, RootsData
<1>. QED
    BY <1>1, <1>2, <1>4, <1>5, <1>6, PopKeepsFlow

\* Unless somebody has left a call, the broadcast a rank joins is the one of
\* its adapter.
LEMMA SameAdapter ==
    ASSUME Inv, Order, Flow, NEW r \in Group, NEW a \in Calls,
           NEW n \in DOMAIN joined[r], joined[r][n] = a,
           n \in Nat, n <= Len(sent)
    PROVE  Right(r, a, sent[n])
<1>. SUFFICES ASSUME ~ Skipped(r, a), ~ Skipped(Root, a) PROVE sent[n] = a
    BY DEF Right
<1>1. Due(r, a)
    BY DEF Order, JoinedAreDue, AllDue
<1>2. a \in DOMAIN joined[r] /\ joined[r][a] = a
    BY <1>1 DEF Order, JoinedInOrder
<1>3. n = a
    BY <1>2 DEF Order, JoinedOnce
<1>4. Root \in Group /\ Len(joined[Root]) \in Nat
      /\ DOMAIN joined[Root] = 1 .. Len(joined[Root])
    BY LoraAssumption, Standing
<1>5. Len(sent) \in Nat /\ DOMAIN sent = 1 .. Len(sent)
    BY DEF Inv, LoraTypeOK, Values
<1>6. Len(sent) <= Len(joined[Root])
    BY DEF Flow, RootsNumbers
<1>7. a \in Nat /\ a > 0
    BY Standing
<1>8. a \in DOMAIN joined[Root] /\ a \in DOMAIN sent
    BY <1>3, <1>4, <1>5, <1>6, <1>7
<1>9. joined[Root][a] = a
    BY <1>4, <1>8 DEF Order, JoinedInOrder
<1>. QED
    BY <1>3, <1>8, <1>9 DEF Flow, RootsData

LEMMA BroadcastsKeepsFlow ==
    ASSUME Inv, Order, Flow, LeftStays, NEW r \in Group,
           UNCHANGED <<input, host>>, Broadcasts(r)
    PROVE  Flow'
<1>1. PICK h : h = Head(stream[r])
    OBVIOUS
<1>2. stream[r] # <<>> /\ h.op = "broadcast" /\ Pop(r)
      /\ UNCHANGED <<weights, joined>>
    BY <1>1 DEF Broadcasts, AtHead
<1>3. h \in Operations /\ h.call \in Calls /\ h.n \in Nat /\ h.n > 0
    BY <1>1, <1>2, HeadFacts DEF Operations
<1>4. PICK a \in Calls : a = h.call
    BY <1>3
<1>5. h.n \in DOMAIN joined[r] /\ joined[r][h.n] = a
    <2>1. 1 \in DOMAIN stream[r] /\ h = stream[r][1]
        <3>1. stream[r] \in Seq(Operations)
            BY Streaming
        <3>. HIDE DEF Operations
        <3>. QED
            BY <1>1, <1>2, <3>1
    <2>2. InOrder(r)
        BY DEF Flow
    <2>. QED
        BY <1>2, <1>4, <2>1, <2>2 DEF InOrder
<1>6. CASE r = Root
    <2>1. UNCHANGED buffer /\ sent' = Append(sent, buffer[r][a])
        BY <1>1, <1>4, <1>6 DEF Broadcasts
    <2>2. sent \in Seq(Values) /\ Len(sent) \in Nat /\ DOMAIN sent = 1 .. Len(sent)
        BY DEF Inv, LoraTypeOK, Values
    <2>3. buffer[r][a] = a
        <3>1. stream[r] \in Seq(Operations)
            BY Streaming
        <3>2. 1 \in DOMAIN stream[r] /\ h = stream[r][1]
              /\ DOMAIN stream[r] = 1 .. Len(stream[r]) /\ Len(stream[r]) \in Nat
            <4>. HIDE DEF Operations
            <4>. QED
                BY <1>1, <1>2, <3>1
        <3>3. ~ Before(stream[r], 1, "copy_in", a)
            BY <3>2 DEF Before
        <3>4. RootsData
            BY DEF Flow
        <3>5. \/ Before(stream[r], 1, "copy_in", a)
              \/ buffer[r][a] = a
            BY <1>2, <1>4, <1>6, <3>2, <3>4 DEF RootsData
        <3>. QED
            BY <3>3, <3>5
    <2>4. /\ Len(sent') = Len(sent) + 1 /\ DOMAIN sent' = 1 .. (Len(sent) + 1)
          /\ sent'[Len(sent) + 1] = buffer[r][a]
          /\ \A m \in 1 .. Len(sent) : sent'[m] = sent[m]
        <3>1. buffer[r][a] \in {None} \cup Values
            BY DEF Inv, LoraTypeOK
        <3>2. PICK v : v = buffer[r][a] /\ sent' = Append(sent, v)
            BY <2>1
        <3>. QED
            BY <2>2, <3>2
    <2>5. h.n = Len(sent) + 1 /\ RootsNumbers'
        BY <1>1, <1>2, <1>6, <2>4, PopKeepsNumbers
    <2>6. ASSUME NEW m \in DOMAIN sent' PROVE sent'[m] = joined[Root][m]
        <3>1. CASE m = Len(sent) + 1
            BY <1>5, <1>6, <2>3, <2>4, <2>5, <3>1
        <3>2. CASE m \in 1 .. Len(sent)
            BY <2>2, <2>4, <3>2 DEF Flow, RootsData
        <3>. QED
            BY <2>2, <2>4, <3>1, <3>2
    <2>7. Right(r, h.call, buffer[r][h.call])'
        BY <1>4, <2>1, <2>3 DEF Right
    <2>. QED
        BY <1>1, <1>2, <1>6, <2>1, <2>5, <2>6, <2>7, PopKeepsFlow
<1>7. CASE r # Root
    <2>1. /\ h.n <= Len(sent) /\ UNCHANGED sent
          /\ buffer' = [buffer EXCEPT ![r][a] = sent[h.n]]
        BY <1>1, <1>2, <1>4, <1>7, HeadFacts DEF Broadcasts, Write, SetBuffer
    <2>2. PICK v : v = sent[h.n]
        OBVIOUS
    <2>3. /\ buffer'[r][a] = v
          /\ \A b \in Calls : b # a => buffer'[r][b] = buffer[r][b]
          /\ \A q \in Group : q # r => buffer'[q] = buffer[q]
        BY <2>1, <2>2 DEF Inv, LoraTypeOK
    <2>4. Right(r, a, v)'
        <3>1. Right(r, a, sent[h.n])
            BY <1>3, <1>5, <2>1, SameAdapter
        <3>2. Right(r, a, v)
            BY <2>2, <3>1
        <3>. QED
            BY <3>2, RightStays, LoraAssumption
    <2>5. Right(r, h.call, buffer[r][h.call])'
        BY <1>4, <2>3, <2>4 DEF Right
    <2>. QED
        BY <1>1, <1>2, <1>4, <1>7, <2>1, <2>3, <2>5, PopKeepsFlow
<1>. QED
    BY <1>6, <1>7
-----------------------------------------------------------------------------
(* The specification. *)

LEMMA InitEstablishesOrder == Init => Order
<1>. SUFFICES ASSUME Init PROVE Order
    OBVIOUS
<1>1. \A r \in Group : \A a \in Calls : ~ Due(r, a) /\ a > 0 /\ a \in Nat
    BY LoraAssumption DEF Init, Due, Ended, Calls
<1>2. \A r \in Group : DOMAIN joined[r] = {} /\ joined[r] = <<>>
    BY DEF Init
<1>3. \A r \in Group : \A a \in Calls : outcome[r][a] = "none"
    BY DEF Init
<1>. QED
    BY <1>1, <1>2, <1>3
    DEF Order, OutcomesOfEnded, JoinedAreDue, AllDue, JoinedOnce, JoinedInOrder

LEMMA InitEstablishesFlow == Init => Flow
<1>. SUFFICES ASSUME Init PROVE Flow
    OBVIOUS
<1>1. \A r \in Group : stream[r] = <<>> /\ DOMAIN stream[r] = {} /\ at[r] # "calling"
    BY DEF Init
<1>2. sent = <<>> /\ DOMAIN sent = {} /\ Len(sent) = 0
      /\ Root \in Group /\ Len(joined[Root]) = 0
    BY LoraAssumption DEF Init
<1>3. RootsNumbers
    BY <1>1, <1>2 DEF RootsNumbers, Sends
<1>4. RootsData
    <2>1. \A a \in Calls : weights[Root][a] = a
        BY <1>2 DEF Init
    <2>. QED
        BY <1>1, <1>2, <2>1 DEF RootsData
<1>5. ASSUME NEW r \in Group
      PROVE  InOrder(r) /\ Received(r) /\ OnTheWay(r) /\ Succeeded(r)
    <2>1. \A a \in Calls : outcome[r][a] # "returned"
        BY DEF Init
    <2>. QED
        BY <1>1, <2>1 DEF InOrder, Received, OnTheWay, Succeeded
<1>. QED
    BY <1>3, <1>4, <1>5 DEF Flow

LEMMA CopyKeepsFlow ==
    ASSUME Inv, Flow, LeftStays, NEW r \in Group, UNCHANGED input, Copy(r)
    PROVE  Flow'
<1>1. PICK op \in {"copy_in", "copy_out"} : At(r, op) /\ Enqueue(r, op)
    BY DEF Copy
<1>2. Advance(r) /\ UNCHANGED <<buffer, weights, joined, sent>>
    BY DEF Copy
<1>3. op \in {"copy_in", "broadcast", "copy_out"} /\ op # "broadcast"
    BY <1>1
<1>. QED
    BY <1>1, <1>2, <1>3, EnqueueKeepsFlow

LEMMA BroadcastKeepsFlow ==
    ASSUME Inv, Flow, LeftStays, NEW r \in Group, UNCHANGED input, Broadcast(r)
    PROVE  Flow'
<1>1. PICK op \in {"copy_in", "broadcast", "copy_out"} : op = "broadcast"
    OBVIOUS
<1>2. /\ At(r, op) /\ Enqueue(r, op) /\ Advance(r)
      /\ UNCHANGED <<buffer, weights, sent>>
      /\ joined' = [joined EXCEPT ![r] = Append(@, call[r])]
    BY <1>1 DEF Broadcast
<1>. QED
    BY <1>1, <1>2, EnqueueKeepsFlow

\* A call that returns has done all its steps; the versions before return
\* also when the last one, the free, fails.
LEMMA ReturnKeepsFlow ==
    ASSUME Inv, Flow, LeftStays, NEW r \in Group, UNCHANGED input,
           Return(r) \/ (CallFails(r) /\ ~ Current)
    PROVE  Flow'
<1>1. CASE Return(r)
    <2>1. step[r] >= Len(Program)
        BY <1>1, StepAt DEF Return
    <2>. QED
        BY <1>1, <2>1, EndKeepsFlow DEF Return
<1>2. CASE CallFails(r) /\ ~ Current
    <2>1. PICK how \in {"returned", "thrown"} :
            how = IF At(r, "free") THEN "returned" ELSE "thrown"
        OBVIOUS
    <2>2. End(r, how) /\ at[r] = "calling"
          /\ UNCHANGED <<step, call, wrapper, device>>
        BY <1>2, <2>1 DEF CallFails, At
    <2>3. how = "returned" => step[r] >= Len(Program)
        BY <2>1, StepAt
    <2>. QED
        BY <2>2, <2>3, EndKeepsFlow
<1>. QED
    BY <1>1, <1>2

LEMMA NextKeepsFlow ==
    ASSUME Inv, Order, Flow, [Next]_vars
    PROVE  Order' /\ Flow'
<1>1. ASSUME NEW r \in Group, HostStep(r)
      PROVE  Order' /\ Flow'
    <2>1. Order' /\ LeftStays /\ UNCHANGED input
        BY <1>1, HostKeepsOrder DEF HostStep
    <2>. QED
        BY <1>1, <2>1, OutsideKeepsFlow, EnterKeepsFlow, WaitingKeepsFlow,
           CopyKeepsFlow, BroadcastKeepsFlow, ReturnKeepsFlow DEF HostStep
<1>2. ASSUME NEW r \in Group, Failure(r)
      PROVE  Order' /\ Flow'
    <2>1. Order' /\ LeftStays /\ UNCHANGED input
        BY <1>2, HostKeepsOrder DEF Failure
    <2>2. CASE CleanupFails(r)
        BY <2>1, <2>2, OutsideKeepsFlow
    <2>3. CASE CallFails(r)
        BY <2>1, <2>3, OutsideKeepsFlow, ReturnKeepsFlow
    <2>. QED
        BY <1>2, <2>2, <2>3 DEF Failure
<1>3. ASSUME NEW r \in Group, DeviceStep(r)
      PROVE  Order' /\ Flow'
    <2>1. UNCHANGED <<input, host, joined>>
        BY <1>3 DEF DeviceStep, MovesIn, MovesOut, Broadcasts
    <2>2. Order' /\ LeftStays
        BY <2>1, DeviceKeepsOrder
    <2>. QED
        BY <1>3, <2>1, <2>2, MovesInKeepsFlow, MovesOutKeepsFlow,
           BroadcastsKeepsFlow DEF DeviceStep
<1>4. CASE UNCHANGED vars
    <2>1. UNCHANGED <<input, at, step, call, outcome, wrapper, stream, buffer,
                      weights, joined, sent>>
        BY <1>4 DEF vars, host, device
    <2>2. Order' /\ LeftStays
        BY <2>1, DeviceKeepsOrder DEF host
    <2>3. \A q \in Group : \A a \in Calls : Skipped(q, a) => Skipped(q, a)'
        BY <2>2, SkippedStays
    <2>4. PICK r \in Group : r = Root
        BY LoraAssumption
    <2>5. Elsewhere(r)
        BY <2>1 DEF Elsewhere, OthersStay, input
    <2>6. RootsNumbers' /\ RootsData'
        BY <2>1 DEF Flow, RootsNumbers, RootsData, Sends, Before, Calls
    <2>7. ASSUME NEW q \in Group PROVE Received(q)' /\ Succeeded(q)' /\ InOrder(q)'
        <3>1. Received(q)'
            BY <2>1, <2>2, ReceivedStays DEF Flow
        <3>2. Succeeded(q)'
            BY <2>1, <2>2, SucceededStays DEF Flow
        <3>3. InOrder(q)'
            BY <2>1 DEF Flow, InOrder
        <3>. QED
            BY <3>1, <3>2, <3>3
    <2>8. ASSUME NEW q \in Group PROVE OnTheWay(q)'
        <3>. SUFFICES ASSUME at[q] = "calling" PROVE OnTheWay(q)'
            BY <2>1 DEF OnTheWay
        <3>1. PICK c \in Calls : c = call[q]
            BY Standing
        <3>2. /\ Right(q, call[q], buffer[q][call[q]]) =>
                    Right(q, call[q], buffer[q][call[q]])'
              /\ Right(q, call[q], weights[q][call[q]]) =>
                    Right(q, call[q], weights[q][call[q]])'
            BY <2>1, <2>3, <2>4, <3>1 DEF Right
        <3>3. OnTheWay(q)
            BY DEF Flow
        <3>. HIDE DEF Right
        <3>. QED
            BY <2>1, <3>2, <3>3, InputConstants DEF OnTheWay, Queued
    <2>. QED
        BY <2>2, <2>6, <2>7, <2>8 DEF Flow
<1>. QED
    BY <1>1, <1>2, <1>3, <1>4 DEF Next

\* Who returns has the root's weights of that adapter, unless it or the root
\* has left a call.  (broadcast_lora_adapter, for any number of ranks and
\* adapters, whichever calls fail and whether or not a broadcast waits)
THEOREM SuccessHasRootsWeightsInvariant == Spec => []SuccessHasRootsWeights
<1>1. Init => Order /\ Flow
    BY InitEstablishesOrder, InitEstablishesFlow
<1>2. Inv /\ Order /\ Flow /\ [Next]_vars => (Order /\ Flow)'
    BY NextKeepsFlow
<1>3. Flow => SuccessHasRootsWeights
    BY DEF Flow, Succeeded, Right, SuccessHasRootsWeights
<1>. QED
    BY <1>1, <1>2, <1>3, InvInvariant, PTL DEF Spec
=============================================================================
