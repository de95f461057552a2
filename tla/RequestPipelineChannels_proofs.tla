------------------- MODULE RequestPipelineChannels_proofs -------------------
(***************************************************************************)
(* Proof that the gateway and the workers stay in step on their MPI        *)
(* channels, for any number of ranks, requests and either kind of MPI      *)
(* library, also when MPI calls fail.                                      *)
(*                                                                         *)
(* ChannelsQuiet speaks of the moments between two exchanges; the          *)
(* inductive invariant InStep says where each frame is at every moment     *)
(* within one.                                                             *)
(***************************************************************************)
EXTENDS RequestPipeline_proofs

RequestTags  == <<"request_id", "model_length", "model_data",
                  "prompt_length", "prompt_data">>
ResponseTags == <<"response_id", "response_length", "response_data">>

\* Nothing is under way to or from worker w, and it has nothing to send.
Quiet(w) ==
    /\ to_worker[w] = <<>>
    /\ from_worker[w] = <<>>
    /\ w_out[w] = <<>>
    /\ w_pc[w] \in {"request_id", "respond", "failed"}

\* Worker w has received k frames of the request; the others are under way
\* or still to be sent, in their order.
Receiving(w, k) ==
    /\ Len(to_worker[w]) + Len(outbox) = 5 - k
    /\ \A i \in DOMAIN to_worker[w] :
        to_worker[w][i].tag = RequestTags[k + i]
    /\ \A i \in DOMAIN outbox :
        outbox[i].tag = RequestTags[k + Len(to_worker[w]) + i]
    /\ \/ w_pc[w] \in {"failed", "finalize"}
       \/ k = 0 /\ w_pc[w] \in {"request_id", "respond"}
       \/ k \in 1 .. 4 /\ w_pc[w] = RequestTags[k + 1]
       \/ k = 5 /\ w_pc[w] = "handle"

Unserved(w) ==
    /\ d_pc \in {"send", "response_id"}
    /\ from_worker[w] = <<>>
    /\ w_out[w] = <<>>
    /\ \E k \in 0 .. 5 : Receiving(w, k)

\* The j-th frame of a response of n frames.
IsReplyFrame(frame, j, n) ==
    /\ frame.tag = ResponseTags[j]
    /\ j = 2 => frame.val = IF n = 2 THEN "zero" ELSE "fits"

\* Of the n frames of the response all but m are under way or to be sent.
Replies(w, n, m) ==
    /\ Len(from_worker[w]) + Len(w_out[w]) = n - m
    /\ \A i \in DOMAIN from_worker[w] :
        IsReplyFrame(from_worker[w][i], m + i, n)
    /\ \A i \in DOMAIN w_out[w] :
        IsReplyFrame(w_out[w][i], m + Len(from_worker[w]) + i, n)

\* Where the dispatcher stands when it has received m of n frames.
Expects(n, m) ==
    \/ m = 0 /\ d_pc \in {"send", "response_id"}
    \/ m = 1 /\ d_pc = "response_length"
    \/ m = 2 /\ n = 3 /\ d_pc = "response_data"
    \/ m = n /\ d_pc \in {"put", "release"}

Served(w) ==
    /\ to_worker[w] = <<>>
    /\ outbox = <<>>
    /\ w_pc[w] \in {"request_id", "respond", "failed"}
    /\ w_pc[w] = "request_id" => w_out[w] = <<>>
    /\ \E n \in {2, 3} : \E m \in 0 .. n : Replies(w, n, m) /\ Expects(n, m)

\* The shutdown message was sent to worker w.
Told(w) ==
    /\ from_worker[w] = <<>>
    /\ w_out[w] = <<>>
    /\ \/ /\ Len(to_worker[w]) = 1
          /\ to_worker[w][1] = ShutdownFrames[w]
          /\ w_pc[w] \in {"request_id", "respond", "failed"}
       \/ to_worker[w] = <<>> /\ w_pc[w] \in {"finalize", "exited"}

BetweenExchanges == d_pc \in {"check", "schedule"}

InExchange == d_pc \in {"send", "response_id", "response_length",
                        "response_data", "put", "release"}

\* The first worker whose shutdown message is still to be sent.
NextToTell == WorldSize - Len(outbox)

IdleInStep == BetweenExchanges => \A w \in Workers : Quiet(w)

ExchangeInStep ==
    InExchange =>
        /\ \A i \in DOMAIN outbox : \E a \in assigned : outbox[i].to = a.rank
        /\ \A w \in Workers :
            IF \E a \in assigned : a.rank = w
            THEN Unserved(w) \/ Served(w)
            ELSE Quiet(w)

ShutdownInStep ==
    d_pc \in {"stop", "done"} =>
        /\ Len(outbox) <= WorldSize - 1
        /\ \A i \in DOMAIN outbox : outbox[i] = ShutdownFrames[NextToTell - 1 + i]
        /\ \A w \in Workers : IF w < NextToTell THEN Told(w) ELSE Quiet(w)

EndInStep ==
    /\ d_pc = "done" => outbox = <<>>
    /\ main_pc \in {"finalize", "exited"} => d_pc = "done"
    /\ main_pc = "exited" =>
        \A w \in Workers : w_pc[w] \in {"finalize", "exited"}

InStep == IdleInStep /\ ExchangeInStep /\ ShutdownInStep /\ EndInStep
-----------------------------------------------------------------------------
(* Sequences. *)

(* Removing the i-th element of s removes its head. *)
HeadTaken(s, i) ==
    /\ i = 1 /\ s # <<>> /\ Len(s) >= 1
    /\ RemoveAt(s, i) = Tail(s)
    /\ Len(Tail(s)) = Len(s) - 1
    /\ \A j \in DOMAIN Tail(s) : Tail(s)[j] = s[j + 1]

(* A receive whose tag is that of the first frame takes the first frame. *)
LEMMA TakesFirst ==
  ASSUME NEW S, NEW s \in Seq(S), NEW tag, NEW i, IsFirst(s, i, tag),
         s[1].tag = tag
  PROVE  HeadTaken(s, i)
<1>1. i \in 1 .. Len(s) /\ Len(s) \in Nat
  BY DEF IsFirst
<1>2. i = 1
  <2>1. i > 1 => 1 \in 1 .. i - 1
    BY <1>1
  <2> QED
    BY <1>1, <2>1 DEF IsFirst
<1>3. s # <<>>
  BY <1>1
<1>4. RemoveAt(s, 1) = Tail(s)
  <2>1. SubSeq(s, 1, 1 - 1) = <<>>
    BY SubSeqEmpty
  <2>2. SubSeq(s, 1 + 1, Len(s)) = Tail(s)
    BY <1>3, TailIsSubSeq
  <2>3. Tail(s) \in Seq(S)
    BY <1>3, HeadTailProperties
  <2> QED
    BY <2>1, <2>2, <2>3, ConcatEmptySeq DEF RemoveAt
<1>5. Tail(s) \in Seq(S) /\ Len(Tail(s)) = Len(s) - 1
      /\ \A j \in 1 .. Len(Tail(s)) : Tail(s)[j] = s[j + 1]
  BY <1>3, HeadTailProperties
<1>6. DOMAIN Tail(s) = 1 .. Len(Tail(s))
  BY <1>5, LenProperties
<1> QED
  BY <1>1, <1>2, <1>3, <1>4, <1>5, <1>6 DEF HeadTaken

(* A send moves the head of one sequence to the end of another one. *)
LEMMA MovesHead ==
  ASSUME NEW S, NEW from \in Seq(S), NEW to \in Seq(S), from # <<>>
  PROVE  /\ Head(from) = from[1] /\ 1 \in DOMAIN from
         /\ Len(Tail(from)) = Len(from) - 1
         /\ \A j \in DOMAIN Tail(from) : j + 1 \in DOMAIN from
                                          /\ Tail(from)[j] = from[j + 1]
         /\ Len(Append(to, from[1])) = Len(to) + 1
         /\ \A j \in DOMAIN Append(to, from[1]) :
                \/ j \in DOMAIN to /\ Append(to, from[1])[j] = to[j]
                \/ j = Len(to) + 1 /\ Append(to, from[1])[j] = from[1]
<1>1. Tail(from) \in Seq(S) /\ Len(Tail(from)) = Len(from) - 1
      /\ \A j \in 1 .. Len(Tail(from)) : Tail(from)[j] = from[j + 1]
  BY HeadTailProperties
<1>2. Len(from) \in Nat /\ Len(from) >= 1 /\ DOMAIN from = 1 .. Len(from)
      /\ Head(from) = from[1]
  OBVIOUS
<1>3. DOMAIN Tail(from) = 1 .. Len(Tail(from))
  BY <1>1, LenProperties
<1>4. from[1] \in S
  BY <1>2
<1>5. /\ Append(to, from[1]) \in Seq(S)
      /\ Len(Append(to, from[1])) = Len(to) + 1
      /\ \A j \in 1 .. Len(to) : Append(to, from[1])[j] = to[j]
      /\ Append(to, from[1])[Len(to) + 1] = from[1]
  BY <1>4, AppendProperties
<1>6. /\ DOMAIN Append(to, from[1]) = 1 .. Len(to) + 1
      /\ Len(to) \in Nat /\ DOMAIN to = 1 .. Len(to)
  BY <1>5, LenProperties
<1>7. \A j \in 1 .. Len(to) + 1 : j \in 1 .. Len(to) \/ j = Len(to) + 1
  BY <1>6
<1>8. \A j \in DOMAIN Tail(from) : j + 1 \in DOMAIN from
  BY <1>1, <1>2, <1>3
<1> QED
  BY <1>1, <1>2, <1>3, <1>5, <1>6, <1>7, <1>8
-----------------------------------------------------------------------------
(* The steps of a worker. *)

(* What a receive of a request's frame does to the worker's channel. *)
LEMMA RequestFrameTaken ==
  ASSUME Typed, NEW w \in Workers, NEW tag, NEW val, RequestFrame(w, tag, val),
         to_worker[w][1].tag = tag
  PROVE  /\ w_pc[w] = tag /\ to_worker[w] # <<>>
         /\ val = to_worker[w][1].val
         /\ to_worker' = [to_worker EXCEPT ![w] = Tail(to_worker[w])]
         /\ Len(Tail(to_worker[w])) = Len(to_worker[w]) - 1
         /\ \A j \in DOMAIN Tail(to_worker[w]) :
                Tail(to_worker[w])[j] = to_worker[w][j + 1]
<1>1. PICK i \in DOMAIN to_worker[w] :
        /\ IsFirst(to_worker[w], i, tag)
        /\ val = to_worker[w][i].val
        /\ to_worker' = [to_worker EXCEPT ![w] = RemoveAt(to_worker[w], i)]
  BY DEF RequestFrame
<1>2. to_worker[w] \in Seq(RequestFrameSet)
  BY DEF Typed
<1>3. /\ i = 1 /\ to_worker[w] # <<>>
      /\ RemoveAt(to_worker[w], i) = Tail(to_worker[w])
      /\ Len(Tail(to_worker[w])) = Len(to_worker[w]) - 1
      /\ \A j \in DOMAIN Tail(to_worker[w]) :
             Tail(to_worker[w])[j] = to_worker[w][j + 1]
  <2>1. IsFirst(to_worker[w], i, tag)
    BY <1>1
  <2>2. HeadTaken(to_worker[w], i)
    BY <1>2, <2>1, TakesFirst
  <2> QED
    BY <2>2 DEF HeadTaken
<1>4. w_pc[w] = tag
  BY DEF RequestFrame
<1> QED
  BY <1>1, <1>3, <1>4

(* A worker with nothing under way receives nothing. *)
LEMMA NothingToReceive ==
  ASSUME NEW w \in Workers, to_worker[w] = <<>>
  PROVE  \A tag, val : ~RequestFrame(w, tag, val)
BY DEF RequestFrame

(* What worker w does, by what can change for it. *)
Receives(w) ==
    \/ ReceiveId(w)
    \/ ReceiveLength(w, "model_length", "model_data") \/ ReceiveModel(w)
    \/ ReceiveLength(w, "prompt_length", "prompt_data") \/ ReceivePrompt(w)

Moves(w) ==
    Receives(w) \/ RejectRequest(w) \/ LoadBackend(w) \/ Generate(w)
    \/ BackendThrows(w) \/ SendResponseFrame(w) \/ NextRequest(w)
    \/ WorkerExits(w) \/ WorkerMpiCallFails(w)

(* A step of one worker leaves the dispatcher and the other workers alone. *)
LEMMA OthersStay ==
  ASSUME Typed, NEW v \in Workers, Moves(v)
  PROVE  /\ UNCHANGED <<d_pc, outbox, assigned, main_pc>>
         /\ \A w \in Workers : w # v =>
              UNCHANGED <<to_worker[w], from_worker[w], w_out[w], w_pc[w]>>
<1> USE DEF Typed, dispVars, mainVars, netVars
<1>1. ASSUME Receives(v)
      PROVE  /\ UNCHANGED <<d_pc, outbox, assigned, main_pc, from_worker, w_out>>
             /\ \A w \in Workers : w # v => UNCHANGED <<to_worker[w], w_pc[w]>>
  <2>1. \A tag, val : RequestFrame(v, tag, val) =>
          \A w \in Workers : w # v => to_worker'[w] = to_worker[w]
    BY DEF RequestFrame
  <2>2. CASE ReceiveId(v)
    BY <2>1, <2>2 DEF ReceiveId
  <2>3. ASSUME NEW length_tag, NEW data_tag, ReceiveLength(v, length_tag, data_tag)
        PROVE  /\ UNCHANGED <<d_pc, outbox, assigned, main_pc, from_worker, w_out>>
               /\ \A w \in Workers : w # v => UNCHANGED <<to_worker[w], w_pc[w]>>
    BY <2>1, <2>3 DEF ReceiveLength
  <2>4. CASE ReceiveModel(v)
    BY <2>1, <2>4 DEF ReceiveModel
  <2>5. CASE ReceivePrompt(v)
    BY <2>1, <2>5 DEF ReceivePrompt
  <2> QED
    BY <1>1, <2>2, <2>3, <2>4, <2>5 DEF Receives
<1>2. CASE RejectRequest(v) \/ Generate(v) \/ BackendThrows(v)
  BY <1>2 DEF RejectRequest, Generate, BackendThrows, Respond
<1>3. CASE LoadBackend(v) \/ SendResponseFrame(v) \/ NextRequest(v)
  BY <1>3 DEF LoadBackend, SendResponseFrame, NextRequest
<1>4. CASE WorkerExits(v) \/ WorkerMpiCallFails(v)
  BY <1>4 DEF WorkerExits, WorkerMpiCallFails, workerVars
<1> QED
  BY <1>1, <1>2, <1>3, <1>4 DEF Moves

(* A quiet worker stays quiet, whatever it does. *)
LEMMA QuietKept ==
  ASSUME Typed, NEW w \in Workers, Moves(w), Quiet(w)
  PROVE  Quiet(w)'
<1> USE DEF Typed, Quiet, netVars
<1>1. ~Receives(w)
  BY NothingToReceive DEF Receives, ReceiveId, ReceiveLength, ReceiveModel,
    ReceivePrompt
<1>2. CASE NextRequest(w) \/ WorkerMpiCallFails(w)
  BY <1>2 DEF NextRequest, WorkerMpiCallFails
<1>3. ~(RejectRequest(w) \/ LoadBackend(w) \/ Generate(w) \/ BackendThrows(w)
        \/ SendResponseFrame(w) \/ WorkerExits(w))
  BY DEF RejectRequest, LoadBackend, Generate, BackendThrows,
    SendResponseFrame, WorkerExits
<1> QED
  BY <1>1, <1>2, <1>3 DEF Moves

(* A worker that was sent the shutdown message takes it for one. *)
LEMMA ToldKept ==
  ASSUME Typed, NEW w \in Workers, Moves(w), Told(w)
  PROVE  Told(w)'
<1>1. ASSUME Receives(w)
      PROVE  Told(w)'
  <2>0. to_worker[w] # <<>>
    BY <1>1, NothingToReceive DEF Receives, ReceiveId, ReceiveLength,
      ReceiveModel, ReceivePrompt
  <2>1. /\ Len(to_worker[w]) = 1
        /\ to_worker[w][1] = ShutdownFrames[w]
        /\ w_pc[w] \in {"request_id", "respond", "failed"}
        /\ from_worker[w] = <<>> /\ w_out[w] = <<>>
    BY <2>0 DEF Told
  <2>2. to_worker[w][1].tag = "request_id" /\ to_worker[w][1].val = -1
    BY <2>1 DEF ShutdownFrames
  <2>3. ReceiveId(w)
    BY <1>1, <2>1 DEF Receives, ReceiveLength, ReceiveModel, ReceivePrompt,
      RequestFrame
  <2>4. PICK id \in Ids :
          /\ RequestFrame(w, "request_id", id)
          /\ id < 0 => w_pc' = [w_pc EXCEPT ![w] = "finalize"]
          /\ UNCHANGED <<from_worker, w_out>>
    BY <2>3 DEF ReceiveId
  <2>5. /\ id = to_worker[w][1].val
        /\ to_worker' = [to_worker EXCEPT ![w] = Tail(to_worker[w])]
    BY <2>2, <2>4, RequestFrameTaken
  <2>6. Tail(to_worker[w]) = <<>>
    <3>1. to_worker[w] \in Seq(RequestFrameSet)
      BY DEF Typed
    <3>2. Tail(to_worker[w]) \in Seq(RequestFrameSet)
          /\ Len(Tail(to_worker[w])) = 0
      BY <2>0, <2>1, <3>1, HeadTailProperties
    <3> QED
      BY <3>2, EmptySeq
  <2>7. w_pc' = [w_pc EXCEPT ![w] = "finalize"]
    BY <2>2, <2>4, <2>5
  <2>8. to_worker'[w] = <<>> /\ w_pc'[w] = "finalize"
    BY <2>5, <2>6, <2>7 DEF Typed
  <2> QED
    BY <2>1, <2>4, <2>8 DEF Told
<1>2. ASSUME NextRequest(w) \/ WorkerMpiCallFails(w)
      PROVE  Told(w)'
  BY <1>2 DEF NextRequest, WorkerMpiCallFails, Told, Typed, netVars
<1>3. ASSUME WorkerExits(w)
      PROVE  Told(w)'
  BY <1>3 DEF WorkerExits, Told, Typed, netVars
<1>4. ~(RejectRequest(w) \/ LoadBackend(w) \/ Generate(w) \/ BackendThrows(w)
        \/ SendResponseFrame(w))
  BY DEF RejectRequest, LoadBackend, Generate, BackendThrows,
    SendResponseFrame, Told
<1> QED
  BY <1>1, <1>2, <1>3, <1>4 DEF Moves

(* A response is two frames, or three. *)
LEMMA ResponseShape ==
  ASSUME NEW id, NEW result
  PROVE  \E n \in {2, 3} :
            /\ Len(ResponseFrames(id, result)) = n
            /\ DOMAIN ResponseFrames(id, result) = 1 .. n
            /\ \A i \in 1 .. n : IsReplyFrame(ResponseFrames(id, result)[i], i, n)
<1> DEFINE first == [tag |-> "response_id", val |-> id]
           zero  == [tag |-> "response_length", val |-> "zero"]
           fits  == [tag |-> "response_length", val |-> "fits"]
           data  == [tag |-> "response_data", val |-> result]
           S     == {first, zero, fits, data}
           frames == ResponseFrames(id, result)
<1>1. /\ first.tag = "response_id"
      /\ zero.tag = "response_length" /\ zero.val = "zero"
      /\ fits.tag = "response_length" /\ fits.val = "fits"
      /\ data.tag = "response_data"
  OBVIOUS
<1>2. CASE result = <<>>
  <2>1. frames = <<first>> \o <<zero>>
    BY <1>2 DEF ResponseFrames
  <2> HIDE DEF first, zero, frames
  <2>2. <<first>> \in Seq(S) /\ <<zero>> \in Seq(S)
    OBVIOUS
  <2>3. /\ frames \in Seq(S) /\ Len(frames) = 2
        /\ frames[1] = first /\ frames[2] = zero
    BY <2>1, <2>2, ConcatProperties
  <2>4. DOMAIN frames = 1 .. 2
    BY <2>3, LenProperties
  <2>5. \A i \in 1 .. 2 : IsReplyFrame(frames[i], i, 2)
    BY <1>1, <2>3 DEF IsReplyFrame, ResponseTags
  <2> QED
    BY <2>3, <2>4, <2>5 DEF frames
<1>3. CASE result # <<>>
  <2>1. frames = <<first>> \o <<fits, data>>
    BY <1>3 DEF ResponseFrames
  <2> HIDE DEF first, fits, data, frames
  <2>2. <<first>> \in Seq(S) /\ <<fits, data>> \in Seq(S)
    OBVIOUS
  <2>3. /\ frames \in Seq(S) /\ Len(frames) = 3
        /\ frames[1] = first /\ frames[2] = fits /\ frames[3] = data
    BY <2>1, <2>2, ConcatProperties
  <2>4. DOMAIN frames = 1 .. 3
    BY <2>3, LenProperties
  <2>5. \A i \in 1 .. 3 : IsReplyFrame(frames[i], i, 3)
    BY <1>1, <2>3 DEF IsReplyFrame, ResponseTags
  <2> QED
    BY <2>3, <2>4, <2>5 DEF frames
<1> QED
  BY <1>2, <1>3

(* The worker's program follows the order of the request's frames. *)
LEMMA WorkerProgram ==
  ASSUME Typed, NEW w \in Workers, Receives(w), NEW k \in 0 .. 4,
         k = 0 => w_pc[w] \in {"request_id", "respond", "failed", "finalize"},
         k > 0 => w_pc[w] \in {RequestTags[k + 1], "failed", "finalize"}
  PROVE  /\ \E val : RequestFrame(w, RequestTags[k + 1], val)
         /\ \/ w_pc'[w] \in {"failed", "finalize"}
            \/ k < 4 /\ w_pc'[w] = RequestTags[k + 2]
            \/ k = 4 /\ w_pc'[w] = "handle"
         /\ UNCHANGED <<from_worker, w_out, outbox, d_pc>>
<1> DEFINE Step(tag, next) ==
             /\ w_pc[w] = tag
             /\ \E val : RequestFrame(w, tag, val)
             /\ w_pc'[w] \in {next, "failed", "finalize"}
<1>1. w_pc \in [Workers -> WorkerStates]
  BY DEF Typed
<1>2. \A tag, val : RequestFrame(w, tag, val) => w_pc[w] = tag
  BY DEF RequestFrame
<1>3. ReceiveId(w) => Step("request_id", "model_length")
  BY <1>1, <1>2 DEF ReceiveId
<1>4. ReceiveLength(w, "model_length", "model_data") =>
        Step("model_length", "model_data")
  BY <1>1, <1>2 DEF ReceiveLength
<1>5. ReceiveModel(w) => Step("model_data", "prompt_length")
  BY <1>1, <1>2 DEF ReceiveModel
<1>6. ReceiveLength(w, "prompt_length", "prompt_data") =>
        Step("prompt_length", "prompt_data")
  BY <1>1, <1>2 DEF ReceiveLength
<1>7. ReceivePrompt(w) => Step("prompt_data", "handle")
  BY <1>1, <1>2 DEF ReceivePrompt
<1>8. UNCHANGED <<from_worker, w_out, outbox, d_pc>>
  BY DEF Receives, ReceiveId, ReceiveLength, ReceiveModel, ReceivePrompt, dispVars
<1>9. /\ k \in {0, 1, 2, 3, 4}
      /\ k = 0 => k + 1 = 1 /\ k + 2 = 2
      /\ k = 1 => k + 1 = 2 /\ k + 2 = 3
      /\ k = 2 => k + 1 = 3 /\ k + 2 = 4
      /\ k = 3 => k + 1 = 4 /\ k + 2 = 5
      /\ k = 4 => k + 1 = 5
  OBVIOUS
<1>10. /\ RequestTags[1] = "request_id" /\ RequestTags[2] = "model_length"
       /\ RequestTags[3] = "model_data" /\ RequestTags[4] = "prompt_length"
       /\ RequestTags[5] = "prompt_data"
  BY DEF RequestTags
<1>11. \/ Step("request_id", "model_length") \/ Step("model_length", "model_data")
       \/ Step("model_data", "prompt_length")
       \/ Step("prompt_length", "prompt_data") \/ Step("prompt_data", "handle")
  BY <1>3, <1>4, <1>5, <1>6, <1>7 DEF Receives
<1>12. \/ k = 0 /\ Step("request_id", "model_length")
       \/ k = 1 /\ Step("model_length", "model_data")
       \/ k = 2 /\ Step("model_data", "prompt_length")
       \/ k = 3 /\ Step("prompt_length", "prompt_data")
       \/ k = 4 /\ Step("prompt_data", "handle")
  BY <1>9, <1>10, <1>11
<1> QED
  BY <1>8, <1>9, <1>10, <1>12

(* A worker that is being sent a request receives it frame by frame, and   *)
(* then begins to answer - or fails, and never answers.                    *)
LEMMA UnservedKept ==
  ASSUME Typed, NEW w \in Workers, Moves(w), Unserved(w),
         main_pc \notin {"finalize", "exited"}
  PROVE  Unserved(w)' \/ Served(w)'
<1>0. PICK k \in 0 .. 5 : Receiving(w, k)
  BY DEF Unserved
<1>t. /\ to_worker[w] \in Seq(RequestFrameSet) /\ outbox \in Seq(RequestFrameSet)
      /\ Len(to_worker[w]) \in Nat /\ Len(outbox) \in Nat
      /\ DOMAIN to_worker[w] = 1 .. Len(to_worker[w])
      /\ DOMAIN outbox = 1 .. Len(outbox)
  <2>1. to_worker[w] \in Seq(RequestFrameSet) /\ outbox \in Seq(RequestFrameSet)
    BY DEF Typed
  <2> QED
    BY <2>1, LenProperties
<1>1. ASSUME Receives(w)
      PROVE  Unserved(w)'
  <2>1. to_worker[w] # <<>>
    BY <1>1, NothingToReceive DEF Receives, ReceiveId, ReceiveLength,
      ReceiveModel, ReceivePrompt
  <2>2. Len(to_worker[w]) >= 1
    BY <1>t, <2>1, EmptySeq
  <2>3. k \in 0 .. 4
    BY <1>0, <1>t, <2>2 DEF Receiving
  <2>4. to_worker[w][1].tag = RequestTags[k + 1]
    BY <1>0, <1>t, <2>2 DEF Receiving
  <2>5. /\ k = 0 => w_pc[w] \in {"request_id", "respond", "failed", "finalize"}
        /\ k > 0 => w_pc[w] \in {RequestTags[k + 1], "failed", "finalize"}
    BY <1>0, <2>3 DEF Receiving
  <2>6. /\ \E val : RequestFrame(w, RequestTags[k + 1], val)
        /\ \/ w_pc'[w] \in {"failed", "finalize"}
           \/ k < 4 /\ w_pc'[w] = RequestTags[k + 2]
           \/ k = 4 /\ w_pc'[w] = "handle"
        /\ UNCHANGED <<from_worker, w_out, outbox, d_pc>>
    BY <1>1, <2>3, <2>5, WorkerProgram
  <2>7. /\ to_worker' = [to_worker EXCEPT ![w] = Tail(to_worker[w])]
        /\ Len(Tail(to_worker[w])) = Len(to_worker[w]) - 1
        /\ \A j \in DOMAIN Tail(to_worker[w]) :
               Tail(to_worker[w])[j] = to_worker[w][j + 1]
    BY <2>4, <2>6, RequestFrameTaken
  <2>8. to_worker'[w] = Tail(to_worker[w])
    BY <2>7 DEF Typed
  <2>9. Tail(to_worker[w]) \in Seq(RequestFrameSet)
        /\ DOMAIN Tail(to_worker[w]) = 1 .. Len(to_worker[w]) - 1
    BY <1>t, <2>1, <2>7, HeadTailProperties, LenProperties
  <2>p. /\ Len(to_worker'[w]) = Len(to_worker[w]) - 1
        /\ Len(to_worker[w]) + Len(outbox) = 5 - k
        /\ outbox' = outbox
    BY <1>0, <2>6, <2>7, <2>8 DEF Receiving
  <2>10. Len(to_worker'[w]) + Len(outbox') = 5 - (k + 1)
    BY <1>t, <2>3, <2>p
  <2>11. \A i \in DOMAIN to_worker'[w] :
           to_worker'[w][i].tag = RequestTags[(k + 1) + i]
    <3> SUFFICES ASSUME NEW i \in DOMAIN to_worker'[w]
                 PROVE  to_worker'[w][i].tag = RequestTags[(k + 1) + i]
      OBVIOUS
    <3>1. i \in Int /\ i + 1 \in DOMAIN to_worker[w]
          /\ to_worker'[w][i] = to_worker[w][i + 1]
      <4>1. i \in DOMAIN Tail(to_worker[w])
        BY <2>8
      <4>2. i \in 1 .. Len(to_worker[w]) - 1
        BY <2>9, <4>1
      <4>3. i \in Int /\ i + 1 \in 1 .. Len(to_worker[w])
        BY <1>t, <4>2
      <4>4. to_worker'[w][i] = to_worker[w][i + 1]
        BY <2>7, <2>8, <4>1
      <4> QED
        BY <1>t, <4>3, <4>4
    <3>2. to_worker[w][i + 1].tag = RequestTags[k + (i + 1)]
      BY <1>0, <3>1 DEF Receiving
    <3>3. k + (i + 1) = (k + 1) + i
      BY <3>1, <2>3
    <3> QED
      BY <3>1, <3>2, <3>3
  <2>12. \A i \in DOMAIN outbox' :
           outbox'[i].tag = RequestTags[(k + 1) + Len(to_worker'[w]) + i]
    <3>1. (k + 1) + Len(to_worker'[w]) = k + Len(to_worker[w])
      <4>1. Len(to_worker[w]) \in Int /\ Len(to_worker'[w]) \in Int /\ k \in Int
            /\ Len(to_worker'[w]) = Len(to_worker[w]) - 1
        BY <1>t, <2>3, <2>p
      <4>2. \A a, b, c \in Int : a = b - 1 => (c + 1) + a = c + b
        OBVIOUS
      <4> QED
        BY <4>1, <4>2
    <3> QED
      BY <1>0, <2>6, <3>1 DEF Receiving
  <2>13. k + 1 \in 1 .. 5 /\ (k + 1) + 1 = k + 2 /\ ~(k < 4 /\ k + 1 = 5)
    BY <2>3
  <2>14. Receiving(w, k + 1)'
    BY <2>3, <2>6, <2>10, <2>11, <2>12, <2>13 DEF Receiving
  <2>15. k + 1 \in 0 .. 5
    BY <2>3
  <2> QED
    BY <2>6, <2>14, <2>15 DEF Unserved
<1>2. ASSUME NEW result, w_pc[w] = "handle", Respond(w, result)
      PROVE  Served(w)'
  <2>1. k = 5
    BY <1>0, <1>2 DEF Receiving, RequestTags
  <2>2. to_worker[w] = <<>> /\ outbox = <<>>
    BY <1>0, <1>t, <2>1, EmptySeq DEF Receiving
  <2>3. /\ w_out'[w] = ResponseFrames(w_req[w].id, result)
        /\ w_pc'[w] = "respond" /\ from_worker'[w] = <<>>
        /\ UNCHANGED <<to_worker, outbox, d_pc>>
    BY <1>2 DEF Respond, Typed, Unserved, netVars, dispVars
  <2>4. PICK n \in {2, 3} :
          /\ Len(w_out'[w]) = n /\ DOMAIN w_out'[w] = 1 .. n
          /\ \A i \in 1 .. n : IsReplyFrame(w_out'[w][i], i, n)
    BY <2>3, ResponseShape
  <2>5. /\ Len(from_worker'[w]) = 0 /\ DOMAIN from_worker'[w] = {}
    BY <2>3
  <2>6. \A i \in DOMAIN w_out'[w] :
          IsReplyFrame(w_out'[w][i], 0 + Len(from_worker'[w]) + i, n)
    <3> SUFFICES ASSUME NEW i \in DOMAIN w_out'[w]
                 PROVE  IsReplyFrame(w_out'[w][i], 0 + Len(from_worker'[w]) + i, n)
      OBVIOUS
    <3>1. i \in Int
      BY <2>4
    <3>2. 0 + Len(from_worker'[w]) + i = i
      BY <2>5, <3>1
    <3> QED
      BY <2>4, <3>2
  <2>7. Replies(w, n, 0)' /\ Expects(n, 0)'
    BY <2>3, <2>4, <2>5, <2>6 DEF Replies, Expects, Unserved
  <2>8. \E m \in 0 .. n : Replies(w, n, m)' /\ Expects(n, m)'
    BY <2>7
  <2> QED
    BY <2>2, <2>3, <2>8 DEF Served
<1>3. CASE RejectRequest(w) \/ Generate(w) \/ BackendThrows(w)
  BY <1>2, <1>3 DEF RejectRequest, Generate, BackendThrows
<1>4. ASSUME UNCHANGED <<to_worker, from_worker, w_out, outbox, d_pc>>,
             \/ w_pc'[w] = w_pc[w]
             \/ w_pc'[w] = "failed"
             \/ w_pc[w] = "respond" /\ w_pc'[w] = "request_id"
      PROVE  Unserved(w)'
  <2>1. w_pc[w] = "respond" => k = 0
    BY <1>0 DEF Receiving, RequestTags
  <2>2. Receiving(w, k)'
    BY <1>0, <1>4, <2>1 DEF Receiving
  <2> QED
    BY <1>4, <2>2 DEF Unserved
<1>5. CASE LoadBackend(w) \/ NextRequest(w) \/ WorkerMpiCallFails(w)
  BY <1>4, <1>5 DEF LoadBackend, NextRequest, WorkerMpiCallFails, Typed,
    netVars, dispVars
<1>6. ~SendResponseFrame(w) /\ ~WorkerExits(w)
  BY DEF SendResponseFrame, WorkerExits, Finalizing, Unserved
<1> QED
  BY <1>1, <1>3, <1>5, <1>6 DEF Moves

(* A worker that answers sends its frames in order and then waits for the  *)
(* next request.                                                           *)
LEMMA ServedKept ==
  ASSUME Typed, NEW w \in Workers, Moves(w), Served(w)
  PROVE  Served(w)'
<1>0. PICK n \in {2, 3} : \E m \in 0 .. n : Replies(w, n, m) /\ Expects(n, m)
  BY DEF Served
<1>1. PICK m \in 0 .. n : Replies(w, n, m) /\ Expects(n, m)
  BY <1>0
<1>2. ~Receives(w)
  BY NothingToReceive DEF Receives, ReceiveId, ReceiveLength, ReceiveModel,
    ReceivePrompt, Served
<1>3. ~(RejectRequest(w) \/ LoadBackend(w) \/ Generate(w) \/ BackendThrows(w)
        \/ WorkerExits(w))
  BY DEF RejectRequest, LoadBackend, Generate, BackendThrows, WorkerExits, Served
<1>4. ASSUME NextRequest(w) \/ WorkerMpiCallFails(w)
      PROVE  Served(w)'
  <2>1. /\ UNCHANGED <<to_worker, from_worker, w_out, outbox, d_pc>>
        /\ \/ w_pc'[w] = "failed"
           \/ w_pc'[w] = "request_id" /\ w_out[w] = <<>>
    BY <1>4 DEF NextRequest, WorkerMpiCallFails, Typed, netVars, dispVars
  <2>2. Replies(w, n, m)' /\ Expects(n, m)'
    BY <1>1, <2>1 DEF Replies, Expects
  <2> QED
    BY <2>1, <2>2 DEF Served
<1>5. ASSUME SendResponseFrame(w)
      PROVE  Served(w)'
  <2> DEFINE out == w_out[w]
             from == from_worker[w]
  <2>1. out \in Seq(ResponseFrameSet) /\ from \in Seq(ResponseFrameSet)
        /\ out # <<>>
    BY <1>5 DEF SendResponseFrame, Typed
  <2>2. /\ w_out'[w] = Tail(out) /\ from_worker'[w] = Append(from, Head(out))
        /\ UNCHANGED <<to_worker, outbox, d_pc, w_pc>> /\ w_pc[w] = "respond"
    BY <1>5 DEF SendResponseFrame, Typed, dispVars
  <2>3. /\ Head(out) = out[1] /\ 1 \in DOMAIN out
        /\ Len(Tail(out)) = Len(out) - 1
        /\ \A j \in DOMAIN Tail(out) : j + 1 \in DOMAIN out
                                         /\ Tail(out)[j] = out[j + 1]
        /\ Len(Append(from, out[1])) = Len(from) + 1
        /\ \A j \in DOMAIN Append(from, out[1]) :
               \/ j \in DOMAIN from /\ Append(from, out[1])[j] = from[j]
               \/ j = Len(from) + 1 /\ Append(from, out[1])[j] = out[1]
    BY <2>1, MovesHead
  <2>4. from_worker'[w] = Append(from, out[1])
    BY <2>2, <2>3
  <2>5. Len(out) \in Int /\ Len(from) \in Int /\ m \in Int /\ n \in Int
        /\ DOMAIN out = 1 .. Len(out)
    BY <2>1, LenProperties
  <2>6. /\ Len(from) + Len(out) = n - m
        /\ \A i \in DOMAIN from : IsReplyFrame(from[i], m + i, n)
        /\ \A i \in DOMAIN out : IsReplyFrame(out[i], m + Len(from) + i, n)
    BY <1>1 DEF Replies
  <2>7. Len(from_worker'[w]) = Len(from) + 1 /\ Len(w_out'[w]) = Len(out) - 1
    BY <2>2, <2>3, <2>4
  <2>8. Len(from_worker'[w]) + Len(w_out'[w]) = n - m
    <3>1. \A a, b, c \in Int : a + b = c => (a + 1) + (b - 1) = c
      OBVIOUS
    <3>2. n - m \in Int
      BY <2>5
    <3>3. (Len(from) + 1) + (Len(out) - 1) = n - m
      <4> HIDE DEF out, from
      <4> QED
        BY <2>5, <2>6, <3>1, <3>2
    <3> QED
      BY <2>7, <3>3
  <2>9. \A i \in DOMAIN from_worker'[w] : IsReplyFrame(from_worker'[w][i], m + i, n)
    <3>1. IsReplyFrame(out[1], m + Len(from) + 1, n)
      BY <2>3, <2>6
    <3>2. m + Len(from) + 1 = m + (Len(from) + 1)
      BY <2>5
    <3>3. IsReplyFrame(out[1], m + (Len(from) + 1), n)
      BY <3>1, <3>2
    <3> QED
      BY <2>3, <2>4, <2>6, <3>3
  <2>10. \A i \in DOMAIN w_out'[w] :
           IsReplyFrame(w_out'[w][i], m + Len(from_worker'[w]) + i, n)
    <3> SUFFICES ASSUME NEW i \in DOMAIN Tail(out)
                 PROVE  IsReplyFrame(Tail(out)[i], m + (Len(from) + 1) + i, n)
      BY <2>2, <2>7
    <3>1. i + 1 \in DOMAIN out /\ Tail(out)[i] = out[i + 1]
      BY <2>3
    <3>2. IsReplyFrame(out[i + 1], m + Len(from) + (i + 1), n)
      BY <2>6, <3>1
    <3>3. i \in Int
      <4>1. Tail(out) \in Seq(ResponseFrameSet)
        BY <2>1, HeadTailProperties
      <4> QED
        BY <4>1, LenProperties
    <3>4. m + Len(from) + (i + 1) = m + (Len(from) + 1) + i
      <4>1. \A a, b, c \in Int : a + b + (c + 1) = a + (b + 1) + c
        OBVIOUS
      <4> QED
        BY <2>5, <3>3, <4>1
    <3> QED
      BY <3>1, <3>2, <3>4
  <2>11. Replies(w, n, m)' /\ Expects(n, m)'
    BY <1>1, <2>2, <2>8, <2>9, <2>10 DEF Replies, Expects
  <2> QED
    BY <2>2, <2>11 DEF Served
<1> QED
  BY <1>2, <1>3, <1>4, <1>5 DEF Moves
-----------------------------------------------------------------------------
(* The steps of the dispatcher. *)

(* When the dispatcher takes the first frame, one less is owed to it. *)
LEMMA ReplyTaken ==
  ASSUME Typed, NEW w \in Workers, NEW n \in {2, 3}, NEW m \in 0 .. n,
         Replies(w, n, m), from_worker[w] # <<>>,
         from_worker'[w] = Tail(from_worker[w]), w_out' = w_out
  PROVE  m < n /\ Replies(w, n, m + 1)'
<1> DEFINE from == from_worker[w]
           out  == w_out[w]
<1>1. /\ from \in Seq(ResponseFrameSet) /\ out \in Seq(ResponseFrameSet)
  BY DEF Typed
<1>2. /\ Tail(from) \in Seq(ResponseFrameSet) /\ Len(Tail(from)) = Len(from) - 1
      /\ \A i \in 1 .. Len(Tail(from)) : Tail(from)[i] = from[i + 1]
  BY <1>1, HeadTailProperties
<1>3. /\ Len(from) \in Nat /\ Len(out) \in Nat /\ m \in Int /\ n \in Int
      /\ n - m \in Int
      /\ DOMAIN from = 1 .. Len(from) /\ DOMAIN out = 1 .. Len(out)
      /\ DOMAIN Tail(from) = 1 .. Len(Tail(from))
  BY <1>1, <1>2, LenProperties
<1>4. Len(from) >= 1
  BY <1>1, <1>3, EmptySeq
<1>5. /\ Len(from) + Len(out) = n - m
      /\ \A i \in DOMAIN from : IsReplyFrame(from[i], m + i, n)
      /\ \A i \in DOMAIN out : IsReplyFrame(out[i], m + Len(from) + i, n)
  BY DEF Replies
<1>6. m < n
  <2> HIDE DEF from, out
  <2> QED
    BY <1>3, <1>4, <1>5
<1>7. Len(Tail(from)) + Len(out) = n - (m + 1)
  <2>1. \A a, b, c, d \in Int : a + b = c - d => (a - 1) + b = c - (d + 1)
    OBVIOUS
  <2> HIDE DEF from, out
  <2>2. (Len(from) - 1) + Len(out) = n - (m + 1)
    BY <1>3, <1>5, <2>1
  <2> QED
    BY <1>2, <2>2
<1>8. \A i \in DOMAIN Tail(from) : IsReplyFrame(Tail(from)[i], (m + 1) + i, n)
  <2> SUFFICES ASSUME NEW i \in DOMAIN Tail(from)
               PROVE  IsReplyFrame(Tail(from)[i], (m + 1) + i, n)
    OBVIOUS
  <2>1. i \in 1 .. Len(from) - 1
    BY <1>2, <1>3
  <2>2. i \in Int /\ i + 1 \in 1 .. Len(from)
    <3> HIDE DEF from
    <3> QED
      BY <1>3, <2>1
  <2>3. IsReplyFrame(from[i + 1], m + (i + 1), n) /\ Tail(from)[i] = from[i + 1]
    BY <1>2, <1>3, <1>5, <2>2
  <2>4. m + (i + 1) = (m + 1) + i
    BY <1>3, <2>2
  <2> QED
    BY <2>3, <2>4
<1>9. \A i \in DOMAIN out : IsReplyFrame(out[i], (m + 1) + Len(Tail(from)) + i, n)
  <2>1. \A a, b \in Int : (a + 1) + (b - 1) = a + b
    OBVIOUS
  <2>2. (m + 1) + Len(Tail(from)) = m + Len(from)
    <3> HIDE DEF from
    <3> QED
      BY <1>2, <1>3, <2>1
  <2> QED
    BY <1>5, <2>2
<1> QED
  BY <1>6, <1>7, <1>8, <1>9 DEF Replies

(* A receive of the dispatcher takes the next frame of the response that   *)
(* the assigned worker is giving.                                          *)
LEMMA ResponseFrameTaken ==
  ASSUME Typed, BusyIffAssigned, InStep, NEW val, ResponseFrame(d_pc, val),
         d_pc \in {"response_id", "response_length", "response_data"},
         UNCHANGED <<to_worker, w_pc, w_out, outbox, assigned>>
  PROVE  \E a \in assigned : \E n \in {2, 3} : \E m \in 0 .. n - 1 :
            /\ a.rank \in Workers
            /\ Expects(n, m)
            /\ Replies(a.rank, n, m + 1)'
            /\ m = 1 => val = IF n = 2 THEN "zero" ELSE "fits"
            /\ to_worker[a.rank] = <<>> /\ outbox = <<>>
            /\ w_pc[a.rank] \in {"request_id", "respond", "failed"}
            /\ w_pc[a.rank] = "request_id" => w_out[a.rank] = <<>>
            /\ \A w \in Workers : w # a.rank => Quiet(w)'
<1>1. PICK a \in assigned : \E i \in DOMAIN from_worker[a.rank] :
        /\ IsFirst(from_worker[a.rank], i, d_pc)
        /\ val = from_worker[a.rank][i].val
        /\ from_worker' = [from_worker EXCEPT ![a.rank] =
                              RemoveAt(from_worker[a.rank], i)]
  BY DEF ResponseFrame
<1> DEFINE w == a.rank
           from == from_worker[w]
<1>2. PICK i \in DOMAIN from :
        /\ IsFirst(from, i, d_pc)
        /\ val = from[i].val
        /\ from_worker' = [from_worker EXCEPT ![w] = RemoveAt(from, i)]
  BY <1>1
<1>3. w \in Workers /\ from \in Seq(ResponseFrameSet) /\ from # <<>>
      /\ from_worker \in [Workers -> Seq(ResponseFrameSet)]
  <2>1. a.rank \in Workers
    BY DEF Typed, Assignment
  <2>2. from_worker \in [Workers -> Seq(ResponseFrameSet)]
    BY DEF Typed
  <2>3. from # <<>>
    BY <1>2
  <2> QED
    BY <2>1, <2>2, <2>3
<1>4. Served(w)
  BY <1>3 DEF InStep, ExchangeInStep, InExchange, Unserved
<1>5. PICK n \in {2, 3} : \E m \in 0 .. n : Replies(w, n, m) /\ Expects(n, m)
  BY <1>4 DEF Served
<1>6. PICK m \in 0 .. n : Replies(w, n, m) /\ Expects(n, m)
  BY <1>5
<1>7. 1 \in DOMAIN from
  <2>1. Len(from) \in Nat /\ Len(from) # 0 /\ DOMAIN from = 1 .. Len(from)
    BY <1>3, LenProperties, EmptySeq
  <2> QED
    BY <2>1
<1>8. IsReplyFrame(from[1], m + 1, n)
  BY <1>6, <1>7 DEF Replies
<1>9. d_pc = ResponseTags[m + 1]
  <2>1. \/ m = 0 /\ d_pc = "response_id"
        \/ m = 1 /\ d_pc = "response_length"
        \/ m = 2 /\ d_pc = "response_data"
    BY <1>6 DEF Expects
  <2> QED
    BY <2>1 DEF ResponseTags
<1>10. from[1].tag = d_pc
  BY <1>8, <1>9 DEF IsReplyFrame
<1>11. i = 1 /\ RemoveAt(from, i) = Tail(from)
  <2>1. HeadTaken(from, i)
    BY <1>2, <1>3, <1>10, TakesFirst
  <2> QED
    BY <2>1 DEF HeadTaken
<1>12. /\ from_worker'[w] = Tail(from)
       /\ \A v \in Workers : v # w => from_worker'[v] = from_worker[v]
  BY <1>2, <1>3, <1>11
<1>13. m < n /\ Replies(w, n, m + 1)'
  BY <1>3, <1>6, <1>12, ReplyTaken
<1>14. m = 1 => val = IF n = 2 THEN "zero" ELSE "fits"
  BY <1>2, <1>8, <1>11 DEF IsReplyFrame
<1>15. \A v \in Workers : v # w => Quiet(v)'
  <2> SUFFICES ASSUME NEW v \in Workers, v # w
               PROVE  Quiet(v)'
    OBVIOUS
  <2>1. ~\E b \in assigned : b.rank = v
    BY DEF BusyIffAssigned
  <2>2. Quiet(v)
    BY <2>1 DEF InStep, ExchangeInStep, InExchange
  <2> QED
    BY <1>12, <2>2 DEF Quiet
<1>16. m \in 0 .. n - 1
  BY <1>13
<1> QED
  BY <1>3, <1>4, <1>6, <1>13, <1>14, <1>15, <1>16 DEF Served
-----------------------------------------------------------------------------
(* A step of a worker keeps the two sides in step. *)
LEMMA WorkerInStep ==
  ASSUME Typed, InStep, NEW v \in Workers, Moves(v)
  PROVE  InStep'
<1>1. /\ UNCHANGED <<d_pc, outbox, assigned, main_pc>>
      /\ \A w \in Workers : w # v =>
           UNCHANGED <<to_worker[w], from_worker[w], w_out[w], w_pc[w]>>
  BY OthersStay
<1>2. \A w \in Workers : Quiet(w) => Quiet(w)'
  <2>1. \A w \in Workers : w # v /\ Quiet(w) => Quiet(w)'
    BY <1>1 DEF Quiet
  <2> QED
    BY <2>1, QuietKept
<1>3. \A w \in Workers : Told(w) => Told(w)'
  <2>1. \A w \in Workers : w # v /\ Told(w) => Told(w)'
    BY <1>1 DEF Told
  <2> QED
    BY <2>1, ToldKept
<1>4. ASSUME InExchange, NEW w \in Workers, Unserved(w) \/ Served(w)
      PROVE  Unserved(w)' \/ Served(w)'
  <2>1. main_pc \notin {"finalize", "exited"}
    BY <1>4 DEF InExchange, InStep, EndInStep
  <2>2. CASE w = v
    BY <1>4, <2>1, <2>2, UnservedKept, ServedKept
  <2>3. CASE w # v /\ Unserved(w)
    <3>1. PICK k \in 0 .. 5 : Receiving(w, k)
      BY <2>3 DEF Unserved
    <3>2. Receiving(w, k)'
      BY <1>1, <2>3, <3>1 DEF Receiving
    <3> QED
      BY <1>1, <2>3, <3>2 DEF Unserved
  <2>4. CASE w # v /\ Served(w)
    <3>1. PICK n \in {2, 3} : \E m \in 0 .. n : Replies(w, n, m) /\ Expects(n, m)
      BY <2>4 DEF Served
    <3>2. PICK m \in 0 .. n : Replies(w, n, m) /\ Expects(n, m)
      BY <3>1
    <3>3. Replies(w, n, m)' /\ Expects(n, m)'
      BY <1>1, <2>4, <3>2 DEF Replies, Expects
    <3> QED
      BY <1>1, <2>4, <3>3 DEF Served
  <2> QED
    BY <1>4, <2>2, <2>3, <2>4
<1>5. IdleInStep'
  BY <1>1, <1>2 DEF InStep, IdleInStep, BetweenExchanges
<1>6. ExchangeInStep'
  BY <1>1, <1>2, <1>4 DEF InStep, ExchangeInStep, InExchange
<1>7. ShutdownInStep'
  BY <1>1, <1>2, <1>3 DEF InStep, ShutdownInStep, NextToTell
<1>8. EndInStep'
  <2>1. ASSUME w_pc[v] \in {"finalize", "exited"}
        PROVE  w_pc'[v] \in {"finalize", "exited"}
    <3>1. WorkerExits(v)
      BY <2>1 DEF Moves, Receives, ReceiveId, ReceiveLength, ReceiveModel,
        ReceivePrompt, RequestFrame, RejectRequest, LoadBackend, Generate,
        BackendThrows, SendResponseFrame, NextRequest, WorkerMpiCallFails
    <3> QED
      BY <3>1 DEF WorkerExits, Typed
  <2> QED
    BY <1>1, <2>1 DEF InStep, EndInStep
<1> QED
  BY <1>5, <1>6, <1>7, <1>8 DEF InStep

(* So does a step that touches neither channels nor threads of control. *)
LEMMA NothingMoves ==
  ASSUME InStep,
         UNCHANGED <<d_pc, outbox, assigned, main_pc, to_worker, from_worker,
                     w_out, w_pc>>
  PROVE  InStep'
<1>1. \A w \in Workers : (Quiet(w) => Quiet(w)') /\ (Told(w) => Told(w)')
  BY DEF Quiet, Told
<1>2. \A w \in Workers : Unserved(w) => Unserved(w)'
  BY DEF Unserved, Receiving
<1>3. \A w \in Workers : Served(w) => Served(w)'
  <2> SUFFICES ASSUME NEW w \in Workers, Served(w)
               PROVE  Served(w)'
    OBVIOUS
  <2>1. PICK n \in {2, 3} :
          \E m \in 0 .. n : Replies(w, n, m) /\ Expects(n, m)
    BY DEF Served
  <2>2. PICK m \in 0 .. n : Replies(w, n, m) /\ Expects(n, m)
    BY <2>1
  <2>3. Replies(w, n, m)' /\ Expects(n, m)'
    BY <2>2 DEF Replies, Expects
  <2> QED
    BY <2>2, <2>3 DEF Served
<1> QED
  BY <1>1, <1>2, <1>3 DEF InStep, IdleInStep, ExchangeInStep, ShutdownInStep,
    EndInStep, BetweenExchanges, InExchange, NextToTell

(* The dispatcher chooses a worker: all channels are quiet. *)
LEMMA ScheduleInStep ==
  ASSUME Typed, InStep, TryScheduleNext
  PROVE  InStep'
<1>1. /\ d_pc = "schedule" /\ d_pc' = "send"
      /\ UNCHANGED <<main_pc, to_worker, from_worker, w_out, w_pc>>
  BY DEF TryScheduleNext, mainVars, workerVars, netVars
<1>2. PICK request \in queue, rank \in Workers :
        /\ assigned' = {[req |-> request, rank |-> rank]}
        /\ outbox' = RequestFrames(request, rank)
  BY DEF TryScheduleNext
<1>3. \A w \in Workers : Quiet(w)
  BY <1>1 DEF InStep, IdleInStep, BetweenExchanges
<1>4. /\ Len(outbox') = 5 /\ DOMAIN outbox' = 1 .. 5
      /\ \A i \in 1 .. 5 : outbox'[i].to = rank /\ outbox'[i].tag = RequestTags[i]
  BY <1>2 DEF RequestFrames, RequestTags
<1>5. Unserved(rank)'
  <2>1. Len(to_worker'[rank]) = 0 /\ DOMAIN to_worker'[rank] = {}
    BY <1>1, <1>3 DEF Quiet
  <2>2. \A i \in DOMAIN outbox' :
          outbox'[i].tag = RequestTags[0 + Len(to_worker'[rank]) + i]
    <3> SUFFICES ASSUME NEW i \in 1 .. 5
                 PROVE  outbox'[i].tag = RequestTags[0 + 0 + i]
      BY <1>4, <2>1
    <3>1. 0 + 0 + i = i
      OBVIOUS
    <3> QED
      BY <1>4, <3>1
  <2>3. w_pc'[rank] \in {"failed", "request_id", "respond"}
    BY <1>1, <1>3 DEF Quiet
  <2>4. Receiving(rank, 0)'
    BY <1>4, <2>1, <2>2, <2>3 DEF Receiving
  <2> QED
    BY <1>1, <1>3, <2>4 DEF Unserved, Quiet
<1>6. \A w \in Workers : Quiet(w)'
  BY <1>1, <1>3 DEF Quiet
<1>7. ExchangeInStep'
  <2>1. \A a \in assigned' : a.rank = rank
    BY <1>2
  <2>2. \E a \in assigned' : a.rank = rank
    BY <1>2
  <2>3. \A i \in DOMAIN outbox' : \E a \in assigned' : outbox'[i].to = a.rank
    BY <1>4, <2>1, <2>2
  <2> QED
    BY <1>5, <1>6, <2>1, <2>3 DEF ExchangeInStep
<1> QED
  BY <1>1, <1>7 DEF InStep, IdleInStep, ShutdownInStep, EndInStep,
    BetweenExchanges

(* The dispatcher leaves its loop: no worker has been told yet. *)
LEMMA CheckInStep ==
  ASSUME Typed, InStep, CheckShutdown
  PROVE  InStep'
<1>1. /\ d_pc = "check"
      /\ d_pc' = "schedule" \/ (d_pc' = "stop" /\ outbox' = ShutdownFrames)
      /\ UNCHANGED <<main_pc, to_worker, from_worker, w_out, w_pc>>
  BY DEF CheckShutdown, mainVars, workerVars, netVars
<1>2. \A w \in Workers : Quiet(w)'
  BY <1>1 DEF InStep, IdleInStep, BetweenExchanges, Quiet
<1>3. ShutdownInStep'
  <2> SUFFICES ASSUME outbox' = ShutdownFrames
               PROVE  ShutdownInStep'
    BY <1>1 DEF ShutdownInStep
  <2>1. WorldSize \in Nat /\ WorldSize >= 1
    BY WorldSizeAssumption
  <2>2. Len(ShutdownFrames) = WorldSize - 1
        /\ DOMAIN ShutdownFrames = 1 .. WorldSize - 1
    <3>1. ShutdownFrames \in Seq(RequestFrameSet)
      BY ShutdownFramesType
    <3>2. DOMAIN ShutdownFrames = 1 .. WorldSize - 1
      BY DEF ShutdownFrames, Workers
    <3>3. Len(ShutdownFrames) \in Nat
          /\ DOMAIN ShutdownFrames = 1 .. Len(ShutdownFrames)
      BY <3>1, LenProperties
    <3>4. \A a, b \in Nat : 1 .. a = 1 .. b => a = b
      <4> SUFFICES ASSUME NEW a \in Nat, NEW b \in Nat, 1 .. a = 1 .. b, a # b
                   PROVE  FALSE
        OBVIOUS
      <4>1. CASE a < b
        <5>1. b \in 1 .. b /\ b \notin 1 .. a
          BY <4>1
        <5> QED
          BY <5>1
      <4>2. CASE b < a
        <5>1. a \in 1 .. a /\ a \notin 1 .. b
          BY <4>2
        <5> QED
          BY <5>1
      <4> QED
        BY <4>1, <4>2
    <3>5. WorldSize - 1 \in Nat
      BY <2>1
    <3> QED
      BY <3>2, <3>3, <3>4, <3>5
  <2>3. NextToTell' = 1
    BY <2>1, <2>2 DEF NextToTell
  <2>4. \A i \in DOMAIN outbox' : outbox'[i] = ShutdownFrames[NextToTell' - 1 + i]
    <3> SUFFICES ASSUME NEW i \in 1 .. WorldSize - 1
                 PROVE  ShutdownFrames[i] = ShutdownFrames[1 - 1 + i]
      BY <2>2, <2>3
    <3>1. 1 - 1 + i = i
      BY <2>1
    <3> QED
      BY <3>1
  <2>5. \A w \in Workers : ~(w < 1)
    BY <2>1 DEF Workers
  <2>6. Len(outbox') <= WorldSize - 1
    BY <2>1, <2>2
  <2> QED
    BY <1>2, <2>3, <2>4, <2>5, <2>6 DEF ShutdownInStep
<1> QED
  BY <1>1, <1>2, <1>3 DEF InStep, IdleInStep, ExchangeInStep, EndInStep,
    InExchange

(* The dispatcher sends one more frame of a request. *)
LEMMA SendInStep ==
  ASSUME Typed, BusyIffAssigned, InStep, SendFrame, d_pc = "send"
  PROVE  InStep'
<1>1. /\ outbox # <<>> /\ outbox' = Tail(outbox)
      /\ to_worker' = [to_worker EXCEPT ![Head(outbox).to] =
                            Append(to_worker[Head(outbox).to], Head(outbox))]
      /\ UNCHANGED <<d_pc, main_pc, assigned, from_worker, w_out, w_pc>>
  BY DEF SendFrame, mainVars, workerVars
<1>2. outbox \in Seq(RequestFrameSet)
      /\ to_worker \in [Workers -> Seq(RequestFrameSet)]
  BY DEF Typed
<1>3. Head(outbox) = outbox[1] /\ 1 \in DOMAIN outbox
  BY <1>1, <1>2, MovesHead
<1>4. PICK a \in assigned : outbox[1].to = a.rank
  BY <1>3 DEF InStep, ExchangeInStep, InExchange
<1> DEFINE w == a.rank
           to == to_worker[w]
<1>5. w \in Workers /\ to \in Seq(RequestFrameSet)
  BY <1>2 DEF Typed, Assignment
<1>6. /\ to_worker'[w] = Append(to, outbox[1])
      /\ \A v \in Workers : v # w => to_worker'[v] = to_worker[v]
  BY <1>1, <1>2, <1>3, <1>4, <1>5
<1>7. Unserved(w)
  BY <1>1, <1>5 DEF InStep, ExchangeInStep, InExchange, Served
<1>8. PICK k \in 0 .. 5 : Receiving(w, k)
  BY <1>7 DEF Unserved
<1>9. /\ Len(Tail(outbox)) = Len(outbox) - 1
      /\ \A j \in DOMAIN Tail(outbox) : j + 1 \in DOMAIN outbox
                                         /\ Tail(outbox)[j] = outbox[j + 1]
      /\ Len(Append(to, outbox[1])) = Len(to) + 1
      /\ \A j \in DOMAIN Append(to, outbox[1]) :
             \/ j \in DOMAIN to /\ Append(to, outbox[1])[j] = to[j]
             \/ j = Len(to) + 1 /\ Append(to, outbox[1])[j] = outbox[1]
  BY <1>1, <1>2, <1>5, MovesHead
<1>10. Len(to) \in Int /\ Len(outbox) \in Int /\ k \in Int /\ 5 - k \in Int
  BY <1>2, <1>5, LenProperties
<1>11. /\ Len(to) + Len(outbox) = 5 - k
       /\ \A i \in DOMAIN to : to[i].tag = RequestTags[k + i]
       /\ \A i \in DOMAIN outbox : outbox[i].tag = RequestTags[k + Len(to) + i]
  BY <1>8 DEF Receiving
<1>12. Len(to_worker'[w]) = Len(to) + 1
  BY <1>6, <1>9
<1>13. Len(to_worker'[w]) + Len(outbox') = 5 - k
  <2>1. \A b, c, d \in Int : b + c = d => (b + 1) + (c - 1) = d
    OBVIOUS
  <2>2. (Len(to) + 1) + (Len(outbox) - 1) = 5 - k
    <3> HIDE DEF to
    <3> QED
      BY <1>10, <1>11, <2>1
  <2> QED
    BY <1>1, <1>9, <1>12, <2>2
<1>14. \A i \in DOMAIN to_worker'[w] : to_worker'[w][i].tag = RequestTags[k + i]
  <2>1. outbox[1].tag = RequestTags[k + Len(to) + 1]
    BY <1>3, <1>11
  <2>2. k + Len(to) + 1 = k + (Len(to) + 1)
    BY <1>10
  <2>3. outbox[1].tag = RequestTags[k + (Len(to) + 1)]
    BY <2>1, <2>2
  <2> QED
    BY <1>6, <1>9, <1>11, <2>3
<1>15. \A i \in DOMAIN outbox' :
         outbox'[i].tag = RequestTags[k + Len(to_worker'[w]) + i]
  <2> SUFFICES ASSUME NEW i \in DOMAIN Tail(outbox)
               PROVE  Tail(outbox)[i].tag = RequestTags[k + (Len(to) + 1) + i]
    BY <1>1, <1>12
  <2>1. i + 1 \in DOMAIN outbox /\ Tail(outbox)[i] = outbox[i + 1]
    BY <1>9
  <2>2. outbox[i + 1].tag = RequestTags[k + Len(to) + (i + 1)]
    BY <1>11, <2>1
  <2>3. i \in Int
    <3>1. Tail(outbox) \in Seq(RequestFrameSet)
      BY <1>1, <1>2, HeadTailProperties
    <3> QED
      BY <3>1, LenProperties
  <2>4. k + Len(to) + (i + 1) = k + (Len(to) + 1) + i
    <3>1. \A b, c, d \in Int : b + c + (d + 1) = b + (c + 1) + d
      OBVIOUS
    <3> QED
      BY <1>10, <2>3, <3>1
  <2> QED
    BY <2>1, <2>2, <2>4
<1>16. Unserved(w)'
  <2>1. Receiving(w, k)'
    BY <1>1, <1>8, <1>13, <1>14, <1>15 DEF Receiving
  <2> QED
    BY <1>1, <1>7, <2>1 DEF Unserved
<1>17. \A v \in Workers : v # w => Quiet(v)'
  <2> SUFFICES ASSUME NEW v \in Workers, v # w
               PROVE  Quiet(v)'
    OBVIOUS
  <2>1. ~\E b \in assigned : b.rank = v
    BY DEF BusyIffAssigned
  <2>2. Quiet(v)
    BY <2>1 DEF InStep, ExchangeInStep, InExchange
  <2> QED
    BY <1>1, <1>6, <2>2 DEF Quiet
<1>18. \A i \in DOMAIN outbox' : \E b \in assigned' : outbox'[i].to = b.rank
  BY <1>1, <1>9 DEF InStep, ExchangeInStep, InExchange
<1>19. ExchangeInStep'
  <2>1. \A v \in Workers :
          IF \E b \in assigned' : b.rank = v
          THEN Unserved(v)' \/ Served(v)'
          ELSE Quiet(v)'
    <3> SUFFICES ASSUME NEW v \in Workers
                 PROVE  IF \E b \in assigned' : b.rank = v
                        THEN Unserved(v)' \/ Served(v)'
                        ELSE Quiet(v)'
      OBVIOUS
    <3>1. CASE v = w
      <4>1. \E b \in assigned' : b.rank = v
        BY <1>1, <1>4, <3>1
      <4> QED
        BY <1>16, <3>1, <4>1
    <3>2. CASE v # w
      <4>1. ~\E b \in assigned' : b.rank = v
        BY <1>1, <1>4, <3>2 DEF BusyIffAssigned
      <4> QED
        BY <1>17, <3>2, <4>1
    <3> QED
      BY <3>1, <3>2
  <2> QED
    BY <1>18, <2>1 DEF ExchangeInStep
<1> QED
  BY <1>1, <1>19 DEF InStep, IdleInStep, ShutdownInStep, EndInStep,
    BetweenExchanges

(* The dispatcher sends the shutdown message to the next worker. *)
LEMMA StopInStep ==
  ASSUME Typed, InStep, SendFrame, d_pc = "stop"
  PROVE  InStep'
<1>1. /\ outbox # <<>> /\ outbox' = Tail(outbox)
      /\ to_worker' = [to_worker EXCEPT ![Head(outbox).to] =
                            Append(to_worker[Head(outbox).to], Head(outbox))]
      /\ UNCHANGED <<d_pc, main_pc, from_worker, w_out, w_pc>>
  BY DEF SendFrame, mainVars, workerVars
<1>2. outbox \in Seq(RequestFrameSet)
      /\ to_worker \in [Workers -> Seq(RequestFrameSet)]
  BY DEF Typed
<1>a. PICK w : w = NextToTell
  OBVIOUS
<1>3. /\ Head(outbox) = outbox[1] /\ 1 \in DOMAIN outbox
      /\ Len(Tail(outbox)) = Len(outbox) - 1
      /\ \A j \in DOMAIN Tail(outbox) : j + 1 \in DOMAIN outbox
                                         /\ Tail(outbox)[j] = outbox[j + 1]
  BY <1>1, <1>2, MovesHead
<1>4. /\ Len(outbox) <= WorldSize - 1
      /\ \A i \in DOMAIN outbox : outbox[i] = ShutdownFrames[w - 1 + i]
      /\ \A v \in Workers : IF v < w THEN Told(v) ELSE Quiet(v)
  BY <1>a DEF InStep, ShutdownInStep
<1>5. /\ Len(outbox) \in Nat /\ Len(outbox) >= 1 /\ WorldSize \in Nat
      /\ w \in Int /\ w = WorldSize - Len(outbox)
  BY <1>a, <1>1, <1>2, LenProperties, EmptySeq, WorldSizeAssumption DEF NextToTell
<1>6. w \in Workers /\ w - 1 + 1 = w
  BY <1>4, <1>5 DEF Workers
<1>7. outbox[1] = ShutdownFrames[w] /\ outbox[1].to = w
  <2>1. outbox[1] = ShutdownFrames[w]
    BY <1>3, <1>4, <1>6
  <2> QED
    BY <1>6, <2>1 DEF ShutdownFrames
<1>8. Quiet(w)
  BY <1>4, <1>5, <1>6
<1>9. /\ to_worker'[w] = Append(<<>>, ShutdownFrames[w])
      /\ \A v \in Workers : v # w => to_worker'[v] = to_worker[v]
  BY <1>1, <1>2, <1>3, <1>6, <1>7, <1>8 DEF Quiet
<1>10. Told(w)'
  <2>1. Len(to_worker'[w]) = 1 /\ to_worker'[w][1] = ShutdownFrames[w]
    BY <1>9
  <2> QED
    BY <1>1, <1>8, <2>1 DEF Told, Quiet
<1>11. NextToTell' = w + 1 /\ Len(outbox') = Len(outbox) - 1
  BY <1>1, <1>3, <1>5 DEF NextToTell
<1>12. \A v \in Workers : IF v < w + 1 THEN Told(v)' ELSE Quiet(v)'
  <2> SUFFICES ASSUME NEW v \in Workers
               PROVE  IF v < w + 1 THEN Told(v)' ELSE Quiet(v)'
    OBVIOUS
  <2>1. v \in Int
    BY DEF Workers
  <2>2. CASE v = w
    BY <1>5, <1>10, <2>2
  <2>3. CASE v < w
    <3>1. Told(v) /\ v # w /\ v < w + 1
      BY <1>4, <1>5, <2>1, <2>3
    <3>2. Told(v)'
      BY <1>1, <1>9, <3>1 DEF Told
    <3> QED
      BY <3>1, <3>2
  <2>4. CASE v > w
    <3>1. Quiet(v) /\ v # w /\ ~(v < w + 1)
      BY <1>4, <1>5, <2>1, <2>4
    <3>2. Quiet(v)'
      BY <1>1, <1>9, <3>1 DEF Quiet
    <3> QED
      BY <3>1, <3>2
  <2> QED
    BY <1>5, <2>1, <2>2, <2>3, <2>4
<1>13. \A i \in DOMAIN outbox' : outbox'[i] = ShutdownFrames[(w + 1) - 1 + i]
  <2> SUFFICES ASSUME NEW i \in DOMAIN Tail(outbox)
               PROVE  Tail(outbox)[i] = ShutdownFrames[(w + 1) - 1 + i]
    BY <1>1
  <2>1. i + 1 \in DOMAIN outbox /\ Tail(outbox)[i] = outbox[i + 1]
    BY <1>3
  <2>2. outbox[i + 1] = ShutdownFrames[w - 1 + (i + 1)]
    BY <1>4, <2>1
  <2>3. i \in Int
    <3>1. Tail(outbox) \in Seq(RequestFrameSet)
      BY <1>1, <1>2, HeadTailProperties
    <3> QED
      BY <3>1, LenProperties
  <2>4. w - 1 + (i + 1) = (w + 1) - 1 + i
    BY <1>5, <2>3
  <2> QED
    BY <2>1, <2>2, <2>4
<1>14. ShutdownInStep'
  <2>1. Len(outbox') <= WorldSize - 1
    BY <1>4, <1>5, <1>11
  <2> QED
    BY <1>11, <1>12, <1>13, <2>1 DEF ShutdownInStep
<1> QED
  BY <1>1, <1>14 DEF InStep, IdleInStep, ExchangeInStep, EndInStep,
    BetweenExchanges, InExchange

(* The last send has returned: the dispatcher waits, or is done. *)
LEMMA LastSendInStep ==
  ASSUME Typed, InStep, LastSendReturns
  PROVE  InStep'
<1>1. /\ \/ d_pc = "send" /\ d_pc' = "response_id"
         \/ d_pc = "stop" /\ d_pc' = "done"
      /\ outbox = <<>>
      /\ UNCHANGED <<outbox, assigned, main_pc, to_worker, from_worker, w_out,
                     w_pc>>
  BY DEF LastSendReturns, mainVars, workerVars, netVars
<1>2. \A w \in Workers : (Quiet(w) => Quiet(w)') /\ (Told(w) => Told(w)')
  BY <1>1 DEF Quiet, Told
<1>3. CASE d_pc = "send"
  <2>1. \A w \in Workers : Unserved(w) => Unserved(w)'
    BY <1>1, <1>3 DEF Unserved, Receiving
  <2>2. \A w \in Workers : Served(w) => Served(w)'
    <3>1. \A n, m : Expects(n, m) => Expects(n, m)'
      BY <1>1, <1>3 DEF Expects
    <3>2. \A w \in Workers : \A n, m : Replies(w, n, m) => Replies(w, n, m)'
      BY <1>1 DEF Replies
    <3> QED
      BY <1>1, <3>1, <3>2 DEF Served
  <2>3. ExchangeInStep'
    BY <1>1, <1>2, <1>3, <2>1, <2>2 DEF InStep, ExchangeInStep, InExchange
  <2> QED
    BY <1>1, <1>3, <2>3 DEF InStep, IdleInStep, ShutdownInStep, EndInStep,
      BetweenExchanges
<1>4. CASE d_pc = "stop"
  <2>1. ShutdownInStep'
    BY <1>1, <1>2, <1>4 DEF InStep, ShutdownInStep, NextToTell
  <2> QED
    BY <1>1, <1>4, <2>1 DEF InStep, IdleInStep, ExchangeInStep, EndInStep,
      BetweenExchanges, InExchange
<1> QED
  BY <1>1, <1>3, <1>4

(* The dispatcher takes a frame of the response. *)
LEMMA ReceiveInStep ==
  ASSUME Typed, BusyIffAssigned, InStep,
         ReceiveResponseId \/ ReceiveResponseLength \/ ReceiveResponseData
  PROVE  InStep'
<1>1. UNCHANGED <<to_worker, w_pc, w_out, outbox, assigned, main_pc>>
  BY DEF ReceiveResponseId, ReceiveResponseLength, ReceiveResponseData,
    mainVars, workerVars
<1>2. PICK val :
        /\ ResponseFrame(d_pc, val)
        /\ \/ d_pc = "response_id" /\ d_pc' = "response_length"
           \/ /\ d_pc = "response_length" /\ val = "zero"
              /\ d_pc' \in {"put", "unwind"}
           \/ /\ d_pc = "response_length" /\ val # "zero"
              /\ d_pc' = "response_data"
           \/ d_pc = "response_data" /\ d_pc' \in {"put", "unwind"}
  <2>1. \A tag, val : ResponseFrame(tag, val) => d_pc = tag
    BY DEF ResponseFrame
  <2>2. CASE ReceiveResponseId
    BY <2>1, <2>2 DEF ReceiveResponseId
  <2>3. CASE ReceiveResponseLength
    BY <2>1, <2>3 DEF ReceiveResponseLength, AfterReceive
  <2>4. CASE ReceiveResponseData
    BY <2>1, <2>4 DEF ReceiveResponseData, AfterReceive
  <2> QED
    BY <2>2, <2>3, <2>4
<1>3. PICK a \in assigned : \E n \in {2, 3} : \E m \in 0 .. n - 1 :
        /\ a.rank \in Workers
        /\ Expects(n, m)
        /\ Replies(a.rank, n, m + 1)'
        /\ m = 1 => val = IF n = 2 THEN "zero" ELSE "fits"
        /\ to_worker[a.rank] = <<>> /\ outbox = <<>>
        /\ w_pc[a.rank] \in {"request_id", "respond", "failed"}
        /\ w_pc[a.rank] = "request_id" => w_out[a.rank] = <<>>
        /\ \A w \in Workers : w # a.rank => Quiet(w)'
  <2>1. d_pc \in {"response_id", "response_length", "response_data"}
    BY <1>2
  <2> QED
    BY <1>1, <1>2, <2>1, ResponseFrameTaken
<1>4. PICK n \in {2, 3} : \E m \in 0 .. n - 1 :
        /\ a.rank \in Workers
        /\ Expects(n, m)
        /\ Replies(a.rank, n, m + 1)'
        /\ m = 1 => val = IF n = 2 THEN "zero" ELSE "fits"
        /\ to_worker[a.rank] = <<>> /\ outbox = <<>>
        /\ w_pc[a.rank] \in {"request_id", "respond", "failed"}
        /\ w_pc[a.rank] = "request_id" => w_out[a.rank] = <<>>
        /\ \A w \in Workers : w # a.rank => Quiet(w)'
  BY <1>3
<1>5. PICK m \in 0 .. n - 1 :
        /\ a.rank \in Workers
        /\ Expects(n, m)
        /\ Replies(a.rank, n, m + 1)'
        /\ m = 1 => val = IF n = 2 THEN "zero" ELSE "fits"
        /\ to_worker[a.rank] = <<>> /\ outbox = <<>>
        /\ w_pc[a.rank] \in {"request_id", "respond", "failed"}
        /\ w_pc[a.rank] = "request_id" => w_out[a.rank] = <<>>
        /\ \A w \in Workers : w # a.rank => Quiet(w)'
  BY <1>4
<1>6. CASE d_pc' = "unwind"
  <2>1. main_pc' \notin {"finalize", "exited"}
    BY <1>1, <1>2 DEF InStep, EndInStep
  <2> QED
    BY <1>6, <2>1 DEF InStep, IdleInStep, ExchangeInStep, ShutdownInStep,
      EndInStep, BetweenExchanges, InExchange
<1>7. CASE d_pc' # "unwind"
  <2>1. Expects(n, m + 1)'
    <3>1. CASE d_pc = "response_id"
      <4>1. m = 0
        BY <1>5, <3>1 DEF Expects
      <4> QED
        BY <1>2, <3>1, <4>1 DEF Expects
    <3>2. CASE d_pc = "response_length"
      <4>1. m = 1 /\ m + 1 = 2
        BY <1>5, <3>2 DEF Expects
      <4> QED
        BY <1>2, <1>5, <1>7, <3>2, <4>1 DEF Expects
    <3>3. CASE d_pc = "response_data"
      <4>1. n = 3 /\ m + 1 = 3
        BY <1>5, <3>3 DEF Expects
      <4> QED
        BY <1>2, <1>7, <3>3, <4>1 DEF Expects
    <3> QED
      BY <1>2, <3>1, <3>2, <3>3
  <2>2. m + 1 \in 0 .. n
    OBVIOUS
  <2>3. Served(a.rank)'
    BY <1>1, <1>5, <2>1, <2>2 DEF Served
  <2>4. \A v \in Workers :
          IF \E b \in assigned' : b.rank = v
          THEN Unserved(v)' \/ Served(v)'
          ELSE Quiet(v)'
    <3> SUFFICES ASSUME NEW v \in Workers
                 PROVE  IF \E b \in assigned' : b.rank = v
                        THEN Unserved(v)' \/ Served(v)'
                        ELSE Quiet(v)'
      OBVIOUS
    <3>1. CASE v = a.rank
      <4>1. \E b \in assigned' : b.rank = v
        BY <1>1, <3>1
      <4> QED
        BY <2>3, <3>1, <4>1
    <3>2. CASE v # a.rank
      <4>1. ~\E b \in assigned' : b.rank = v
        BY <1>1, <3>2 DEF BusyIffAssigned
      <4> QED
        BY <1>5, <3>2, <4>1
    <3> QED
      BY <3>1, <3>2
  <2>5. ExchangeInStep'
    BY <1>1, <1>5, <2>4 DEF ExchangeInStep
  <2> QED
    BY <1>1, <1>2, <1>7, <2>5 DEF InStep, IdleInStep, ShutdownInStep,
      EndInStep, BetweenExchanges
<1> QED
  BY <1>6, <1>7

(* The dispatcher stores the response, then frees the worker: everything   *)
(* the worker had to send was received.                                    *)
LEMMA FinishInStep ==
  ASSUME Typed, InStep, PutResponse \/ Release
  PROVE  InStep'
<1>1. /\ UNCHANGED <<outbox, main_pc, to_worker, from_worker, w_out, w_pc>>
      /\ \/ d_pc = "put" /\ d_pc' = "release" /\ assigned' = assigned
         \/ d_pc = "release" /\ d_pc' = "check"
  BY DEF PutResponse, Release, mainVars, workerVars, netVars
<1>2. \A w \in Workers : Quiet(w) => Quiet(w)'
  BY <1>1 DEF Quiet
<1>3. CASE d_pc = "put"
  <2>1. \A n, m : Expects(n, m) => Expects(n, m)'
    BY <1>1, <1>3 DEF Expects
  <2>2. \A w \in Workers : \A n, m : Replies(w, n, m) => Replies(w, n, m)'
    BY <1>1 DEF Replies
  <2>3. \A w \in Workers : Served(w) => Served(w)'
    BY <1>1, <2>1, <2>2 DEF Served
  <2>4. \A w \in Workers : ~Unserved(w)
    BY <1>3 DEF Unserved
  <2>5. ExchangeInStep'
    BY <1>1, <1>2, <1>3, <2>3, <2>4 DEF InStep, ExchangeInStep, InExchange
  <2> QED
    BY <1>1, <1>3, <2>5 DEF InStep, IdleInStep, ShutdownInStep, EndInStep,
      BetweenExchanges
<1>4. CASE d_pc = "release"
  <2>1. ASSUME NEW w \in Workers
        PROVE  Quiet(w)
    <3>1. Served(w) \/ Quiet(w)
      BY <1>4 DEF InStep, ExchangeInStep, InExchange, Unserved
    <3>2. ASSUME Served(w)
          PROVE  Quiet(w)
      <4>1. PICK n \in {2, 3} :
              \E m \in 0 .. n : Replies(w, n, m) /\ Expects(n, m)
        BY <3>2 DEF Served
      <4>2. PICK m \in 0 .. n : Replies(w, n, m) /\ Expects(n, m)
        BY <4>1
      <4>3. m = n
        BY <1>4, <4>2 DEF Expects
      <4>4. Len(from_worker[w]) + Len(w_out[w]) = 0
        <5>1. Len(from_worker[w]) + Len(w_out[w]) = n - m
          BY <4>2 DEF Replies
        <5>2. n - m = 0
          BY <4>3
        <5> QED
          BY <5>1, <5>2
      <4>5. /\ from_worker[w] \in Seq(ResponseFrameSet)
            /\ w_out[w] \in Seq(ResponseFrameSet)
        BY DEF Typed
      <4>6. Len(from_worker[w]) \in Nat /\ Len(w_out[w]) \in Nat
        BY <4>5, LenProperties
      <4>7. Len(from_worker[w]) = 0 /\ Len(w_out[w]) = 0
        <5>1. \A b, c \in Nat : b + c = 0 => b = 0 /\ c = 0
          OBVIOUS
        <5> QED
          BY <4>4, <4>6, <5>1
      <4>8. from_worker[w] = <<>> /\ w_out[w] = <<>>
        BY <4>5, <4>7, EmptySeq
      <4> QED
        BY <3>2, <4>8 DEF Served, Quiet
    <3> QED
      BY <3>1, <3>2
  <2>2. IdleInStep'
    BY <1>2, <2>1 DEF IdleInStep
  <2> QED
    BY <1>1, <1>4, <2>2 DEF InStep, ExchangeInStep, ShutdownInStep, EndInStep,
      InExchange
<1> QED
  BY <1>1, <1>3, <1>4

(* After a failure the dispatcher begins no exchange any more. *)
LEMMA FailureInStep ==
  ASSUME InStep, MpiCallFails \/ Unwind \/ FatalError
  PROVE  InStep'
<1>1. /\ d_pc # "done" /\ d_pc' \in {"unwind", "fatal", "abort"}
      /\ main_pc' = main_pc
  BY DEF MpiCallFails, Unwind, FatalError, mainVars
<1> QED
  BY <1>1 DEF InStep, IdleInStep, ExchangeInStep, ShutdownInStep, EndInStep,
    BetweenExchanges, InExchange

(* The main thread leaves MPI_Finalize when every rank has entered it. *)
LEMMA MainInStep ==
  ASSUME InStep, JoinDispatcher \/ GatewayExits \/ ListenReturns
  PROVE  InStep'
<1>1. UNCHANGED <<d_pc, outbox, assigned, to_worker, from_worker, w_out, w_pc>>
  BY DEF JoinDispatcher, GatewayExits, ListenReturns, dispVars, workerVars,
    netVars
<1>2. /\ \A w \in Workers : (Quiet(w) => Quiet(w)') /\ (Told(w) => Told(w)')
      /\ \A w \in Workers : Unserved(w) => Unserved(w)'
      /\ \A w \in Workers : Served(w) => Served(w)'
  <2>1. ASSUME NEW w \in Workers
        PROVE  (Quiet(w) => Quiet(w)') /\ (Told(w) => Told(w)')
    BY <1>1 DEF Quiet, Told
  <2>2. ASSUME NEW w \in Workers, NEW k \in 0 .. 5, Receiving(w, k)
        PROVE  Receiving(w, k)'
    BY <1>1, <2>2 DEF Receiving
  <2>3. ASSUME NEW w \in Workers, Unserved(w)
        PROVE  Unserved(w)'
    BY <1>1, <2>2, <2>3 DEF Unserved
  <2>4. ASSUME NEW w \in Workers, NEW n \in {2, 3}, NEW m \in 0 .. n,
               Replies(w, n, m), Expects(n, m)
        PROVE  Replies(w, n, m)' /\ Expects(n, m)'
    BY <1>1, <2>4 DEF Replies, Expects
  <2>5. ASSUME NEW w \in Workers, Served(w)
        PROVE  Served(w)'
    BY <1>1, <2>4, <2>5 DEF Served
  <2> QED
    BY <2>1, <2>3, <2>5
<1>3. IdleInStep' /\ ExchangeInStep' /\ ShutdownInStep'
  BY <1>1, <1>2 DEF InStep, IdleInStep, ExchangeInStep, ShutdownInStep,
    BetweenExchanges, InExchange, NextToTell
<1>4. EndInStep'
  BY <1>1 DEF InStep, EndInStep, JoinDispatcher, GatewayExits, Finalizing,
    ListenReturns
<1> QED
  BY <1>3, <1>4 DEF InStep

(***************************************************************************)
(* The two sides of the MPI protocol stay in step: whenever the dispatcher *)
(* chooses a worker, no frame of an earlier exchange is under way, and     *)
(* when the gateway has left MPI_Finalize every channel is empty.  The     *)
(* invariant InStep says in addition, for each moment of an exchange and   *)
(* of the shutdown, which frames are under way, which are still to be sent *)
(* and what the receiver waits for; so every receive takes the first frame *)
(* of its channel, and no frame is ever taken by the wrong receive.        *)
(***************************************************************************)
THEOREM ChannelsStayInStep == Spec => [](ChannelsQuiet /\ InStep)
<1>1. Init => InStep
  <2> SUFFICES ASSUME Init PROVE InStep
    OBVIOUS
  <2>1. \A w \in Workers : Quiet(w)
    BY DEF Init, Quiet
  <2> QED
    BY <2>1 DEF Init, InStep, IdleInStep, ExchangeInStep, ShutdownInStep,
      EndInStep, InExchange
<1>2. ASSUME TypeOK, BusyIffAssigned, InStep, [Next]_vars
      PROVE  InStep'
  <2>1. Typed
    BY <1>2 DEF TypeOK
  <2>2. ASSUME NEW t \in HttpThreads, HttpStep(t) \/ FetchId(t)
        PROVE  InStep'
    BY <1>2, <2>2, NothingMoves DEF HttpStep, EnqueueRequest, Reply, FetchId,
      mainVars, dispVars, workerVars, netVars
  <2>3. ASSUME DispatcherStep
        PROVE  InStep'
    <3>1. CASE SleepAndRetry
      <4>1. /\ d_pc = "schedule" /\ d_pc' = "check"
            /\ UNCHANGED <<main_pc, to_worker, from_worker, w_out, w_pc>>
        BY <3>1 DEF SleepAndRetry, mainVars, workerVars, netVars
      <4>2. IdleInStep'
        BY <1>2, <4>1 DEF InStep, IdleInStep, BetweenExchanges, Quiet
      <4> QED
        BY <1>2, <4>1, <4>2 DEF InStep, ExchangeInStep, ShutdownInStep,
          EndInStep, InExchange
    <3>2. CASE SendFrame
      <4>1. d_pc = "send" \/ d_pc = "stop"
        BY <3>2 DEF SendFrame
      <4> QED
        BY <1>2, <2>1, <3>2, <4>1, SendInStep, StopInStep
    <3> QED
      BY <1>2, <2>1, <2>3, <3>1, <3>2, CheckInStep, ScheduleInStep,
        LastSendInStep, ReceiveInStep, FinishInStep, FailureInStep
      DEF DispatcherStep
  <2>4. ASSUME NEW w \in Workers, WorkerStep(w) \/ WorkerMpiCallFails(w)
        PROVE  InStep'
    <3>1. Moves(w)
      BY <2>4 DEF Moves, Receives, WorkerStep
    <3> QED
      BY <1>2, <2>1, <3>1, WorkerInStep
  <2>5. ASSUME MainStep
        PROVE  InStep'
    BY <1>2, <2>5, MainInStep DEF MainStep
  <2>6. ASSUME Environment
        PROVE  InStep'
    BY <1>2, <2>2, <2>4, <2>6, MainInStep, FailureInStep DEF Environment
  <2>7. ASSUME FreeingFails \/ Abort \/ UNCHANGED vars
        PROVE  InStep'
    BY <1>2, <2>7, NothingMoves DEF FreeingFails, Abort, vars, mainVars, dispVars,
      workerVars, netVars
  <2> QED
    BY <1>2, <2>2, <2>3, <2>4, <2>5, <2>6, <2>7 DEF Next, Stopped
<1>3. TypeOK /\ InStep => ChannelsQuiet
  <2> SUFFICES ASSUME TypeOK, InStep PROVE ChannelsQuiet
    OBVIOUS
  <2>1. CASE d_pc \in {"check", "schedule"}
    BY <2>1 DEF InStep, IdleInStep, BetweenExchanges, Quiet, ChannelsQuiet
  <2>2. CASE main_pc = "exited"
    <3>1. d_pc = "done" /\ outbox = <<>>
          /\ \A w \in Workers : w_pc[w] \in {"finalize", "exited"}
      BY <2>2 DEF InStep, EndInStep
    <3>2. NextToTell = WorldSize
      BY <3>1, WorldSizeAssumption DEF NextToTell
    <3>3. \A w \in Workers : w < NextToTell
      BY <3>2, WorldSizeAssumption DEF Workers
    <3>4. \A w \in Workers : Told(w)
      BY <3>1, <3>3 DEF InStep, ShutdownInStep
    <3> QED
      BY <2>2, <3>1, <3>4 DEF Told, ChannelsQuiet
  <2> QED
    BY <2>1, <2>2 DEF ChannelsQuiet
<1> QED
  BY <1>1, <1>2, <1>3, TypeCorrect, BusyIffAssignedInvariant, PTL DEF Spec
=============================================================================
