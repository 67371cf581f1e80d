--------------------------- MODULE WeightTransfer ---------------------------
(***************************************************************************)
(* One transfer of the weights from the trainer to the rollout servers     *)
(* (CheckpointEngineManager.update_weights, step 5) with the NCCL engine.  *)
(*                                                                         *)
(* Rank 0 of the trainer cuts the weights into chunks and broadcasts them  *)
(* in buckets, filling one of its two buffers while the other is on the    *)
(* way.  The metadata of a bucket travel apart from it, over PUB/SUB.  A   *)
(* receiver yields views of one buffer while the next bucket arrives in    *)
(* the other, merges the chunks of large weights, and hands the weights to *)
(* the worker of the inference engine on its device through a third        *)
(* buffer, bucket by bucket, each one acknowledged.                        *)
(*                                                                         *)
(* Copies on a device are asynchronous: they are enqueued and carried out  *)
(* in order, some time before synchronize() returns.  A byte is named by   *)
(* its weight and its place in it.                                         *)
(***************************************************************************)
EXTENDS Integers, Sequences, FiniteSets, SequencesExt

CONSTANTS
  Receivers,     \* ranks of the rollout replicas
  BucketSize,    \* update_weights_bucket_megabytes, in bytes
  WeightLists,   \* lists of weight sizes
  MaxRaises      \* bound: workers whose load_weights raises

ASSUME TransferConstants ==
  /\ IsFiniteSet(Receivers) /\ 0 \notin Receivers   \* 0 is the trainer's rank
  /\ BucketSize \in Nat \ {0}
  /\ WeightLists \subseteq Seq(Nat \ {0})
  /\ MaxRaises \in Nat

VARIABLES
  weights,     \* sizes of the trainer's weights, in the order of the generator
  \* rank 0 of the trainer: send_weights
  split,       \* the next chunk: its weight and chunk_offset
  fill,        \* the buffer being filled, 1 or 2
  meta,        \* bucket_meta
  rootOp,      \* the broadcast under way
  got,         \* receivers that have its bucket
  root,        \* "fill" or "last": the loop, after the loop
  \* PUB/SUB of the metadata
  joined,      \* receivers whose subscription has reached the publisher
  inbox,
  lost,        \* metadata published before a receiver had joined
  \* devices
  buffer,      \* the two buffers of every rank, and a receiver's IPC buffer
  stream,      \* copies enqueued and not carried out
  \* receivers: receive_weights, async_send_weights
  pc,
  op,          \* the receiver's broadcast
  bucket,      \* metadata of the bucket being yielded
  turn,        \* buffer its tensors are views of
  at,          \* its next chunk
  merge,       \* merge_name and merge_weight
  ipcMeta,     \* bucket_meta of the IPC bucket
  message,     \* in the ZMQ socket to the worker
  \* workers: receive_weights
  worker,
  loading,     \* enqueued by load_weights
  loaded,      \* weights loaded
  raises

rootVars == <<split, fill, meta, rootOp, got, root>>
topic == <<joined, inbox, lost>>
device == <<buffer, stream>>
receiver == <<pc, op, bucket, turn, at, merge, ipcMeta>>
workers == <<worker, loading, loaded, raises>>
vars == <<weights, rootVars, topic, device, receiver, message, workers>>

Root == 0
Ipc == 3                     \* a receiver's third buffer
Merged == 0                  \* destination of a copy: the weight being merged
Other(b) == 3 - b

Byte(w, i) == <<w, i>>
Empty == <<0, 0>>
Bytes(w, from, size) == [i \in 1 .. size |-> Byte(w, from + i)]
Whole(w) == Bytes(w, 0, weights[w])
Blank(n) == [i \in 1 .. n |-> Empty]

(* Fill of a bucket: where the next chunk goes.                            *)
Used(m) == IF m = <<>> THEN 0 ELSE Last(m).offset + Last(m).size
Overwrite(units, offset, new) ==
  [i \in DOMAIN units |->
     IF i \in offset + 1 .. offset + Len(new) THEN new[i - offset] ELSE units[i]]

NoOp == [state |-> "none", buf |-> 1, meta |-> <<>>, last |-> FALSE]
NoMessage == [kind |-> "none", meta |-> <<>>, last |-> FALSE]
NoBucket == [meta |-> <<>>, last |-> FALSE]
NoMerge == [weight |-> 0, offset |-> 0, units |-> <<>>]

Init ==
  /\ weights \in WeightLists
  /\ split = [weight |-> 1, offset |-> 0]
  /\ fill = 1
  /\ meta = <<>>
  /\ rootOp = NoOp
  /\ got = Receivers
  /\ root = "fill"
  /\ joined = {}
  /\ inbox = [r \in Receivers |-> <<>>]
  /\ lost = FALSE
  /\ buffer = [n \in Receivers \union {Root} |-> [b \in 1 .. 3 |-> Blank(BucketSize)]]
  /\ stream = [n \in Receivers \union {Root} |-> <<>>]
  /\ pc = [r \in Receivers |-> "handle"]
  /\ op = [r \in Receivers |-> NoOp]
  /\ bucket = [r \in Receivers |-> NoBucket]
  /\ turn = [r \in Receivers |-> 1]
  /\ at = [r \in Receivers |-> 1]
  /\ merge = [r \in Receivers |-> NoMerge]
  /\ ipcMeta = [r \in Receivers |-> <<>>]
  /\ message = [r \in Receivers |-> NoMessage]
  /\ worker = [r \in Receivers |-> "waiting"]
  /\ loading = [r \in Receivers |-> <<>>]
  /\ loaded = [r \in Receivers |-> <<>>]
  /\ raises = 0

-----------------------------------------------------------------------------
(* The device of node n carries out its oldest copy: bytes of a weight the *)
(* trainer holds, or of a buffer, into a buffer or a weight being merged.  *)
Source(n, c) ==
  IF n = Root THEN Bytes(c.weight, c.from, c.size)
  ELSE SubSeq(buffer[n][c.src], c.from + 1, c.from + c.size)

Copy(n) ==
  /\ stream[n] # <<>>
  /\ LET c == Head(stream[n])
     IN IF c.dst = Merged
          THEN /\ merge' = [merge EXCEPT ![n].units = Overwrite(@, c.to, Source(n, c))]
               /\ UNCHANGED buffer
          ELSE /\ buffer' = [buffer EXCEPT ![n][c.dst] = Overwrite(@, c.to, Source(n, c))]
               /\ UNCHANGED merge
  /\ stream' = [stream EXCEPT ![n] = Tail(@)]
  /\ UNCHANGED <<weights, rootVars, topic, pc, op, bucket, turn, at, ipcMeta,
                 message, workers>>

Synchronized(n) == stream[n] = <<>>

-----------------------------------------------------------------------------
(* Rank 0.                                                                 *)

(* split_weight_chunks.                                                    *)
ChunkSize(w, offset) ==
  IF weights[w] - offset < BucketSize THEN weights[w] - offset ELSE BucketSize

MoreChunks == split.weight <= Len(weights)
NextSize == ChunkSize(split.weight, split.offset)
BucketFull == Used(meta) + NextSize > BucketSize

(* The next chunk is copied into the buffer being filled.                  *)
PutChunk ==
  /\ root = "fill" /\ MoreChunks /\ ~BucketFull
  /\ meta' = Append(meta, [weight |-> split.weight, from |-> split.offset,
                           size |-> NextSize, offset |-> Used(meta)])
  /\ stream' = [stream EXCEPT ![Root] =
        Append(@, [weight |-> split.weight, from |-> split.offset,
                   size |-> NextSize, dst |-> fill, to |-> Used(meta)])]
  /\ split' = IF split.offset + NextSize < weights[split.weight]
                THEN [split EXCEPT !.offset = @ + NextSize]
                ELSE [weight |-> split.weight + 1, offset |-> 0]
  /\ UNCHANGED <<weights, fill, rootOp, got, root, topic, buffer, receiver,
                 message, workers>>

(* A full bucket, or the last one: synchronize, wait for the previous      *)
(* broadcast, start this one and go on in the other buffer.                *)
StartBroadcast ==
  /\ root = "fill"
  /\ MoreChunks => BucketFull
  /\ Synchronized(Root)
  /\ got = Receivers
  /\ rootOp' = [state |-> "meta", buf |-> fill, meta |-> meta, last |-> ~MoreChunks]
  /\ got' = {}
  /\ fill' = Other(fill)
  /\ meta' = <<>>
  /\ root' = IF MoreChunks THEN "fill" ELSE "last"
  /\ UNCHANGED <<weights, split, topic, device, receiver, message, workers>>

(* The executor's thread publishes the metadata, then broadcasts.          *)
Publish ==
  /\ rootOp.state = "meta"
  /\ rootOp' = [rootOp EXCEPT !.state = "cast"]
  /\ inbox' = [r \in Receivers |->
        IF r \in joined
          THEN Append(inbox[r], [meta |-> rootOp.meta, last |-> rootOp.last])
          ELSE inbox[r]]
  /\ lost' = (lost \/ joined # Receivers)
  /\ UNCHANGED <<weights, split, fill, meta, got, root, joined, device,
                 receiver, message, workers>>

(* A subscription is made before the barrier of init_process_group, but it *)
(* reaches the publisher in its own time.                                  *)
Join(r) ==
  /\ r \notin joined
  /\ joined' = joined \union {r}
  /\ UNCHANGED <<weights, rootVars, inbox, lost, device, receiver, message,
                 workers>>

(* The collective: rank 0 and a receiver that have both entered it.        *)
Deliver(r) ==
  /\ rootOp.state = "cast" /\ r \notin got
  /\ op[r].state = "cast"
  /\ buffer' = [buffer EXCEPT ![r][op[r].buf] = buffer[Root][rootOp.buf]]
  /\ op' = [op EXCEPT ![r].state = "complete"]
  /\ got' = got \union {r}
  /\ UNCHANGED <<weights, split, fill, meta, rootOp, root, topic, stream, pc,
                 bucket, turn, at, merge, ipcMeta, message, workers>>

-----------------------------------------------------------------------------
(* Receiver r: one coroutine, through receive_weights, merge_weight_chunks *)
(* and async_send_weights.                                                 *)

SocketFree(r) == message[r].kind = "none"
Send(r, m) == message' = [message EXCEPT ![r] = m]
Goto(r, label) == pc' = [pc EXCEPT ![r] = label]
StartReceive(r, b) == op' = [op EXCEPT ![r] = [NoOp EXCEPT !.state = "meta", !.buf = b]]

(* _init_buffer of the sender: the handle of the IPC buffer goes first.    *)
SendHandle(r) ==
  /\ pc[r] = "handle"
  /\ Send(r, [NoMessage EXCEPT !.kind = "handle"])
  /\ Goto(r, "first")
  /\ UNCHANGED <<weights, rootVars, topic, device, op, bucket, turn, at,
                 merge, ipcMeta, workers>>

(* The generator starts when the first weight is asked for.                *)
ReceiveFirst(r) ==
  /\ pc[r] = "first" /\ SocketFree(r)
  /\ StartReceive(r, Other(turn[r]))
  /\ Goto(r, "await")
  /\ UNCHANGED <<weights, rootVars, topic, device, bucket, turn, at, merge,
                 ipcMeta, message, workers>>

TakeMeta(r) ==
  /\ op[r].state = "meta"
  /\ inbox[r] # <<>>
  /\ op' = [op EXCEPT ![r].state = "cast", ![r].meta = Head(inbox[r]).meta,
                      ![r].last = Head(inbox[r]).last]
  /\ inbox' = [inbox EXCEPT ![r] = Tail(@)]
  /\ UNCHANGED <<weights, rootVars, joined, lost, device, pc, bucket, turn,
                 at, merge, ipcMeta, message, workers>>

(* Mutant: no synchronize() between the copies from a buffer and its reuse. *)
NextBucket_NoSync(r) ==
  /\ pc[r] = "await"
  /\ op[r].state = "complete"
  /\ bucket' = [bucket EXCEPT ![r] = [meta |-> op[r].meta, last |-> op[r].last]]
  /\ turn' = [turn EXCEPT ![r] = op[r].buf]
  /\ at' = [at EXCEPT ![r] = 1]
  /\ IF op[r].last
       THEN op' = [op EXCEPT ![r] = NoOp]
       ELSE StartReceive(r, Other(op[r].buf))
  /\ Goto(r, "yield")
  /\ UNCHANGED <<weights, rootVars, topic, device, merge, ipcMeta, message,
                 workers>>

(* The bucket has arrived.  Swap the buffers and, unless it is the last,    *)
(* start receiving the next one before yielding its tensors.               *)
NextBucket(r) ==
  /\ pc[r] = "await"
  /\ op[r].state = "complete"
  /\ Synchronized(r)
  /\ bucket' = [bucket EXCEPT ![r] = [meta |-> op[r].meta, last |-> op[r].last]]
  /\ turn' = [turn EXCEPT ![r] = op[r].buf]
  /\ at' = [at EXCEPT ![r] = 1]
  /\ IF op[r].last
       THEN op' = [op EXCEPT ![r] = NoOp]
       ELSE StartReceive(r, Other(op[r].buf))
  /\ Goto(r, "yield")
  /\ UNCHANGED <<weights, rootVars, topic, device, merge, ipcMeta, message,
                 workers>>

Chunk(r) == bucket[r].meta[at[r]]
More(r) == at[r] <= Len(bucket[r].meta)
Large(c) == weights[c.weight] > BucketSize
Ends(c) == c.from + c.size = weights[c.weight]

(* A chunk of a large weight is copied into the tensor it is merged in;    *)
(* the weight is yielded with its last chunk.                              *)
MergeChunk(r) ==
  /\ pc[r] = "yield" /\ More(r)
  /\ LET c == Chunk(r)
     IN /\ Large(c)
        /\ IF merge[r] = NoMerge
             THEN merge' = [merge EXCEPT ![r] = [weight |-> c.weight, offset |-> c.size,
                                                 units |-> Blank(weights[c.weight])]]
             ELSE merge' = [merge EXCEPT ![r].offset = @ + c.size]
        /\ stream' = [stream EXCEPT ![r] =
              Append(@, [src |-> turn[r], from |-> c.offset, size |-> c.size,
                         dst |-> Merged, to |-> c.from])]
        /\ IF Ends(c)
             THEN Goto(r, "pack") /\ UNCHANGED at
             ELSE at' = [at EXCEPT ![r] = @ + 1] /\ UNCHANGED pc
  /\ UNCHANGED <<weights, rootVars, topic, buffer, op, bucket, turn, ipcMeta,
                 message, workers>>

(* A small weight is yielded as a view of the buffer.                      *)
YieldView(r) ==
  /\ pc[r] = "yield" /\ More(r)
  /\ ~Large(Chunk(r))
  /\ Goto(r, "pack")
  /\ UNCHANGED <<weights, rootVars, topic, device, op, bucket, turn, at,
                 merge, ipcMeta, message, workers>>

(* The tensors of the bucket are all yielded.                              *)
BucketYielded(r) ==
  /\ pc[r] = "yield" /\ ~More(r)
  /\ Goto(r, IF bucket[r].last THEN "flush" ELSE "await")
  /\ UNCHANGED <<weights, rootVars, topic, device, op, bucket, turn, at,
                 merge, ipcMeta, message, workers>>

Size(r) == weights[Chunk(r).weight]

(* Mutant: one byte too many.                                              *)
Fits_OffByOne(r) == Used(ipcMeta[r]) + Size(r) <= BucketSize + 1

(* The weight fits in what is left of the IPC bucket.                      *)
Fits(r) == Used(ipcMeta[r]) + Size(r) <= BucketSize

(* The weight does not fit: the IPC bucket is sent first.                  *)
FlushIpc(r) ==
  /\ pc[r] = "pack" /\ ~Fits(r) /\ ipcMeta[r] # <<>>
  /\ Synchronized(r)
  /\ Send(r, [NoMessage EXCEPT !.kind = "bucket", !.meta = ipcMeta[r]])
  /\ Goto(r, "flushed")
  /\ UNCHANGED <<weights, rootVars, topic, device, op, bucket, turn, at,
                 merge, ipcMeta, workers>>

(* Every send is followed by a blocking recv of the acknowledgement.       *)
Flushed(r) ==
  /\ pc[r] = "flushed" /\ SocketFree(r)
  /\ ipcMeta' = [ipcMeta EXCEPT ![r] = <<>>]
  /\ Goto(r, "pack")
  /\ UNCHANGED <<weights, rootVars, topic, device, op, bucket, turn, at,
                 merge, message, workers>>

PackWeight(r) ==
  /\ pc[r] = "pack" /\ Fits(r)
  /\ ipcMeta' = [ipcMeta EXCEPT ![r] =
        Append(@, [weight |-> Chunk(r).weight, from |-> 0, size |-> Size(r),
                   offset |-> Used(@)])]
  /\ stream' = [stream EXCEPT ![r] =
        Append(@, [src |-> turn[r], from |-> Chunk(r).offset, size |-> Size(r),
                   dst |-> Ipc, to |-> Used(ipcMeta[r])])]
  /\ at' = [at EXCEPT ![r] = @ + 1]
  /\ Goto(r, "yield")
  /\ UNCHANGED <<weights, rootVars, topic, buffer, op, bucket, turn, merge,
                 message, workers>>

(* A weight larger than the bucket goes by a handle of its own tensor.     *)
SendLarge(r) ==
  /\ pc[r] = "pack" /\ ~Fits(r) /\ ipcMeta[r] = <<>>
  /\ Send(r, [NoMessage EXCEPT !.kind = "large",
                 !.meta = <<[weight |-> merge[r].weight, from |-> 0, size |-> Size(r),
                             offset |-> 0]>>])
  /\ Goto(r, "large")
  /\ UNCHANGED <<weights, rootVars, topic, device, op, bucket, turn, at,
                 merge, ipcMeta, workers>>

(* Mutant: the merged weight is not let go of.                             *)
LargeSent_KeepMerge(r) ==
  /\ pc[r] = "large" /\ SocketFree(r)
  /\ UNCHANGED merge
  /\ at' = [at EXCEPT ![r] = @ + 1]
  /\ Goto(r, "yield")
  /\ UNCHANGED <<weights, rootVars, topic, device, op, bucket, turn, ipcMeta,
                 message, workers>>

(* The next weight is asked for once the large one is acknowledged.        *)
LargeSent(r) ==
  /\ pc[r] = "large" /\ SocketFree(r)
  /\ merge' = [merge EXCEPT ![r] = NoMerge]
  /\ at' = [at EXCEPT ![r] = @ + 1]
  /\ Goto(r, "yield")
  /\ UNCHANGED <<weights, rootVars, topic, device, op, bucket, turn, ipcMeta,
                 message, workers>>

(* The last IPC bucket is sent even when it is empty.                      *)
FlushLast(r) ==
  /\ pc[r] = "flush"
  /\ Synchronized(r)
  /\ Send(r, [NoMessage EXCEPT !.kind = "bucket", !.meta = ipcMeta[r], !.last = TRUE])
  /\ Goto(r, "last")
  /\ UNCHANGED <<weights, rootVars, topic, device, op, bucket, turn, at,
                 merge, ipcMeta, workers>>

LastSent(r) ==
  /\ pc[r] = "last" /\ SocketFree(r)
  /\ Goto(r, "done")
  /\ UNCHANGED <<weights, rootVars, topic, device, op, bucket, turn, at,
                 merge, ipcMeta, message, workers>>

-----------------------------------------------------------------------------
(* The worker of receiver r.                                               *)

(* _init_buffer: map the sender's buffer and answer.                       *)
MapBuffer(r) ==
  /\ worker[r] = "waiting"
  /\ message[r].kind = "handle"
  /\ Send(r, NoMessage)
  /\ UNCHANGED <<weights, rootVars, topic, device, receiver, workers>>

(* on_bucket_received: load_weights copies from the views it is given.     *)
LoadBucket(r) ==
  /\ worker[r] = "waiting"
  /\ message[r].kind \in {"bucket", "large"}
  /\ loading' = [loading EXCEPT ![r] = message[r].meta]
  /\ worker' = [worker EXCEPT ![r] = "loading"]
  /\ UNCHANGED <<weights, rootVars, topic, device, receiver, message, loaded,
                 raises>>

(* A handle orders its reader behind the copies into the tensor (torch).   *)
LoadWeight(r) ==
  /\ loading[r] # <<>>
  /\ message[r].kind = "large" => Synchronized(r)
  /\ LET m == Head(loading[r])
         units == IF message[r].kind = "large" THEN merge[r].units
                  ELSE SubSeq(buffer[r][Ipc], m.offset + 1, m.offset + m.size)
     IN loaded' = [loaded EXCEPT ![r] = Append(@, [weight |-> m.weight, units |-> units])]
  /\ loading' = [loading EXCEPT ![r] = Tail(@)]
  /\ UNCHANGED <<weights, rootVars, topic, device, receiver, message, worker,
                 raises>>

(* Mutant: the loop is left before the last bucket is acknowledged.        *)
Acknowledge_NotLast(r) ==
  /\ worker[r] = "loading"
  /\ loading[r] = <<>>
  /\ IF message[r].last THEN UNCHANGED message ELSE Send(r, NoMessage)
  /\ worker' = [worker EXCEPT ![r] = IF message[r].last THEN "done" ELSE "waiting"]
  /\ UNCHANGED <<weights, rootVars, topic, device, receiver, loading, loaded,
                 raises>>

(* synchronize(), then the acknowledgement.                                *)
Acknowledge(r) ==
  /\ worker[r] = "loading"
  /\ loading[r] = <<>>
  /\ Send(r, NoMessage)
  /\ worker' = [worker EXCEPT ![r] = IF message[r].last THEN "done" ELSE "waiting"]
  /\ UNCHANGED <<weights, rootVars, topic, device, receiver, loading, loaded,
                 raises>>

(* load_weights raises: the socket is closed and nothing acknowledged.     *)
LoadRaises(r) ==
  /\ raises < MaxRaises
  /\ worker[r] = "loading"
  /\ raises' = raises + 1
  /\ worker' = [worker EXCEPT ![r] = "closed"]
  /\ loading' = [loading EXCEPT ![r] = <<>>]
  /\ UNCHANGED <<weights, rootVars, topic, device, receiver, message, loaded>>

-----------------------------------------------------------------------------
RootStep == PutChunk \/ StartBroadcast \/ Publish \/ Copy(Root)

ReceiverStep(r) ==
  \/ SendHandle(r) \/ ReceiveFirst(r) \/ NextBucket(r)
  \/ MergeChunk(r) \/ YieldView(r) \/ BucketYielded(r)
  \/ FlushIpc(r) \/ Flushed(r) \/ PackWeight(r) \/ SendLarge(r) \/ LargeSent(r)
  \/ FlushLast(r) \/ LastSent(r)

WorkerStep(r) == MapBuffer(r) \/ LoadBucket(r) \/ LoadWeight(r) \/ Acknowledge(r)

Next ==
  \/ RootStep
  \/ \E r \in Receivers :
       \/ Join(r) \/ TakeMeta(r) \/ Deliver(r) \/ Copy(r)
       \/ ReceiverStep(r) \/ WorkerStep(r) \/ LoadRaises(r)

Spec == Init /\ [][Next]_vars

-----------------------------------------------------------------------------
TypeOK ==
  /\ weights \in WeightLists
  /\ split.weight \in 1 .. Len(weights) + 1
  /\ fill \in 1 .. 2
  /\ rootOp.state \in {"none", "meta", "cast"} /\ rootOp.buf \in 1 .. 2
  /\ got \subseteq Receivers /\ joined \subseteq Receivers
  /\ root \in {"fill", "last"}
  /\ lost \in BOOLEAN
  /\ \A n \in DOMAIN buffer : \A b \in 1 .. 3 : Len(buffer[n][b]) = BucketSize
  /\ \A r \in Receivers :
       /\ pc[r] \in {"handle", "first", "await", "yield", "pack", "flushed", "large",
                     "flush", "last", "done"}
       /\ op[r].state \in {"none", "meta", "cast", "complete"}
       /\ pc[r] = "pack" => More(r)
       /\ Used(ipcMeta[r]) <= BucketSize
       /\ message[r].kind \in {"none", "handle", "bucket", "large"}
       /\ worker[r] \in {"waiting", "loading", "closed", "done"}
  /\ raises \in 0 .. MaxRaises

(* What a worker has loaded is, from the first weight on, what the trainer *)
(* sent, whole and in its order: no bucket is filled again while a         *)
(* broadcast, a copy or a worker still reads it, and no chunk goes astray. *)
LoadedFaithfully ==
  \A r \in Receivers :
    IsPrefix(loaded[r], [w \in DOMAIN weights |-> [weight |-> w, units |-> Whole(w)]])

(* The assertions of send_weights and merge_weight_chunks: a chunk fits an *)
(* empty bucket, a weight is in a bucket once, a small weight does not     *)
(* come while a large one is being merged, chunks come in order.           *)
AssertionsHold ==
  /\ MoreChunks => NextSize <= BucketSize
  /\ \A i, j \in DOMAIN meta : meta[i].weight = meta[j].weight => i = j
  /\ \A r \in Receivers : pc[r] = "yield" /\ More(r) =>
       LET c == Chunk(r)
       IN /\ ~Large(c) => merge[r] = NoMerge
          /\ Large(c) /\ merge[r] = NoMerge => c.from = 0
          /\ Large(c) /\ merge[r] # NoMerge =>
               /\ c.weight = merge[r].weight
               /\ c.from = merge[r].offset

(* Every party that can go on does.                                        *)
FairSpec ==
  /\ Spec
  /\ WF_vars(PutChunk \/ StartBroadcast) /\ WF_vars(Publish) /\ WF_vars(Copy(Root))
  /\ \A r \in Receivers :
       /\ WF_vars(TakeMeta(r)) /\ WF_vars(Deliver(r)) /\ WF_vars(Copy(r))
       /\ WF_vars(ReceiverStep(r)) /\ WF_vars(WorkerStep(r))

AllLoaded ==
  /\ root = "last" /\ got = Receivers
  /\ \A r \in Receivers :
       /\ pc[r] = "done" /\ worker[r] = "done"
       /\ Len(loaded[r]) = Len(weights)

(* The transfer ends with every weight in every worker, unless metadata    *)
(* were published to nobody or a worker's load_weights raised.             *)
TransferEnds == <>(AllLoaded \/ lost \/ raises > 0)
=============================================================================
