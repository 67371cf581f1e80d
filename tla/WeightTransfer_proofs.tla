------------------------ MODULE WeightTransfer_proofs ------------------------
(* Theorems of WeightTransfer for every set of receivers, bucket size, list *)
(* of weights and number of workers that raise.                             *)
(*                                                                          *)
(* The idea of the proofs: no broadcast starts before every receiver has    *)
(* the one before it, so a receiver is at most two buckets behind rank 0    *)
(* and the positions at which their buckets begin and end meet.  A copy     *)
(* that is enqueued finds the bytes it was enqueued for, because a buffer   *)
(* is filled again only behind a synchronize().                             *)
EXTENDS WeightTransfer, SequenceTheorems, TLAPS

-----------------------------------------------------------------------------
(* Chunks, as operators of the sizes ws of the weights.                     *)
Chunks == [weight: Nat, from: Nat, size: Nat, offset: Nat]

Ended(ws, c) == c.from + c.size = ws[c.weight]

ChunkOf(ws, c) ==
  /\ c.weight \in 1 .. Len(ws)
  /\ c.size > 0
  /\ c.from + c.size <= ws[c.weight]
  /\ c.offset + c.size <= BucketSize
  /\ c.from > 0 => ws[c.weight] > BucketSize
  /\ ~Ended(ws, c) => c.size = BucketSize

(* Consecutive chunks; only the last one may leave its weight unfinished.   *)
BucketOf(ws, m) ==
  /\ m \in Seq(Chunks)
  /\ \A i \in 1 .. Len(m) : ChunkOf(ws, m[i])
  /\ \A i, j \in 1 .. Len(m) : i < j =>
       /\ Ended(ws, m[i]) /\ m[j].from = 0 /\ m[j].weight = m[i].weight + (j - i)
       /\ m[i].offset + m[i].size <= m[j].offset

(* Positions in the stream of chunks.                                       *)
Position(w, o) == [weight |-> w, offset |-> o]
First == Position(1, 0)
At(c) == Position(c.weight, c.from)
After(ws, c) ==
  IF Ended(ws, c) THEN Position(c.weight + 1, 0) ELSE Position(c.weight, c.from + c.size)

StartOf(m) == IF m = <<>> THEN First ELSE At(m[1])
EndOf(ws, m) == IF m = <<>> THEN First ELSE After(ws, m[Len(m)])
Cursor(ws, m, a) == IF a <= Len(m) THEN At(m[a]) ELSE EndOf(ws, m)

PositionOf(ws, p) ==
  /\ p.weight \in 1 .. Len(ws) + 1 /\ p.offset \in Nat
  /\ p.offset > 0 => /\ p.weight <= Len(ws) /\ p.offset < ws[p.weight]
                     /\ ws[p.weight] > BucketSize

(* The buffer holds the first n chunks of a bucket.                         *)
Holds(units, m, n) ==
  \A i \in 1 .. n : \A k \in 1 .. m[i].size :
    units[m[i].offset + k] = Byte(m[i].weight, m[i].from + k)

Units == Nat \X Nat
RootCopies == [weight: Nat, from: Nat, size: Nat, dst: 1 .. 2, to: Nat]
ReceiverCopies == [src: 1 .. 2, from: Nat, size: Nat, dst: {Merged, Ipc}, to: Nat]
Copies == RootCopies \union ReceiverCopies
Nodes == Receivers \union {Root}
Ops == [state: {"none", "meta", "cast", "complete"}, buf: 1 .. 2, meta: Seq(Chunks),
        last: BOOLEAN]
Buckets == [meta: Seq(Chunks), last: BOOLEAN]
Messages == [kind: {"none", "handle", "bucket", "large"}, meta: Seq(Chunks), last: BOOLEAN]
Merges == [weight: Nat, offset: Nat, units: Seq(Units)]
Labels == {"handle", "first", "await", "yield", "pack", "flushed", "large", "flush", "last",
           "done"}

Typed ==
  /\ weights \in WeightLists
  /\ split \in [weight: Nat, offset: Nat] /\ fill \in 1 .. 2 /\ meta \in Seq(Chunks)
  /\ rootOp \in Ops /\ got \subseteq Receivers /\ root \in {"fill", "last"}
  /\ joined \subseteq Receivers /\ inbox \in [Receivers -> Seq(Buckets)] /\ lost \in BOOLEAN
  /\ buffer \in [Nodes -> [1 .. 3 -> [1 .. BucketSize -> Units]]]
  /\ stream \in [Nodes -> Seq(Copies)]
  /\ pc \in [Receivers -> {"handle", "first", "await", "yield", "pack", "flushed", "large",
                           "flush", "last", "done"}]
  /\ op \in [Receivers -> Ops] /\ bucket \in [Receivers -> Buckets]
  /\ turn \in [Receivers -> 1 .. 2] /\ at \in [Receivers -> Nat]
  /\ merge \in [Receivers -> Merges] /\ ipcMeta \in [Receivers -> Seq(Chunks)]
  /\ message \in [Receivers -> Messages]
  /\ worker \in [Receivers -> {"waiting", "loading", "closed", "done"}]
  /\ loading \in [Receivers -> Seq(Chunks)]
  /\ loaded \in [Receivers -> Seq([weight: Nat, units: Seq(Units)])]
  /\ raises \in 0 .. MaxRaises

(* Rank 0: the bucket being filled continues the one that was sent; the     *)
(* copies still enqueued are those of its last chunks.                      *)
RootInv ==
  /\ BucketOf(weights, meta) /\ BucketOf(weights, rootOp.meta)
  /\ PositionOf(weights, split)
  /\ split = IF meta = <<>> THEN EndOf(weights, rootOp.meta) ELSE EndOf(weights, meta)
  /\ meta # <<>> => root = "fill" /\ StartOf(meta) = EndOf(weights, rootOp.meta)
  /\ meta = <<>> /\ root = "fill" => rootOp.meta = <<>> \/ MoreChunks
  /\ rootOp.state \in {"none", "meta", "cast"}
  /\ rootOp.state = "none" => got = Receivers /\ rootOp.meta = <<>>
  /\ rootOp.state = "meta" => got = {}
  /\ rootOp.state # "none" => rootOp.buf = Other(fill)

Written == Len(meta) - Len(stream[Root])

RootCopied ==
  /\ Len(stream[Root]) <= Len(meta)
  /\ \A j \in 1 .. Len(stream[Root]) :
       LET c == meta[Written + j]
       IN stream[Root][j] = [weight |-> c.weight, from |-> c.from, size |-> c.size,
                             dst |-> fill, to |-> c.offset]
  /\ Holds(buffer[Root][fill], meta, Written)
  /\ Holds(buffer[Root][rootOp.buf], rootOp.meta, Len(rootOp.meta))

(* A receiver and the bucket that is being broadcast.                       *)
Link(ws, ro, has, box, o, m) ==
  /\ BucketOf(ws, m) /\ BucketOf(ws, o.meta)
  /\ o.state \in {"cast", "complete"} => StartOf(o.meta) = EndOf(ws, m)
  /\ has =>
       /\ box = <<>>
       /\ \/ o.state = "complete" /\ o.meta = ro.meta
          \/ o.state \in {"none", "meta"} /\ m = ro.meta
  /\ ~has =>
       /\ ro.state \in {"meta", "cast"}
       /\ box # <<>> => ro.state = "cast" /\ o.state # "cast" /\ Len(box) = 1
                        /\ box[1].meta = ro.meta
       /\ o.state = "cast" => ro.state = "cast" /\ o.meta = ro.meta
       /\ StartOf(ro.meta) = IF o.state = "complete" THEN EndOf(ws, o.meta) ELSE EndOf(ws, m)

LinkInv ==
  \A r \in Receivers : Link(weights, rootOp, r \in got, inbox[r], op[r], bucket[r].meta)

(* The buffers of a receiver: what is yielded and what has arrived.         *)
Arrived(b, o, m, t) ==
  /\ o.state # "none" => o.buf = Other(t)
  /\ Holds(b[t], m, Len(m))
  /\ o.state = "complete" => Holds(b[o.buf], o.meta, Len(o.meta))

ArrivedInv == \A r \in Receivers : Arrived(buffer[r], op[r], bucket[r].meta, turn[r])

(* Where a receiver stands in its bucket, and what it has merged.           *)
LargeOf(ws, c) == ws[c.weight] > BucketSize

Place(ws, p, o, m, a, g, ipc) ==
  /\ a \in 1 .. Len(m) + 1
  /\ p \in {"handle", "first"} => o.state = "none" /\ m = <<>>
  /\ p \in {"pack", "flushed", "large"} => a <= Len(m)
  /\ p \notin {"yield", "pack", "flushed", "large"} => a = Len(m) + 1
  /\ p = "large" => LargeOf(ws, m[a]) /\ ipc = <<>>
  /\ IF p \in {"pack", "flushed", "large"} /\ LargeOf(ws, m[a])
       THEN Ended(ws, m[a]) /\ g.weight = m[a].weight /\ g.offset = ws[g.weight]
       ELSE IF Cursor(ws, m, a).offset = 0
              THEN g = NoMerge
              ELSE g.weight = Cursor(ws, m, a).weight /\ g.offset = Cursor(ws, m, a).offset
  /\ g # NoMerge => g.weight \in 1 .. Len(ws) /\ DOMAIN g.units = 1 .. ws[g.weight]

PlaceInv ==
  \A r \in Receivers :
    Place(weights, pc[r], op[r], bucket[r].meta, at[r], merge[r], ipcMeta[r])

(* The weights packed and not yet loaded are the last ones before the       *)
(* cursor.                                                                  *)
Packed(ws, ipc, w) ==
  /\ ipc \in Seq(Chunks)
  /\ \A i \in 1 .. Len(ipc) :
       /\ ipc[i].weight + Len(ipc) = w - 1 + i /\ ipc[i].weight \in 1 .. Len(ws)
       /\ ipc[i].size = ws[ipc[i].weight] /\ ipc[i].offset + ipc[i].size <= Used(ipc)
  /\ \A i, j \in 1 .. Len(ipc) : i < j => ipc[i].offset + ipc[i].size <= ipc[j].offset
  /\ Used(ipc) <= BucketSize /\ Used(ipc) \in Nat

PackedInv ==
  \A r \in Receivers :
    Packed(weights, ipcMeta[r], Cursor(weights, bucket[r].meta, at[r]).weight)

(* A copy on the device of a receiver finds the bytes that belong where it  *)
(* puts them.                                                               *)
Fetches(b, t, ipc, g, c) ==
  /\ c \in ReceiverCopies /\ c.src = t /\ c.from + c.size <= BucketSize
  /\ c.dst = Ipc =>
       /\ c.to + c.size <= Used(ipc)
       /\ \A i \in 1 .. Len(ipc) : \A k \in 1 .. ipc[i].size, x \in 1 .. c.size :
            ipc[i].offset + k = c.to + x => b[t][c.from + x] = Byte(ipc[i].weight, k)
  /\ c.dst = Merged =>
       /\ g # NoMerge /\ c.to + c.size <= g.offset
       /\ \A x \in 1 .. c.size : b[t][c.from + x] = Byte(g.weight, c.to + x)

(* Some copy enqueued writes this byte.                                     *)
Pending(s, dst, n) ==
  \E j \in 1 .. Len(s) : s[j].dst = dst /\ s[j].to < n /\ n <= s[j].to + s[j].size

Copied(b, s, t, ipc, g) ==
  /\ \A j \in 1 .. Len(s) : Fetches(b, t, ipc, g, s[j])
  /\ \A i \in 1 .. Len(ipc) : \A k \in 1 .. ipc[i].size :
       b[Ipc][ipc[i].offset + k] = Byte(ipc[i].weight, k) \/ Pending(s, Ipc, ipc[i].offset + k)
  /\ g # NoMerge =>
       \A k \in 1 .. g.offset : g.units[k] = Byte(g.weight, k) \/ Pending(s, Merged, k)

CopiedInv ==
  \A r \in Receivers : Copied(buffer[r], stream[r], turn[r], ipcMeta[r], merge[r])

(* The worker: what it has loaded and what it is loading are the weights    *)
(* before the cursor of its receiver, whose device has come to rest.        *)
Delivered(ws, l) ==
  /\ Len(l) <= Len(ws)
  /\ \A i \in 1 .. Len(l) : l[i] = [weight |-> i, units |-> Bytes(i, 0, ws[i])]

Handed(p, s, ipc, msg, w, ld, n, done) ==
  /\ p \notin {"flushed", "large", "last", "done"} =>
       /\ msg.kind = "none" \/ (p = "first" /\ msg.kind = "handle")
       /\ w = "waiting" /\ ld = <<>> /\ done + Len(ipc) = n - 1
  /\ p \in {"flushed", "last"} =>
       /\ s = <<>>
       /\ \/ /\ msg.kind = "bucket" /\ msg.meta = ipc /\ (msg.last <=> p = "last")
             /\ w = "waiting" /\ ld = <<>> /\ done + Len(ipc) = n - 1
          \/ /\ msg.kind = "bucket" /\ (msg.last <=> p = "last") /\ w = "loading"
             /\ Len(ld) <= Len(ipc) /\ done + Len(ld) = n - 1
             /\ \A j \in 1 .. Len(ld) : ld[j] = ipc[Len(ipc) - Len(ld) + j]
          \/ /\ msg.kind = "none" /\ w = (IF p = "last" THEN "done" ELSE "waiting")
             /\ ld = <<>> /\ done = n - 1
          \/ msg.kind = "bucket" /\ w = "closed" /\ ld = <<>>
  /\ p = "large" =>
       \/ /\ msg.kind = "large" /\ ~msg.last /\ Len(msg.meta) = 1 /\ msg.meta[1].weight = n
          /\ w = "waiting" /\ ld = <<>> /\ done = n - 1
       \/ /\ msg.kind = "large" /\ ~msg.last /\ w = "loading"
          /\ Len(ld) = 1 /\ ld[1].weight = n /\ done = n - 1
       \/ /\ msg.kind = "large" /\ ~msg.last /\ w = "loading"
          /\ ld = <<>> /\ done = n /\ s = <<>>
       \/ msg.kind = "none" /\ w = "waiting" /\ ld = <<>> /\ done = n /\ s = <<>>
       \/ msg.kind = "large" /\ w = "closed" /\ ld = <<>>
  /\ p = "done" => msg.kind = "none" /\ w = "done" /\ ld = <<>>

HandedInv ==
  \A r \in Receivers :
    /\ Delivered(weights, loaded[r])
    /\ Handed(pc[r], stream[r], ipcMeta[r], message[r], worker[r], loading[r],
              Cursor(weights, bucket[r].meta, at[r]).weight, Len(loaded[r]))

IInv ==
  /\ Typed /\ RootInv /\ RootCopied /\ LinkInv /\ ArrivedInv /\ PlaceInv /\ PackedInv
  /\ CopiedInv /\ HandedInv


-----------------------------------------------------------------------------
(* Buckets and positions.                                                   *)
LEMMA Sizes ==
  ASSUME Typed
  PROVE  /\ weights \in Seq(Nat \ {0}) /\ Len(weights) \in Nat /\ BucketSize \in Nat
         /\ BucketSize > 0 /\ \A w \in 1 .. Len(weights) : weights[w] \in Nat /\ weights[w] > 0
BY TransferConstants DEF Typed

LEMMA UsedIs ==
  ASSUME NEW m \in Seq(Chunks)
  PROVE  /\ Used(m) \in Nat
         /\ m # <<>> => Len(m) \in 1 .. Len(m) /\ Used(m) = m[Len(m)].offset + m[Len(m)].size
         /\ m = <<>> => Used(m) = 0
         /\ \A c \in Chunks : Used(Append(m, c)) = c.offset + c.size
<1>1. ASSUME m # <<>>
      PROVE  Len(m) \in 1 .. Len(m) /\ Used(m) = m[Len(m)].offset + m[Len(m)].size
             /\ Used(m) \in Nat
  <2>1. Len(m) \in 1 .. Len(m)
    BY <1>1
  <2>2. m[Len(m)] \in Chunks
    BY <2>1
  <2> QED
    BY <1>1, <2>1, <2>2 DEF Used, Last, Chunks
<1>2. \A c \in Chunks : Used(Append(m, c)) = c.offset + c.size
  BY DEF Used, Last
<1> QED
  BY <1>1, <1>2 DEF Used

LEMMA ChunkIs ==
  ASSUME BucketSize \in Nat, NEW ws \in Seq(Nat \ {0}), NEW c \in Chunks, ChunkOf(ws, c)
  PROVE  /\ PositionOf(ws, At(c)) /\ PositionOf(ws, After(ws, c))
         /\ ~LargeOf(ws, c) => c.from = 0 /\ c.size = ws[c.weight] /\ Ended(ws, c)
         /\ Ended(ws, c) => After(ws, c) = Position(c.weight + 1, 0)
         /\ ws[c.weight] \in Nat /\ c.offset \in Nat /\ c.size \in Nat /\ c.from \in Nat
         /\ c.weight \in Nat
<1>1. /\ ws[c.weight] \in Nat /\ ws[c.weight] > 0 /\ c.offset \in Nat /\ c.size \in Nat
      /\ c.from \in Nat /\ c.weight \in 1 .. Len(ws) /\ Len(ws) \in Nat
  BY DEF ChunkOf, Chunks
<1>2. PositionOf(ws, At(c))
  BY <1>1 DEF ChunkOf, PositionOf, At, Position
<1>3. ~LargeOf(ws, c) => c.from = 0 /\ c.size = ws[c.weight] /\ Ended(ws, c)
  BY <1>1 DEF ChunkOf, LargeOf, Ended
<1>4. PositionOf(ws, After(ws, c))
  <2>1. CASE Ended(ws, c)
    <3>1. After(ws, c) = Position(c.weight + 1, 0) /\ c.weight + 1 \in 1 .. Len(ws) + 1
      BY <1>1, <2>1 DEF After
    <3> QED
      BY <3>1 DEF PositionOf, Position
  <2>2. CASE ~Ended(ws, c)
    <3>1. After(ws, c) = Position(c.weight, c.from + c.size)
      BY <2>2 DEF After
    <3>2. /\ c.size = BucketSize /\ c.from + c.size < ws[c.weight] /\ c.from + c.size \in Nat
          /\ ws[c.weight] > BucketSize /\ c.weight \in 1 .. Len(ws) + 1 /\ c.weight <= Len(ws)
      <4>1. c.size = BucketSize /\ c.from + c.size # ws[c.weight]
            /\ c.from + c.size <= ws[c.weight]
        BY <1>1, <2>2 DEF ChunkOf, Ended
      <4>2. \A f, w \in Nat : f + BucketSize # w /\ f + BucketSize <= w =>
              f + BucketSize < w /\ f + BucketSize \in Nat /\ w > BucketSize
        OBVIOUS
      <4>3. c.from + BucketSize < ws[c.weight] /\ c.from + BucketSize \in Nat
            /\ ws[c.weight] > BucketSize
        BY <1>1, <4>1, <4>2
      <4>4. c.weight \in 1 .. Len(ws) + 1 /\ c.weight <= Len(ws)
        BY <1>1
      <4> QED
        BY <4>1, <4>3, <4>4
    <3> QED
      BY <3>1, <3>2 DEF PositionOf, Position
  <2> QED
    BY <2>1, <2>2
<1> QED
  BY <1>1, <1>2, <1>3, <1>4 DEF After

LEMMA CursorIs ==
  ASSUME BucketSize \in Nat, NEW ws \in Seq(Nat \ {0}), NEW m, BucketOf(ws, m),
         NEW a \in 1 .. Len(m) + 1
  PROVE  /\ PositionOf(ws, Cursor(ws, m, a))
         /\ a <= Len(m) => /\ Cursor(ws, m, a) = At(m[a])
                           /\ Cursor(ws, m, a + 1) = After(ws, m[a])
                           /\ m[a] \in Chunks /\ ChunkOf(ws, m[a])
         /\ Cursor(ws, m, Len(m) + 1) = EndOf(ws, m)
         /\ Cursor(ws, m, 1) = IF m = <<>> THEN First ELSE StartOf(m)
<1>1. /\ m \in Seq(Chunks) /\ Len(m) \in Nat
      /\ \A i \in 1 .. Len(m) : m[i] \in Chunks /\ ChunkOf(ws, m[i])
      /\ \A i, j \in 1 .. Len(m) : i < j =>
           Ended(ws, m[i]) /\ m[j].from = 0 /\ m[j].weight = m[i].weight + (j - i)
  BY DEF BucketOf
<1>2. ASSUME a <= Len(m)
      PROVE  Cursor(ws, m, a + 1) = After(ws, m[a])
  <2>1. CASE a < Len(m)
    <3>1. a \in 1 .. Len(m) /\ a + 1 \in 1 .. Len(m) /\ a < a + 1
      BY <1>1, <2>1
    <3>2. Ended(ws, m[a]) /\ m[a + 1].from = 0 /\ m[a + 1].weight = m[a].weight + 1
      <4>1. m[a].weight \in Nat
        BY <1>1, <3>1 DEF Chunks
      <4>2. /\ Ended(ws, m[a]) /\ m[a + 1].from = 0
            /\ m[a + 1].weight = m[a].weight + ((a + 1) - a)
        BY <1>1, <3>1
      <4>3. (a + 1) - a = 1
        BY <3>1
      <4> QED
        BY <4>2, <4>3
    <3> QED
      BY <1>1, <3>1, <3>2 DEF Cursor, At, After
  <2>2. CASE a = Len(m)
    BY <1>1, <2>2 DEF Cursor, EndOf
  <2> QED
    BY <1>1, <1>2, <2>1, <2>2
<1>3. PositionOf(ws, First)
  BY DEF PositionOf, First, Position
<1>4. PositionOf(ws, EndOf(ws, m))
  <2>1. CASE m = <<>>
    BY <1>3, <2>1 DEF EndOf
  <2>2. CASE m # <<>>
    <3>1. Len(m) \in 1 .. Len(m)
      BY <1>1, <2>2
    <3> QED
      BY <1>1, <2>2, <3>1, ChunkIs DEF EndOf
  <2> QED
    BY <2>1, <2>2
<1>5. PositionOf(ws, Cursor(ws, m, a))
  <2>1. CASE a <= Len(m)
    <3>1. a \in 1 .. Len(m)
      BY <1>1, <2>1
    <3>2. PositionOf(ws, At(m[a]))
      BY <1>1, <3>1, ChunkIs
    <3> QED
      BY <2>1, <3>2 DEF Cursor
  <2>2. CASE ~(a <= Len(m))
    BY <1>4, <2>2 DEF Cursor
  <2> QED
    BY <2>1, <2>2
<1>6. Cursor(ws, m, 1) = IF m = <<>> THEN First ELSE StartOf(m)
  BY <1>1 DEF Cursor, StartOf, EndOf
<1> QED
  BY <1>1, <1>2, <1>5, <1>6 DEF Cursor

LEMMA AppendChunk ==
  ASSUME BucketSize \in Nat, NEW ws \in Seq(Nat \ {0}), NEW m, BucketOf(ws, m),
         NEW c \in Chunks, ChunkOf(ws, c), c.offset = Used(m),
         m # <<>> => At(c) = EndOf(ws, m)
  PROVE  /\ BucketOf(ws, Append(m, c)) /\ EndOf(ws, Append(m, c)) = After(ws, c)
         /\ StartOf(Append(m, c)) = IF m = <<>> THEN At(c) ELSE StartOf(m)
<1>1. /\ m \in Seq(Chunks) /\ Len(m) \in Nat
      /\ \A i \in 1 .. Len(m) : m[i] \in Chunks /\ ChunkOf(ws, m[i])
      /\ \A i, j \in 1 .. Len(m) : i < j =>
           /\ Ended(ws, m[i]) /\ m[j].from = 0 /\ m[j].weight = m[i].weight + (j - i)
           /\ m[i].offset + m[i].size <= m[j].offset
  BY DEF BucketOf
<1>2. PICK n : n = Append(m, c)
  OBVIOUS
<1>3. /\ n \in Seq(Chunks) /\ Len(n) = Len(m) + 1 /\ n[Len(m) + 1] = c
      /\ \A i \in 1 .. Len(m) : n[i] = m[i]
  BY <1>1, <1>2
<1>4. \A i \in 1 .. Len(n) : ChunkOf(ws, n[i])
  BY <1>1, <1>3
<1>5. ASSUME NEW i \in 1 .. Len(m)
      PROVE  /\ Ended(ws, m[i]) /\ c.from = 0 /\ c.weight = m[i].weight + ((Len(m) + 1) - i)
             /\ m[i].offset + m[i].size <= c.offset
  <2>1. PICK l : l = m[Len(m)]
    OBVIOUS
  <2>2. /\ Len(m) \in 1 .. Len(m) /\ m # <<>> /\ l \in Chunks /\ ChunkOf(ws, l)
        /\ m[i] \in Chunks
    BY <1>1, <2>1
  <2>3. /\ l.offset \in Nat /\ l.size \in Nat /\ l.weight \in Nat
        /\ m[i].weight \in Nat /\ m[i].offset \in Nat /\ m[i].size \in Nat
        /\ c.weight \in Nat /\ c.offset \in Nat /\ c.size \in Nat
    BY <2>2 DEF Chunks
  <2>4. Used(m) = l.offset + l.size
    BY <1>1, <2>1, <2>2, UsedIs
  <2>5. Ended(ws, l)
    <3>1. c.offset + c.size <= BucketSize /\ c.size > 0
      BY DEF ChunkOf
    <3>2. l.size # BucketSize
      <4>1. \A x, y, z, b \in Nat : (x + y) + z <= b /\ z > 0 => y # b
        OBVIOUS
      <4> QED
        BY <2>3, <2>4, <3>1, <4>1
    <3> QED
      BY <2>2, <3>2 DEF ChunkOf
  <2>6. c.from = 0 /\ c.weight = l.weight + 1
    BY <2>1, <2>2, <2>5 DEF EndOf, After, At, Position
  <2>7. CASE i = Len(m)
    <3>1. (Len(m) + 1) - i = 1
      BY <1>1, <2>7
    <3> QED
      BY <2>1, <2>3, <2>4, <2>5, <2>6, <2>7, <3>1
  <2>8. CASE i # Len(m)
    <3>1. /\ Ended(ws, m[i]) /\ l.weight = m[i].weight + (Len(m) - i)
          /\ m[i].offset + m[i].size <= l.offset
      BY <1>1, <2>1, <2>2, <2>8
    <3>2. c.weight = m[i].weight + ((Len(m) + 1) - i)
      <4>1. PICK x, y : x = l.weight /\ y = m[i].weight
        OBVIOUS
      <4>2. x \in Nat /\ y \in Nat /\ x = y + (Len(m) - i)
        BY <2>3, <3>1, <4>1
      <4>3. x + 1 = y + ((Len(m) + 1) - i)
        BY <1>1, <4>2
      <4> QED
        BY <2>6, <4>1, <4>3
    <3>3. m[i].offset + m[i].size <= c.offset
      <4>1. PICK x, y, o, z : /\ x = m[i].offset /\ y = m[i].size
                              /\ o = l.offset /\ z = l.size
        OBVIOUS
      <4>2. /\ x \in Nat /\ y \in Nat /\ o \in Nat /\ z \in Nat /\ x + y <= o
            /\ c.offset = o + z
        BY <2>3, <2>4, <3>1, <4>1
      <4>3. x + y <= o + z
        BY <4>2
      <4> QED
        BY <4>1, <4>2, <4>3
    <3> QED
      BY <2>6, <3>1, <3>2, <3>3
  <2> QED
    BY <2>7, <2>8
<1>6. \A i, j \in 1 .. Len(n) : i < j =>
        /\ Ended(ws, n[i]) /\ n[j].from = 0 /\ n[j].weight = n[i].weight + (j - i)
        /\ n[i].offset + n[i].size <= n[j].offset
  <2> SUFFICES ASSUME NEW i \in 1 .. Len(n), NEW j \in 1 .. Len(n), i < j
               PROVE  /\ Ended(ws, n[i]) /\ n[j].from = 0 /\ n[j].weight = n[i].weight + (j - i)
                      /\ n[i].offset + n[i].size <= n[j].offset
    OBVIOUS
  <2>1. i \in 1 .. Len(m) /\ n[i] = m[i]
    BY <1>1, <1>3
  <2>2. CASE j = Len(m) + 1
    BY <1>3, <1>5, <2>1, <2>2
  <2>3. CASE j # Len(m) + 1
    <3>1. j \in 1 .. Len(m) /\ n[j] = m[j]
      BY <1>1, <1>3, <2>3
    <3> QED
      BY <1>1, <2>1, <3>1
  <2> QED
    BY <2>2, <2>3
<1>7. BucketOf(ws, n)
  BY <1>3, <1>4, <1>6 DEF BucketOf
<1>8. n # <<>> /\ n[Len(n)] = c /\ n[1] = (IF m = <<>> THEN c ELSE m[1])
  BY <1>1, <1>3
<1> QED
  BY <1>2, <1>7, <1>8 DEF EndOf, StartOf

-----------------------------------------------------------------------------
(* Bytes, views and copies.                                                 *)
LEMMA OverwriteIs ==
  ASSUME NEW n \in Nat, NEW units \in [1 .. n -> Units], NEW o \in Nat, NEW new \in Seq(Units)
  PROVE  /\ Overwrite(units, o, new) \in [1 .. n -> Units]
         /\ \A i \in 1 .. n : Overwrite(units, o, new)[i] =
              IF o < i /\ i <= o + Len(new) THEN new[i - o] ELSE units[i]
<1>1. DOMAIN units = 1 .. n /\ Len(new) \in Nat
  OBVIOUS
<1>2. ASSUME NEW i \in 1 .. n
      PROVE  (i \in o + 1 .. o + Len(new)) <=> (o < i /\ i <= o + Len(new))
  BY <1>1
<1>3. \A i \in 1 .. n : Overwrite(units, o, new)[i] =
        IF o < i /\ i <= o + Len(new) THEN new[i - o] ELSE units[i]
  BY <1>1, <1>2 DEF Overwrite
<1>4. ASSUME NEW i \in 1 .. n
      PROVE  Overwrite(units, o, new)[i] \in Units
  <2>1. CASE o < i /\ i <= o + Len(new)
    <3>1. i - o \in 1 .. Len(new)
      BY <1>1, <2>1
    <3>2. new[i - o] \in Units
      BY <3>1
    <3> QED
      BY <1>3, <2>1, <3>2
  <2>2. CASE ~(o < i /\ i <= o + Len(new))
    BY <1>3, <2>2
  <2> QED
    BY <2>1, <2>2
<1>5. Overwrite(units, o, new) \in [1 .. n -> Units]
  <2>1. Overwrite(units, o, new) = [i \in 1 .. n |-> Overwrite(units, o, new)[i]]
    BY <1>1 DEF Overwrite
  <2> QED
    BY <1>4, <2>1
<1> QED
  BY <1>3, <1>5

LEMMA BytesIs ==
  ASSUME NEW w \in Nat, NEW f \in Nat, NEW s \in Nat
  PROVE  /\ Bytes(w, f, s) \in Seq(Units) /\ Len(Bytes(w, f, s)) = s
         /\ \A i \in 1 .. s : Bytes(w, f, s)[i] = Byte(w, f + i)
<1>1. \A i \in 1 .. s : Byte(w, f + i) \in Units
  BY DEF Byte, Units
<1>2. Bytes(w, f, s) \in [1 .. s -> Units]
  BY <1>1 DEF Bytes
<1>3. Bytes(w, f, s) \in Seq(Units) /\ Len(Bytes(w, f, s)) = s
  BY <1>2
<1> QED
  BY <1>3 DEF Bytes

LEMMA ViewIs ==
  ASSUME NEW n \in Nat, NEW units \in [1 .. n -> Units], NEW f \in Nat, NEW s \in Nat,
         f + s <= n
  PROVE  /\ SubSeq(units, f + 1, f + s) \in Seq(Units)
         /\ Len(SubSeq(units, f + 1, f + s)) = s
         /\ DOMAIN SubSeq(units, f + 1, f + s) = 1 .. s
         /\ \A i \in 1 .. s : SubSeq(units, f + 1, f + s)[i] = units[f + i]
<1>1. units \in Seq(Units) /\ Len(units) = n
  OBVIOUS
<1>2. SubSeq(units, f + 1, f + s) \in Seq(Units)
  BY <1>1, SubSeqProperties
<1>3. Len(SubSeq(units, f + 1, f + s)) = s
      /\ \A i \in 1 .. s : SubSeq(units, f + 1, f + s)[i] = units[f + i]
  <2>1. PICK a, b : a = f + 1 /\ b = f + s
    OBVIOUS
  <2>2. a \in 1 .. n + 1 /\ b \in a - 1 .. n /\ b - a + 1 = s
    BY <2>1
  <2> QED
    BY <1>1, <2>1, <2>2, SubSeqProperties
<1> QED
  BY <1>2, <1>3

-----------------------------------------------------------------------------
(* What the parts of the invariant say of rank 0 and of a receiver.         *)

(* The chunk that is cut next.                                              *)
NextChunk == [weight |-> split.weight, from |-> split.offset, size |-> NextSize,
              offset |-> Used(meta)]

LEMMA NextIs ==
  ASSUME Typed, RootInv, MoreChunks
  PROVE  /\ NextSize \in Nat /\ NextSize > 0 /\ NextSize <= BucketSize
         /\ split.weight \in 1 .. Len(weights) /\ split.offset \in Nat
         /\ weights[split.weight] \in Nat
         /\ split.offset + NextSize <= weights[split.weight]
         /\ split.offset + NextSize # weights[split.weight] => NextSize = BucketSize
         /\ split.offset > 0 => weights[split.weight] > BucketSize
         /\ NextChunk \in Chunks /\ Used(meta) \in Nat
<1>1. /\ BucketSize \in Nat /\ BucketSize > 0 /\ Len(weights) \in Nat
      /\ \A w \in 1 .. Len(weights) : weights[w] \in Nat /\ weights[w] > 0
  BY Sizes
<1>2. split.weight \in Nat /\ split.offset \in Nat /\ meta \in Seq(Chunks)
  BY DEF Typed
<1>3. PositionOf(weights, split)
  BY DEF RootInv
<1>4. split.weight \in 1 .. Len(weights)
  BY <1>1, <1>2, <1>3 DEF MoreChunks, PositionOf
<1>5. weights[split.weight] \in Nat /\ weights[split.weight] > 0
  BY <1>1, <1>4
<1>6. split.offset > 0 => split.offset < weights[split.weight]
                          /\ weights[split.weight] > BucketSize
  BY <1>3 DEF PositionOf
<1>7. NextSize = IF weights[split.weight] - split.offset < BucketSize
                   THEN weights[split.weight] - split.offset ELSE BucketSize
  BY DEF NextSize, ChunkSize
<1>8. \A w, o \in Nat : w > 0 /\ (o > 0 => o < w) =>
        /\ w - o \in Nat /\ w - o > 0 /\ o + (w - o) = w
        /\ ~(w - o < BucketSize) => o + BucketSize <= w
  BY <1>1
<1>9. /\ weights[split.weight] - split.offset \in Nat
      /\ weights[split.weight] - split.offset > 0
      /\ split.offset + (weights[split.weight] - split.offset) = weights[split.weight]
      /\ ~(weights[split.weight] - split.offset < BucketSize) =>
           split.offset + BucketSize <= weights[split.weight]
  BY <1>2, <1>5, <1>6, <1>8
<1>10. /\ NextSize \in Nat /\ NextSize > 0 /\ NextSize <= BucketSize
       /\ split.offset + NextSize <= weights[split.weight]
       /\ split.offset + NextSize # weights[split.weight] => NextSize = BucketSize
  <2>1. CASE weights[split.weight] - split.offset < BucketSize
    <3>1. NextSize = weights[split.weight] - split.offset
      BY <1>7, <2>1
    <3> QED
      BY <1>1, <1>5, <1>9, <2>1, <3>1
  <2>2. CASE ~(weights[split.weight] - split.offset < BucketSize)
    <3>1. NextSize = BucketSize
      BY <1>7, <2>2
    <3> QED
      BY <1>1, <1>9, <2>2, <3>1
  <2> QED
    BY <2>1, <2>2
<1>11. Used(meta) \in Nat
  BY <1>2, UsedIs
<1>12. NextChunk \in Chunks
  BY <1>2, <1>10, <1>11 DEF NextChunk, Chunks
<1> QED
  BY <1>2, <1>4, <1>5, <1>6, <1>10, <1>11, <1>12

LEMMA PutIs ==
  ASSUME Typed, RootInv, PutChunk
  PROVE  /\ NextChunk \in Chunks /\ ChunkOf(weights, NextChunk)
         /\ At(NextChunk) = split /\ split' = After(weights, NextChunk)
         /\ meta' = Append(meta, NextChunk)
<1>1. MoreChunks /\ ~BucketFull
  BY DEF PutChunk
<1>2. /\ NextSize \in Nat /\ NextSize > 0 /\ NextSize <= BucketSize
      /\ split.weight \in 1 .. Len(weights) /\ split.offset \in Nat
      /\ weights[split.weight] \in Nat
      /\ split.offset + NextSize <= weights[split.weight]
      /\ split.offset + NextSize # weights[split.weight] => NextSize = BucketSize
      /\ split.offset > 0 => weights[split.weight] > BucketSize
      /\ NextChunk \in Chunks /\ Used(meta) \in Nat
  BY <1>1, NextIs
<1>3. /\ NextChunk.weight = split.weight /\ NextChunk.from = split.offset
      /\ NextChunk.size = NextSize /\ NextChunk.offset = Used(meta)
  BY DEF NextChunk
<1>4. Used(meta) + NextSize <= BucketSize
  BY <1>1, <1>2, Sizes DEF BucketFull
<1>5. ChunkOf(weights, NextChunk)
  BY <1>2, <1>3, <1>4 DEF ChunkOf, Ended
<1>6. split \in [weight: Nat, offset: Nat]
  BY DEF Typed
<1>7. At(NextChunk) = split
  BY <1>3, <1>6 DEF At, Position
<1>8. split' = IF split.offset + NextSize < weights[split.weight]
                 THEN [split EXCEPT !.offset = @ + NextSize]
                 ELSE [weight |-> split.weight + 1, offset |-> 0]
  BY DEF PutChunk
<1>9. [split EXCEPT !.offset = @ + NextSize] = Position(split.weight, split.offset + NextSize)
  BY <1>6 DEF Position
<1>10. split' = After(weights, NextChunk)
  <2>1. CASE split.offset + NextSize = weights[split.weight]
    BY <1>2, <1>3, <1>8, <2>1 DEF After, Ended, Position
  <2>2. CASE split.offset + NextSize # weights[split.weight]
    <3>1. split.offset + NextSize < weights[split.weight]
      <4>1. \A x, y \in Nat : x <= y /\ x # y => x < y
        OBVIOUS
      <4>2. split.offset + NextSize \in Nat
        BY <1>2
      <4> QED
        BY <1>2, <2>2, <4>1, <4>2
    <3> QED
      BY <1>3, <1>8, <1>9, <2>2, <3>1 DEF After, Ended
  <2> QED
    BY <2>1, <2>2
<1>11. meta' = Append(meta, NextChunk)
  BY DEF PutChunk, NextChunk
<1> QED
  BY <1>2, <1>5, <1>7, <1>10, <1>11

(* The copy that rank 0 carries out next.                                   *)
Oldest == meta[Written + 1]

LEMMA RootCopyIs ==
  ASSUME Typed, RootInv, RootCopied, Copy(Root)
  PROVE  /\ Written \in Nat /\ Written + 1 \in 1 .. Len(meta)
         /\ Oldest \in Chunks /\ ChunkOf(weights, Oldest)
         /\ buffer' = [buffer EXCEPT ![Root][fill] =
                         Overwrite(@, Oldest.offset,
                                   Bytes(Oldest.weight, Oldest.from, Oldest.size))]
         /\ stream' = [stream EXCEPT ![Root] = Tail(@)] /\ merge' = merge
         /\ stream[Root] \in Seq(Copies) /\ stream[Root] # <<>>
<1>1. stream[Root] \in Seq(Copies) /\ stream[Root] # <<>> /\ meta \in Seq(Chunks)
      /\ fill \in 1 .. 2
  BY DEF Copy, Typed, Nodes
<1>2. /\ Len(stream[Root]) \in Nat /\ Len(stream[Root]) > 0 /\ Len(meta) \in Nat
      /\ Len(stream[Root]) <= Len(meta) /\ 1 \in 1 .. Len(stream[Root])
  BY <1>1 DEF RootCopied
<1>3. Written \in Nat /\ Written + 1 \in 1 .. Len(meta)
  BY <1>2 DEF Written
<1>4. Oldest \in Chunks /\ ChunkOf(weights, Oldest)
  BY <1>1, <1>3 DEF Oldest, RootInv, BucketOf
<1>5. stream[Root][1] = [weight |-> Oldest.weight, from |-> Oldest.from,
                         size |-> Oldest.size, dst |-> fill, to |-> Oldest.offset]
  BY <1>2 DEF RootCopied, Oldest
<1>6. PICK c : c = Head(stream[Root])
  OBVIOUS
<1>7. /\ c.weight = Oldest.weight /\ c.from = Oldest.from /\ c.size = Oldest.size
      /\ c.dst = fill /\ c.to = Oldest.offset /\ c.dst # Merged
  BY <1>1, <1>5, <1>6 DEF Merged
<1>8. Source(Root, c) = Bytes(Oldest.weight, Oldest.from, Oldest.size)
  BY <1>7 DEF Source
<1>9. /\ buffer' = [buffer EXCEPT ![Root][c.dst] = Overwrite(@, c.to, Source(Root, c))]
      /\ merge' = merge
  BY <1>6, <1>7 DEF Copy
<1>10. stream' = [stream EXCEPT ![Root] = Tail(@)]
  BY DEF Copy
<1> QED
  BY <1>1, <1>3, <1>4, <1>7, <1>8, <1>9, <1>10

LEMMA Row ==
  ASSUME Typed, NEW r \in Receivers
  PROVE  /\ r \in Nodes /\ Root \in Nodes /\ r # Root
         /\ op[r] \in Ops /\ bucket[r] \in Buckets /\ turn[r] \in 1 .. 2 /\ at[r] \in Nat
         /\ merge[r] \in Merges /\ ipcMeta[r] \in Seq(Chunks) /\ message[r] \in Messages
         /\ loading[r] \in Seq(Chunks) /\ inbox[r] \in Seq(Buckets)
         /\ loaded[r] \in Seq([weight: Nat, units: Seq(Units)])
         /\ stream[r] \in Seq(Copies) /\ buffer[r] \in [1 .. 3 -> [1 .. BucketSize -> Units]]
         /\ op[r].meta \in Seq(Chunks) /\ bucket[r].meta \in Seq(Chunks)
         /\ op[r].buf \in 1 .. 2 /\ message[r].meta \in Seq(Chunks)
BY TransferConstants DEF Typed, Nodes, Root, Ops, Buckets, Messages

(* The chunk that a receiver is at.                                         *)
LEMMA ChunkAt ==
  ASSUME Typed, LinkInv, PlaceInv, NEW r \in Receivers, at[r] <= Len(bucket[r].meta)
  PROVE  /\ at[r] \in 1 .. Len(bucket[r].meta) /\ Chunk(r) = bucket[r].meta[at[r]]
         /\ Chunk(r) \in Chunks /\ ChunkOf(weights, Chunk(r))
         /\ Cursor(weights, bucket[r].meta, at[r]) = At(Chunk(r))
         /\ Cursor(weights, bucket[r].meta, at[r] + 1) = After(weights, Chunk(r))
<1>1. BucketOf(weights, bucket[r].meta)
  BY DEF LinkInv, Link
<1>2. at[r] \in 1 .. Len(bucket[r].meta) + 1
  BY DEF PlaceInv, Place
<1>3. /\ Cursor(weights, bucket[r].meta, at[r]) = At(bucket[r].meta[at[r]])
      /\ Cursor(weights, bucket[r].meta, at[r] + 1) = After(weights, bucket[r].meta[at[r]])
      /\ bucket[r].meta[at[r]] \in Chunks /\ ChunkOf(weights, bucket[r].meta[at[r]])
  <2>1. BucketSize \in Nat /\ weights \in Seq(Nat \ {0})
    BY Sizes
  <2> QED
    BY <1>1, <1>2, <2>1, CursorIs
<1>4. at[r] \in 1 .. Len(bucket[r].meta)
  BY <1>2, Row
<1> QED
  BY <1>3, <1>4 DEF Chunk

LEMMA ReceiverCopyIs ==
  ASSUME Typed, CopiedInv, NEW r \in Receivers, stream[r] # <<>>
  PROVE  /\ Head(stream[r]) = stream[r][1] /\ stream[r][1] \in ReceiverCopies
         /\ Fetches(buffer[r], turn[r], ipcMeta[r], merge[r], stream[r][1])
         /\ Len(stream[r]) \in Nat /\ 1 \in 1 .. Len(stream[r])
         /\ Source(r, stream[r][1]) \in Seq(Units)
         /\ Len(Source(r, stream[r][1])) = stream[r][1].size
         /\ \A x \in 1 .. stream[r][1].size :
              Source(r, stream[r][1])[x] = buffer[r][turn[r]][stream[r][1].from + x]
<1>1. stream[r] \in Seq(Copies) /\ Len(stream[r]) \in Nat /\ 1 \in 1 .. Len(stream[r])
  BY Row
<1>2. Copied(buffer[r], stream[r], turn[r], ipcMeta[r], merge[r])
  BY DEF CopiedInv
<1>3. PICK c : c = stream[r][1]
  OBVIOUS
<1>4. Fetches(buffer[r], turn[r], ipcMeta[r], merge[r], c)
  BY <1>1, <1>2, <1>3 DEF Copied
<1>5. c \in ReceiverCopies /\ c.src = turn[r] /\ c.from + c.size <= BucketSize
  BY <1>4 DEF Fetches
<1>6. c.from \in Nat /\ c.size \in Nat /\ c.src \in 1 .. 2 /\ c.src \in 1 .. 3
  BY <1>5 DEF ReceiverCopies
<1>7. Source(r, c) = SubSeq(buffer[r][c.src], c.from + 1, c.from + c.size)
  BY Row DEF Source
<1>8. buffer[r][c.src] \in [1 .. BucketSize -> Units] /\ BucketSize \in Nat
  BY <1>6, Row, Sizes
<1>9. /\ Source(r, c) \in Seq(Units) /\ Len(Source(r, c)) = c.size
      /\ \A x \in 1 .. c.size : Source(r, c)[x] = buffer[r][c.src][c.from + x]
  <2>1. PICK u : u = buffer[r][c.src]
    OBVIOUS
  <2>2. PICK f, s : f = c.from /\ s = c.size
    OBVIOUS
  <2>3. u \in [1 .. BucketSize -> Units] /\ f \in Nat /\ s \in Nat /\ f + s <= BucketSize
    BY <1>5, <1>6, <1>8, <2>1, <2>2
  <2>4. /\ SubSeq(u, f + 1, f + s) \in Seq(Units) /\ Len(SubSeq(u, f + 1, f + s)) = s
        /\ \A x \in 1 .. s : SubSeq(u, f + 1, f + s)[x] = u[f + x]
    BY <1>8, <2>3, ViewIs
  <2> QED
    BY <1>7, <2>1, <2>2, <2>4
<1> QED
  BY <1>1, <1>3, <1>4, <1>5, <1>9

(* A copy of receiver r, into the weight being merged or the IPC buffer.    *)
LEMMA CopyIs ==
  ASSUME Typed, CopiedInv, NEW r \in Receivers, Copy(r)
  PROVE  LET c == stream[r][1]
             new == Source(r, c)
         IN /\ stream[r] # <<>> /\ c.dst \in {Merged, Ipc}
            /\ stream' = [stream EXCEPT ![r] = Tail(@)]
            /\ c.dst = Merged =>
                 /\ merge' = [merge EXCEPT ![r].units = Overwrite(@, c.to, new)]
                 /\ buffer' = buffer
            /\ c.dst = Ipc =>
                 /\ buffer' = [buffer EXCEPT ![r][Ipc] = Overwrite(@, c.to, new)]
                 /\ merge' = merge
<1>1. stream[r] # <<>>
  BY DEF Copy
<1>2. Head(stream[r]) = stream[r][1] /\ stream[r][1] \in ReceiverCopies
  BY <1>1, ReceiverCopyIs
<1>3. stream[r][1].dst \in {Merged, Ipc}
  BY <1>2 DEF ReceiverCopies
<1>4. stream' = [stream EXCEPT ![r] = Tail(@)]
  BY DEF Copy
<1>5. PICK c : c = Head(stream[r])
  OBVIOUS
<1>6. IF c.dst = Merged
        THEN /\ merge' = [merge EXCEPT ![r].units = Overwrite(@, c.to, Source(r, c))]
             /\ UNCHANGED buffer
        ELSE /\ buffer' = [buffer EXCEPT ![r][c.dst] = Overwrite(@, c.to, Source(r, c))]
             /\ UNCHANGED merge
  BY <1>5 DEF Copy
<1>7. Ipc # Merged
  BY DEF Ipc, Merged
<1> QED
  BY <1>1, <1>2, <1>3, <1>4, <1>5, <1>6, <1>7

-----------------------------------------------------------------------------
(* Rank 0.                                                                  *)
LEMMA OtherIs ==
  ASSUME NEW b \in 1 .. 2
  PROVE  Other(b) \in 1 .. 2 /\ Other(b) # b /\ Other(Other(b)) = b
<1>1. b = 1 \/ b = 2
  OBVIOUS
<1> QED
  BY <1>1 DEF Other

LEMMA NoBucketIs ==
  ASSUME NEW ws
  PROVE  BucketOf(ws, <<>>) /\ EndOf(ws, <<>>) = First /\ StartOf(<<>>) = First
BY DEF BucketOf, EndOf, StartOf

LEMMA RootPut ==
  ASSUME Typed, RootInv, PutChunk
  PROVE  RootInv'
<1>1. /\ NextChunk \in Chunks /\ ChunkOf(weights, NextChunk)
      /\ At(NextChunk) = split /\ split' = After(weights, NextChunk)
      /\ meta' = Append(meta, NextChunk) /\ NextChunk.offset = Used(meta)
  BY PutIs DEF NextChunk
<1>2. /\ UNCHANGED <<weights, rootOp, got, root, fill>> /\ root = "fill"
  BY DEF PutChunk
<1>3. BucketSize \in Nat /\ weights \in Seq(Nat \ {0}) /\ meta \in Seq(Chunks)
  BY Sizes DEF Typed
<1>4. BucketOf(weights, meta) /\ (meta # <<>> => At(NextChunk) = EndOf(weights, meta))
  BY <1>1 DEF RootInv
<1>5. /\ BucketOf(weights, meta') /\ EndOf(weights, meta') = After(weights, NextChunk)
      /\ StartOf(meta') = IF meta = <<>> THEN At(NextChunk) ELSE StartOf(meta)
  BY <1>1, <1>3, <1>4, AppendChunk
<1>6. meta' # <<>>
  BY <1>1, <1>3
<1>7. PositionOf(weights, split')
  BY <1>1, <1>3, ChunkIs
<1>8. StartOf(meta') = EndOf(weights, rootOp.meta)
  BY <1>1, <1>5 DEF RootInv
<1> QED
  BY <1>1, <1>2, <1>5, <1>6, <1>7, <1>8 DEF RootInv

LEMMA RootStart ==
  ASSUME Typed, RootInv, StartBroadcast
  PROVE  RootInv' /\ split = EndOf(weights, meta) /\ StartOf(meta) = EndOf(weights, rootOp.meta)
<1>1. /\ root = "fill" /\ (MoreChunks => BucketFull) /\ UNCHANGED <<weights, split>>
      /\ rootOp' = [state |-> "meta", buf |-> fill, meta |-> meta, last |-> ~MoreChunks]
      /\ fill' = Other(fill) /\ meta' = <<>> /\ got' = {}
      /\ root' = IF MoreChunks THEN "fill" ELSE "last"
  BY DEF StartBroadcast
<1>2. fill \in 1 .. 2
  BY DEF Typed
<1>3. meta = <<>> => rootOp.meta = <<>>
  <2>1. ASSUME meta = <<>>, MoreChunks
        PROVE  FALSE
    <3>1. Used(meta) = 0
      BY <2>1 DEF Used
    <3>2. NextSize \in Nat /\ NextSize <= BucketSize /\ BucketSize \in Nat
      BY <2>1, NextIs, Sizes
    <3> QED
      BY <1>1, <2>1, <3>1, <3>2 DEF BucketFull
  <2> QED
    BY <1>1, <2>1 DEF RootInv
<1>4. split = EndOf(weights, meta) /\ StartOf(meta) = EndOf(weights, rootOp.meta)
  BY <1>3, NoBucketIs DEF RootInv
<1>5. /\ rootOp'.state = "meta" /\ rootOp'.buf = fill /\ rootOp'.meta = meta
  BY <1>1
<1>6. Other(fill') = fill
  BY <1>1, <1>2, OtherIs
<1>7. MoreChunks' <=> MoreChunks
  BY <1>1 DEF MoreChunks
<1> QED
  BY <1>1, <1>4, <1>5, <1>6, <1>7, NoBucketIs DEF RootInv

LEMMA RootPublish ==
  ASSUME Typed, RootInv, Publish
  PROVE  /\ RootInv' /\ rootOp'.state = "cast" /\ rootOp'.meta = rootOp.meta
         /\ rootOp'.buf = rootOp.buf /\ rootOp'.last = rootOp.last /\ rootOp.state = "meta"
<1>1. /\ rootOp.state = "meta" /\ rootOp' = [rootOp EXCEPT !.state = "cast"]
      /\ UNCHANGED <<weights, split, fill, meta, got, root>>
  BY DEF Publish
<1>2. /\ rootOp'.state = "cast" /\ rootOp'.meta = rootOp.meta /\ rootOp'.buf = rootOp.buf
      /\ rootOp'.last = rootOp.last
  BY <1>1 DEF Typed, Ops
<1>3. MoreChunks' <=> MoreChunks
  BY <1>1 DEF MoreChunks
<1> QED
  BY <1>1, <1>2, <1>3 DEF RootInv

LEMMA RootKept ==
  ASSUME RootInv, UNCHANGED <<weights, split, fill, meta, rootOp, root>>,
         rootOp.state # "cast" => got' = got
  PROVE  RootInv'
<1>1. MoreChunks' <=> MoreChunks
  BY DEF MoreChunks
<1> QED
  BY <1>1 DEF RootInv

(* The copy enqueued for a chunk.                                           *)
CopyOf(c, f) ==
  [weight |-> c.weight, from |-> c.from, size |-> c.size, dst |-> f, to |-> c.offset]

LEMMA CopiedPut ==
  ASSUME Typed, RootInv, RootCopied, PutChunk
  PROVE  RootCopied'
<1>1. /\ NextChunk \in Chunks /\ meta' = Append(meta, NextChunk)
  BY PutIs
<1>2. /\ UNCHANGED <<fill, rootOp, buffer>>
      /\ stream' = [stream EXCEPT ![Root] = Append(@, CopyOf(NextChunk, fill))]
  BY DEF PutChunk, CopyOf, NextChunk
<1>3. PICK s : s = stream[Root]
  OBVIOUS
<1>4. /\ stream \in [Nodes -> Seq(Copies)] /\ Root \in Nodes /\ meta \in Seq(Chunks)
      /\ s \in Seq(Copies)
  BY <1>3 DEF Typed, Nodes
<1>5. CopyOf(NextChunk, fill) \in Copies
  BY <1>1 DEF CopyOf, Chunks, Copies, RootCopies, Typed
<1>6. stream'[Root] = Append(s, CopyOf(NextChunk, fill))
  BY <1>2, <1>3, <1>4
<1>7. PICK t, n : t = stream'[Root] /\ n = meta'
  OBVIOUS
<1>8. /\ Len(t) = Len(s) + 1 /\ t[Len(s) + 1] = CopyOf(NextChunk, fill)
      /\ \A j \in 1 .. Len(s) : t[j] = s[j]
      /\ Len(n) = Len(meta) + 1 /\ n[Len(meta) + 1] = NextChunk
      /\ \A i \in 1 .. Len(meta) : n[i] = meta[i]
      /\ Len(s) \in Nat /\ Len(meta) \in Nat
  BY <1>1, <1>4, <1>5, <1>6, <1>7
<1>9. Len(s) <= Len(meta) /\ \A j \in 1 .. Len(s) : s[j] = CopyOf(meta[Written + j], fill)
  BY <1>3 DEF RootCopied, CopyOf
<1>10. Written = Len(meta) - Len(s) /\ Written' = Len(n) - Len(t)
  BY <1>3, <1>7 DEF Written
<1>11. Written' = Written /\ Written \in Nat /\ Written <= Len(meta)
  BY <1>8, <1>9, <1>10
<1>12. ASSUME NEW j \in 1 .. Len(t)
       PROVE  t[j] = CopyOf(n[Written + j], fill)
  <2>1. CASE j = Len(s) + 1
    <3>1. Written + j = Len(meta) + 1
      BY <1>8, <1>10, <2>1
    <3> QED
      BY <1>8, <2>1, <3>1
  <2>2. CASE j # Len(s) + 1
    <3>1. j \in 1 .. Len(s) /\ Written + j \in 1 .. Len(meta)
      BY <1>8, <1>9, <1>10, <2>2
    <3> QED
      BY <1>8, <1>9, <3>1
  <2> QED
    BY <2>1, <2>2
<1>13. Holds(buffer[Root][fill], n, Written)
  <2>1. Holds(buffer[Root][fill], meta, Written)
    BY DEF RootCopied
  <2>2. \A i \in 1 .. Written : n[i] = meta[i]
    BY <1>8, <1>11
  <2> QED
    BY <2>1, <2>2 DEF Holds
<1>14. Holds(buffer[Root][rootOp.buf], rootOp.meta, Len(rootOp.meta))
  BY DEF RootCopied
<1>15. Len(t) <= Len(n)
  BY <1>8, <1>9
<1> QED
  BY <1>2, <1>7, <1>11, <1>12, <1>13, <1>14, <1>15 DEF RootCopied, CopyOf

LEMMA CopiedStart ==
  ASSUME Typed, RootInv, RootCopied, StartBroadcast
  PROVE  RootCopied'
<1>1. /\ stream[Root] = <<>> /\ UNCHANGED <<stream, buffer>>
      /\ rootOp' = [state |-> "meta", buf |-> fill, meta |-> meta, last |-> ~MoreChunks]
      /\ meta' = <<>>
  BY DEF StartBroadcast, Synchronized, device
<1>2. rootOp'.buf = fill /\ rootOp'.meta = meta
  BY <1>1
<1>3. Written = Len(meta) /\ Written' = 0
  BY <1>1 DEF Written, Typed
<1>4. Holds(buffer[Root][fill], meta, Len(meta))
  BY <1>3 DEF RootCopied
<1>5. Holds(buffer'[Root][fill'], meta', Written')
  BY <1>3 DEF Holds
<1>6. /\ Len(stream'[Root]) = 0 /\ Len(meta') = 0
  BY <1>1
<1>7. Holds(buffer'[Root][rootOp'.buf], rootOp'.meta, Len(rootOp'.meta))
  BY <1>1, <1>2, <1>4
<1> QED
  BY <1>5, <1>6, <1>7 DEF RootCopied

LEMMA CopiedRoot ==
  ASSUME Typed, RootInv, RootCopied, Copy(Root)
  PROVE  RootCopied'
<1>1. /\ Written \in Nat /\ Written + 1 \in 1 .. Len(meta)
      /\ Oldest \in Chunks /\ ChunkOf(weights, Oldest)
      /\ buffer' = [buffer EXCEPT ![Root][fill] =
                      Overwrite(@, Oldest.offset,
                                Bytes(Oldest.weight, Oldest.from, Oldest.size))]
      /\ stream' = [stream EXCEPT ![Root] = Tail(@)]
      /\ stream[Root] \in Seq(Copies) /\ stream[Root] # <<>>
  BY RootCopyIs
<1>2. UNCHANGED <<fill, meta, rootOp>>
  BY DEF Copy, rootVars
<1>3. PICK s, t : s = stream[Root] /\ t = stream'[Root]
  OBVIOUS
<1>4. /\ stream \in [Nodes -> Seq(Copies)] /\ Root \in Nodes /\ meta \in Seq(Chunks)
      /\ buffer \in [Nodes -> [1 .. 3 -> [1 .. BucketSize -> Units]]]
      /\ fill \in 1 .. 2 /\ fill \in 1 .. 3 /\ rootOp.buf \in 1 .. 2
  BY DEF Typed, Nodes, Ops
<1>5. t = Tail(s)
  BY <1>1, <1>3, <1>4
<1>6. /\ Len(t) = Len(s) - 1 /\ Len(t) \in Nat /\ Len(s) \in Nat /\ Len(meta) \in Nat
      /\ \A j \in 1 .. Len(t) : t[j] = s[j + 1]
  BY <1>1, <1>3, <1>4, <1>5, HeadTailProperties
<1>7. Len(s) <= Len(meta) /\ \A j \in 1 .. Len(s) : s[j] = CopyOf(meta[Written + j], fill)
  BY <1>3 DEF RootCopied, CopyOf
<1>8. Written = Len(meta) - Len(s) /\ Written' = Len(meta) - Len(t)
  BY <1>2, <1>3 DEF Written
<1>9. Written' = Written + 1
  BY <1>6, <1>8
<1>10. ASSUME NEW j \in 1 .. Len(t)
       PROVE  t[j] = CopyOf(meta[Written' + j], fill)
  <2>1. j + 1 \in 1 .. Len(s) /\ t[j] = s[j + 1]
    BY <1>6
  <2>2. \A x, y \in Nat : (x + 1) + y = x + (y + 1)
    OBVIOUS
  <2>3. Written' + j = Written + (j + 1)
    BY <1>1, <1>9, <2>2
  <2> QED
    BY <1>7, <2>1, <2>3
<1>11. PICK u : u = buffer[Root][fill]
  OBVIOUS
<1>12. PICK new : new = Bytes(Oldest.weight, Oldest.from, Oldest.size)
  OBVIOUS
<1>13. PICK o : o = Oldest.offset
  OBVIOUS
<1>14. PICK v : v = Overwrite(u, o, new)
  OBVIOUS
<1>15. /\ buffer'[Root][fill] = v
       /\ \A b \in 1 .. 3 : b # fill => buffer'[Root][b] = buffer[Root][b]
  BY <1>1, <1>4, <1>11, <1>12, <1>13, <1>14
<1>16. /\ Oldest.offset \in Nat /\ Oldest.weight \in Nat /\ Oldest.from \in Nat
       /\ Oldest.size \in Nat /\ o + Oldest.size <= BucketSize /\ BucketSize \in Nat
  BY <1>1, <1>13, Sizes DEF Chunks, ChunkOf
<1>17. /\ new \in Seq(Units) /\ Len(new) = Oldest.size
       /\ \A i \in 1 .. Oldest.size : new[i] = Byte(Oldest.weight, Oldest.from + i)
  <2>1. PICK w, f, z : w = Oldest.weight /\ f = Oldest.from /\ z = Oldest.size
    OBVIOUS
  <2>2. w \in Nat /\ f \in Nat /\ z \in Nat
    BY <1>16, <2>1
  <2>3. /\ Bytes(w, f, z) \in Seq(Units) /\ Len(Bytes(w, f, z)) = z
        /\ \A i \in 1 .. z : Bytes(w, f, z)[i] = Byte(w, f + i)
    BY <2>2, BytesIs
  <2> QED
    BY <1>12, <2>1, <2>3
<1>18. u \in [1 .. BucketSize -> Units]
  BY <1>4, <1>11
<1>19. \A i \in 1 .. BucketSize :
         v[i] = IF o < i /\ i <= o + Oldest.size THEN new[i - o] ELSE u[i]
  <2>1. PICK k, n : k = Oldest.size /\ n = BucketSize
    OBVIOUS
  <2>2. /\ n \in Nat /\ u \in [1 .. n -> Units] /\ o \in Nat /\ new \in Seq(Units)
        /\ Len(new) = k
    BY <1>13, <1>16, <1>17, <1>18, <2>1
  <2>3. \A i \in 1 .. n : v[i] = IF o < i /\ i <= o + Len(new) THEN new[i - o] ELSE u[i]
    BY <1>14, <2>2, OverwriteIs
  <2> QED
    BY <2>1, <2>2, <2>3
<1>20. Holds(v, meta, Written + 1)
  <2> SUFFICES ASSUME NEW i \in 1 .. Written + 1, NEW k \in 1 .. meta[i].size
               PROVE  v[meta[i].offset + k] = Byte(meta[i].weight, meta[i].from + k)
    BY DEF Holds
  <2>1. i \in 1 .. Len(meta) /\ meta[i] \in Chunks /\ ChunkOf(weights, meta[i])
    BY <1>1, <1>4, <1>6 DEF RootInv, BucketOf
  <2>2. /\ meta[i].offset \in Nat /\ meta[i].size \in Nat
        /\ meta[i].offset + meta[i].size <= BucketSize
    BY <2>1 DEF Chunks, ChunkOf
  <2>3. /\ meta[i].offset + k \in 1 .. BucketSize
        /\ meta[i].offset + k <= meta[i].offset + meta[i].size
    BY <1>16, <2>2
  <2>4. CASE i = Written + 1
    <3>1. meta[i] = Oldest
      BY <2>4 DEF Oldest
    <3>2. /\ o < o + k /\ o + k <= o + Oldest.size /\ (o + k) - o = k
          /\ k \in 1 .. Oldest.size /\ meta[i].offset = o
      BY <1>13, <1>16, <3>1
    <3>3. v[o + k] = new[(o + k) - o]
      BY <1>19, <2>3, <3>2
    <3> QED
      BY <1>17, <3>1, <3>2, <3>3
  <2>5. CASE i # Written + 1
    <3>1. i \in 1 .. Written /\ i < Written + 1
      BY <1>1, <2>5
    <3>2. meta[i].offset + meta[i].size <= Oldest.offset
      BY <1>1, <2>1, <3>1 DEF RootInv, BucketOf, Oldest
    <3>3. ~(o < meta[i].offset + k)
      BY <1>13, <1>16, <2>2, <2>3, <3>2
    <3>4. v[meta[i].offset + k] = u[meta[i].offset + k]
      BY <1>19, <2>3, <3>3
    <3> QED
      BY <1>11, <3>1, <3>4 DEF RootCopied, Holds
  <2> QED
    BY <2>4, <2>5
<1>21. Holds(buffer'[Root][rootOp.buf], rootOp.meta, Len(rootOp.meta))
  <2>1. CASE rootOp.state = "none"
    <3>1. rootOp.meta = <<>>
      BY <2>1 DEF RootInv
    <3>2. Len(rootOp.meta) = 0
      BY <3>1
    <3> QED
      BY <3>2 DEF Holds
  <2>2. CASE rootOp.state # "none"
    <3>1. rootOp.buf # fill
      BY <1>4, <2>2, OtherIs DEF RootInv
    <3>2. buffer'[Root][rootOp.buf] = buffer[Root][rootOp.buf]
      BY <1>4, <1>15, <3>1
    <3> QED
      BY <3>2 DEF RootCopied
  <2> QED
    BY <2>1, <2>2
<1>22. Len(t) <= Len(meta)
  BY <1>6, <1>7
<1>23. Holds(buffer'[Root][fill], meta, Written')
  BY <1>9, <1>15, <1>20
<1> QED
  BY <1>2, <1>3, <1>10, <1>21, <1>22, <1>23 DEF RootCopied, CopyOf

LEMMA CopiedKept ==
  ASSUME RootCopied, UNCHANGED <<fill, meta>>, stream'[Root] = stream[Root],
         buffer'[Root] = buffer[Root], rootOp'.buf = rootOp.buf, rootOp'.meta = rootOp.meta
  PROVE  RootCopied'
<1>1. Written' = Written
  BY DEF Written
<1> QED
  BY <1>1 DEF RootCopied

-----------------------------------------------------------------------------
(* A step of one receiver, of its device or of its worker leaves rank 0 and *)
(* the other receivers as they are.                                         *)
Move(r) ==
  \/ Join(r) \/ TakeMeta(r) \/ Deliver(r) \/ Copy(r)
  \/ ReceiverStep(r) \/ WorkerStep(r) \/ LoadRaises(r)

Same(q) ==
  /\ op'[q] = op[q] /\ bucket'[q] = bucket[q] /\ turn'[q] = turn[q] /\ at'[q] = at[q]
  /\ merge'[q] = merge[q] /\ ipcMeta'[q] = ipcMeta[q] /\ message'[q] = message[q]
  /\ worker'[q] = worker[q] /\ loading'[q] = loading[q] /\ loaded'[q] = loaded[q]
  /\ pc'[q] = pc[q] /\ inbox'[q] = inbox[q] /\ stream'[q] = stream[q]
  /\ buffer'[q] = buffer[q] /\ (q \in got' <=> q \in got)

LEMMA OthersKeep ==
  ASSUME Typed, NEW r \in Receivers, NEW q \in Receivers, q # r, Move(r)
  PROVE  Same(q)
<1>1. /\ q \in Nodes /\ r \in Nodes
      /\ op \in [Receivers -> Ops] /\ bucket \in [Receivers -> Buckets]
      /\ turn \in [Receivers -> 1 .. 2] /\ at \in [Receivers -> Nat]
      /\ merge \in [Receivers -> Merges] /\ ipcMeta \in [Receivers -> Seq(Chunks)]
      /\ message \in [Receivers -> Messages]
      /\ worker \in [Receivers -> {"waiting", "loading", "closed", "done"}]
      /\ loading \in [Receivers -> Seq(Chunks)]
      /\ loaded \in [Receivers -> Seq([weight: Nat, units: Seq(Units)])]
      /\ pc \in [Receivers -> {"handle", "first", "await", "yield", "pack", "flushed",
                               "large", "flush", "last", "done"}]
      /\ inbox \in [Receivers -> Seq(Buckets)]
      /\ stream \in [Nodes -> Seq(Copies)]
      /\ buffer \in [Nodes -> [1 .. 3 -> [1 .. BucketSize -> Units]]]
  BY DEF Typed, Nodes
<1>2. CASE Join(r)
  BY <1>2 DEF Join, Same, rootVars, device, receiver, workers
<1>3. CASE TakeMeta(r)
  BY <1>1, <1>3 DEF TakeMeta, Same, rootVars, device, workers
<1>4. CASE Deliver(r)
  BY <1>1, <1>4 DEF Deliver, Same, topic, workers
<1>5. CASE Copy(r)
  BY <1>1, <1>5 DEF Copy, Same, rootVars, topic, workers
<1>6. CASE ReceiverStep(r)
  <2>1. CASE SendHandle(r)
    BY <1>1, <2>1 DEF SendHandle, Send, Goto, Same, rootVars, topic, device, workers
  <2>2. CASE ReceiveFirst(r)
    BY <1>1, <2>2 DEF ReceiveFirst, StartReceive, Goto, Same, rootVars, topic, device, workers
  <2>3. CASE NextBucket(r)
    BY <1>1, <2>3 DEF NextBucket, StartReceive, Goto, Same, rootVars, topic, device, workers
  <2>4. CASE MergeChunk(r)
    <3>1. merge'[q] = merge[q]
      BY <1>1, <2>4 DEF MergeChunk
    <3>2. stream'[q] = stream[q]
      BY <1>1, <2>4 DEF MergeChunk
    <3>3. at'[q] = at[q] /\ pc'[q] = pc[q]
      BY <1>1, <2>4 DEF MergeChunk, Goto
    <3>4. UNCHANGED <<op, bucket, turn, ipcMeta, message, worker, loading, loaded, inbox,
                      buffer, got>>
      BY <2>4 DEF MergeChunk, rootVars, topic, workers
    <3> QED
      BY <3>1, <3>2, <3>3, <3>4 DEF Same
  <2>5. CASE YieldView(r)
    BY <1>1, <2>5 DEF YieldView, Goto, Same, rootVars, topic, device, workers
  <2>6. CASE BucketYielded(r)
    BY <1>1, <2>6 DEF BucketYielded, Goto, Same, rootVars, topic, device, workers
  <2>7. CASE FlushIpc(r)
    BY <1>1, <2>7 DEF FlushIpc, Send, Goto, Same, rootVars, topic, device, workers
  <2>8. CASE Flushed(r)
    BY <1>1, <2>8 DEF Flushed, Goto, Same, rootVars, topic, device, workers
  <2>9. CASE PackWeight(r)
    BY <1>1, <2>9 DEF PackWeight, Goto, Same, rootVars, topic, workers
  <2>10. CASE SendLarge(r)
    BY <1>1, <2>10 DEF SendLarge, Send, Goto, Same, rootVars, topic, device, workers
  <2>11. CASE LargeSent(r)
    BY <1>1, <2>11 DEF LargeSent, Goto, Same, rootVars, topic, device, workers
  <2>12. CASE FlushLast(r)
    BY <1>1, <2>12 DEF FlushLast, Send, Goto, Same, rootVars, topic, device, workers
  <2>13. CASE LastSent(r)
    BY <1>1, <2>13 DEF LastSent, Goto, Same, rootVars, topic, device, workers
  <2> QED
    BY <1>6, <2>1, <2>2, <2>3, <2>4, <2>5, <2>6, <2>7, <2>8, <2>9, <2>10, <2>11, <2>12,
       <2>13 DEF ReceiverStep
<1>7. CASE WorkerStep(r)
  <2>1. CASE MapBuffer(r)
    BY <1>1, <2>1 DEF MapBuffer, Send, Same, rootVars, topic, device, receiver, workers
  <2>2. CASE LoadBucket(r)
    BY <1>1, <2>2 DEF LoadBucket, Same, rootVars, topic, device, receiver
  <2>3. CASE LoadWeight(r)
    BY <1>1, <2>3 DEF LoadWeight, Same, rootVars, topic, device, receiver
  <2>4. CASE Acknowledge(r)
    BY <1>1, <2>4 DEF Acknowledge, Send, Same, rootVars, topic, device, receiver
  <2> QED
    BY <1>7, <2>1, <2>2, <2>3, <2>4 DEF WorkerStep
<1>8. CASE LoadRaises(r)
  BY <1>1, <1>8 DEF LoadRaises, Same, rootVars, topic, device, receiver
<1> QED
  BY <1>2, <1>3, <1>4, <1>5, <1>6, <1>7, <1>8 DEF Move

LEMMA RootKeeps ==
  ASSUME Typed, NEW r \in Receivers, Move(r)
  PROVE  /\ UNCHANGED <<weights, split, fill, meta, rootOp, root>>
         /\ stream'[Root] = stream[Root] /\ buffer'[Root] = buffer[Root]
         /\ rootOp.state # "cast" => got' = got
<1>1. /\ Root \in Nodes /\ r \in Nodes /\ r # Root
      /\ stream \in [Nodes -> Seq(Copies)]
      /\ buffer \in [Nodes -> [1 .. 3 -> [1 .. BucketSize -> Units]]]
  BY Row DEF Typed, Nodes
<1>2. CASE Join(r)
  BY <1>2 DEF Join, rootVars, device
<1>3. CASE TakeMeta(r)
  BY <1>3 DEF TakeMeta, rootVars, device
<1>4. CASE Deliver(r)
  BY <1>1, <1>4 DEF Deliver
<1>5. CASE Copy(r)
  BY <1>1, <1>5 DEF Copy, rootVars
<1>6. CASE ReceiverStep(r)
  BY <1>1, <1>6 DEF ReceiverStep, SendHandle, ReceiveFirst, NextBucket, MergeChunk, YieldView,
     BucketYielded, FlushIpc, Flushed, PackWeight, SendLarge, LargeSent, FlushLast, LastSent,
     rootVars, device
<1>7. CASE WorkerStep(r)
  BY <1>7 DEF WorkerStep, MapBuffer, LoadBucket, LoadWeight, Acknowledge, rootVars, device
<1>8. CASE LoadRaises(r)
  BY <1>8 DEF LoadRaises, rootVars, device
<1> QED
  BY <1>2, <1>3, <1>4, <1>5, <1>6, <1>7, <1>8 DEF Move

LEMMA RootPartStep ==
  ASSUME Typed, RootInv, RootCopied, [Next]_vars
  PROVE  RootInv' /\ RootCopied'
<1>1. CASE PutChunk
  BY <1>1, RootPut, CopiedPut
<1>2. CASE StartBroadcast
  BY <1>2, RootStart, CopiedStart
<1>3. CASE Publish
  <2>1. RootInv' /\ rootOp'.buf = rootOp.buf /\ rootOp'.meta = rootOp.meta
    BY <1>3, RootPublish
  <2>2. UNCHANGED <<fill, meta, stream, buffer>>
    BY <1>3 DEF Publish, device
  <2> QED
    BY <2>1, <2>2, CopiedKept
<1>4. CASE Copy(Root)
  <2>1. UNCHANGED <<weights, split, fill, meta, rootOp, root, got>>
    BY <1>4 DEF Copy, rootVars
  <2> QED
    BY <1>4, <2>1, CopiedRoot, RootKept
<1>5. ASSUME NEW r \in Receivers, Move(r)
      PROVE  RootInv' /\ RootCopied'
  <2>1. /\ UNCHANGED <<weights, split, fill, meta, rootOp, root>>
        /\ stream'[Root] = stream[Root] /\ buffer'[Root] = buffer[Root]
        /\ rootOp.state # "cast" => got' = got
    BY <1>5, RootKeeps
  <2> QED
    BY <2>1, RootKept, CopiedKept
<1>6. CASE UNCHANGED vars
  <2>1. UNCHANGED <<weights, split, fill, meta, rootOp, root, got, stream, buffer>>
    BY <1>6 DEF vars, rootVars, device
  <2> QED
    BY <2>1, RootKept, CopiedKept
<1> QED
  BY <1>1, <1>2, <1>3, <1>4, <1>5, <1>6 DEF Next, RootStep, Move

-----------------------------------------------------------------------------
(* Receivers and the broadcast.                                             *)
(* A receiver that starts to receive.                                       *)
Started(b) == [NoOp EXCEPT !.state = "meta", !.buf = b]

LEMMA NoOpIs ==
  /\ NoOp \in Ops /\ NoOp.state = "none" /\ NoOp.meta = <<>>
  /\ \A b \in 1 .. 2 :
       /\ Started(b) \in Ops /\ Started(b).state = "meta" /\ Started(b).buf = b
       /\ Started(b).meta = <<>>
<1>1. NoOp \in Ops /\ NoOp.state = "none" /\ NoOp.meta = <<>>
  BY DEF NoOp, Ops
<1>2. ASSUME NEW b \in 1 .. 2
      PROVE  /\ Started(b) \in Ops /\ Started(b).state = "meta" /\ Started(b).buf = b
             /\ Started(b).meta = <<>>
  <2>1. PICK n : n = NoOp
    OBVIOUS
  <2>2. n \in Ops /\ n.meta = <<>>
    BY <1>1, <2>1
  <2>3. PICK k : k = [n EXCEPT !.state = "meta"]
    OBVIOUS
  <2>4. k \in Ops /\ k.state = "meta" /\ k.meta = <<>>
    BY <2>2, <2>3 DEF Ops
  <2>5. Started(b) = [k EXCEPT !.buf = b]
    BY <2>1, <2>3 DEF Started
  <2>6. [k EXCEPT !.buf = b] \in Ops
    BY <2>4 DEF Ops
  <2>7. [k EXCEPT !.buf = b].buf = b /\ [k EXCEPT !.buf = b].state = "meta"
        /\ [k EXCEPT !.buf = b].meta = <<>>
    BY <2>4 DEF Ops
  <2> QED
    BY <2>5, <2>6, <2>7
<1> QED
  BY <1>1, <1>2

LEMMA LinkStart ==
  ASSUME Typed, RootInv, LinkInv, StartBroadcast
  PROVE  LinkInv'
<1>1. /\ UNCHANGED <<weights, inbox, op, bucket>> /\ got = Receivers /\ got' = {}
      /\ rootOp'.state = "meta" /\ rootOp'.meta = meta
  BY DEF StartBroadcast, topic, receiver
<1>2. StartOf(meta) = EndOf(weights, rootOp.meta)
  BY RootStart
<1> SUFFICES ASSUME NEW r \in Receivers
             PROVE  Link(weights, rootOp', FALSE, inbox[r], op[r], bucket[r].meta)
  BY <1>1 DEF LinkInv, Link
<1>3. Link(weights, rootOp, TRUE, inbox[r], op[r], bucket[r].meta)
  BY <1>1 DEF LinkInv, Link
<1> QED
  BY <1>1, <1>2, <1>3 DEF Link

LEMMA LinkPublish ==
  ASSUME Typed, RootInv, LinkInv, Publish
  PROVE  LinkInv'
<1>1. /\ UNCHANGED <<weights, op, bucket, got>> /\ joined \subseteq Receivers
      /\ inbox' = [r \in Receivers |->
           IF r \in joined
             THEN Append(inbox[r], [meta |-> rootOp.meta, last |-> rootOp.last])
             ELSE inbox[r]]
  BY DEF Publish, receiver, Typed
<1>2. /\ rootOp'.state = "cast" /\ rootOp'.meta = rootOp.meta /\ rootOp.state = "meta"
  BY RootPublish
<1>3. got = {}
  BY <1>2 DEF RootInv
<1> SUFFICES ASSUME NEW r \in Receivers
             PROVE  Link(weights, rootOp', FALSE, inbox'[r], op[r], bucket[r].meta)
  BY <1>1, <1>3 DEF LinkInv, Link
<1>4. Link(weights, rootOp, FALSE, inbox[r], op[r], bucket[r].meta)
  BY <1>3 DEF LinkInv, Link
<1>5. inbox[r] = <<>> /\ op[r].state # "cast"
  BY <1>2, <1>4 DEF Link
<1>6. inbox'[r] # <<>> => Len(inbox'[r]) = 1 /\ inbox'[r][1].meta = rootOp.meta
  <2>1. CASE r \in joined
    <3>1. PICK b : b = [meta |-> rootOp.meta, last |-> rootOp.last]
      OBVIOUS
    <3>2. inbox'[r] = Append(<<>>, b) /\ b.meta = rootOp.meta
      BY <1>1, <1>5, <2>1, <3>1
    <3>3. Len(Append(<<>>, b)) = 1 /\ Append(<<>>, b)[1] = b
      OBVIOUS
    <3> QED
      BY <3>2, <3>3
  <2>2. CASE r \notin joined
    BY <1>1, <1>5, <2>2
  <2> QED
    BY <2>1, <2>2
<1> QED
  BY <1>2, <1>4, <1>5, <1>6 DEF Link

LEMMA LinkMove ==
  ASSUME Typed, RootInv, LinkInv, PlaceInv, NEW r \in Receivers, Move(r)
  PROVE  Link(weights, rootOp, r \in got', inbox'[r], op'[r], bucket'[r].meta)
<1>1. /\ op \in [Receivers -> Ops] /\ bucket \in [Receivers -> Buckets]
      /\ inbox \in [Receivers -> Seq(Buckets)] /\ op[r] \in Ops
      /\ bucket[r] \in Buckets /\ turn[r] \in 1 .. 2 /\ op[r].buf \in 1 .. 2
  BY Row DEF Typed
<1>2. Link(weights, rootOp, r \in got, inbox[r], op[r], bucket[r].meta)
  BY DEF LinkInv
<1>3. ASSUME UNCHANGED <<inbox, op, bucket, got>>
      PROVE  Link(weights, rootOp, r \in got', inbox'[r], op'[r], bucket'[r].meta)
  BY <1>2, <1>3
<1>4. CASE TakeMeta(r)
  <2>1. /\ op[r].state = "meta" /\ inbox[r] # <<>> /\ UNCHANGED <<bucket, got>>
        /\ op' = [op EXCEPT ![r].state = "cast", ![r].meta = Head(inbox[r]).meta,
                            ![r].last = Head(inbox[r]).last]
        /\ inbox' = [inbox EXCEPT ![r] = Tail(@)]
    BY <1>4 DEF TakeMeta, rootVars
  <2>2. r \notin got /\ rootOp.state = "cast" /\ Len(inbox[r]) = 1
        /\ inbox[r][1].meta = rootOp.meta
    BY <1>2, <2>1 DEF Link
  <2>3. Head(inbox[r]) = inbox[r][1] /\ Tail(inbox[r]) = <<>>
    BY <1>1, <2>1, <2>2
  <2>4. inbox'[r] = <<>> /\ op'[r].state = "cast" /\ op'[r].meta = rootOp.meta
    BY <1>1, <2>1, <2>2, <2>3 DEF Ops
  <2>5. BucketOf(weights, rootOp.meta)
    BY DEF RootInv
  <2>6. StartOf(rootOp.meta) = EndOf(weights, bucket[r].meta)
    BY <1>2, <2>1, <2>2 DEF Link
  <2> QED
    BY <1>2, <2>1, <2>2, <2>4, <2>5, <2>6 DEF Link
<1>5. CASE Deliver(r)
  <2>1. /\ op[r].state = "cast" /\ r \notin got /\ UNCHANGED <<bucket, inbox>>
        /\ op' = [op EXCEPT ![r].state = "complete"] /\ r \in got'
    BY <1>5 DEF Deliver, topic
  <2>2. op'[r].state = "complete" /\ op'[r].meta = op[r].meta
    BY <1>1, <2>1 DEF Ops
  <2>3. inbox[r] = <<>> /\ op[r].meta = rootOp.meta
    BY <1>2, <2>1 DEF Link
  <2> QED
    BY <1>2, <2>1, <2>2, <2>3 DEF Link
<1>6. CASE ReceiveFirst(r)
  <2>1. /\ pc[r] = "first" /\ UNCHANGED <<bucket, inbox, got>>
        /\ op' = [op EXCEPT ![r] = Started(Other(turn[r]))]
    BY <1>6 DEF ReceiveFirst, StartReceive, Started, rootVars, topic
  <2>2. op'[r].state = "meta" /\ op'[r].meta = <<>>
    BY <1>1, <2>1, NoOpIs, OtherIs
  <2>3. op[r].state = "none"
    BY <2>1 DEF PlaceInv, Place
  <2> QED
    BY <1>2, <2>1, <2>2, <2>3, NoBucketIs DEF Link
<1>7. CASE NextBucket(r)
  <2>1. /\ op[r].state = "complete" /\ UNCHANGED <<inbox, got>>
        /\ bucket' = [bucket EXCEPT ![r] = [meta |-> op[r].meta, last |-> op[r].last]]
        /\ IF op[r].last
             THEN op' = [op EXCEPT ![r] = NoOp]
             ELSE op' = [op EXCEPT ![r] = Started(Other(op[r].buf))]
    BY <1>7 DEF NextBucket, StartReceive, Started, rootVars, topic
  <2>2. op'[r].state \in {"none", "meta"} /\ op'[r].meta = <<>>
    BY <1>1, <2>1, NoOpIs, OtherIs
  <2>3. bucket'[r].meta = op[r].meta
    BY <1>1, <2>1
  <2> QED
    BY <1>2, <2>1, <2>2, <2>3, NoBucketIs DEF Link
<1>8. CASE Join(r)
  BY <1>3, <1>8 DEF Join, rootVars, receiver
<1>9. CASE Copy(r)
  BY <1>3, <1>9 DEF Copy, rootVars, topic
<1>10. ASSUME ReceiverStep(r), ~ReceiveFirst(r), ~NextBucket(r)
       PROVE  UNCHANGED <<inbox, op, bucket, got>>
  BY <1>10 DEF ReceiverStep, SendHandle, MergeChunk, YieldView, BucketYielded, FlushIpc,
     Flushed, PackWeight, SendLarge, LargeSent, FlushLast, LastSent, rootVars, topic
<1>11. CASE WorkerStep(r) \/ LoadRaises(r)
  BY <1>3, <1>11 DEF WorkerStep, MapBuffer, LoadBucket, LoadWeight, Acknowledge, LoadRaises,
     rootVars, topic, receiver
<1> QED
  BY <1>3, <1>4, <1>5, <1>6, <1>7, <1>8, <1>9, <1>10, <1>11 DEF Move

LEMMA LinkStep ==
  ASSUME Typed, RootInv, LinkInv, PlaceInv, [Next]_vars
  PROVE  LinkInv'
<1>1. ASSUME UNCHANGED <<weights, rootOp, got, inbox, op, bucket>>
      PROVE  LinkInv'
  BY <1>1 DEF LinkInv
<1>2. CASE PutChunk \/ Copy(Root) \/ UNCHANGED vars
  BY <1>1, <1>2 DEF PutChunk, Copy, vars, rootVars, topic, receiver
<1>3. ASSUME NEW r \in Receivers, Move(r)
      PROVE  LinkInv'
  <2>1. weights' = weights /\ rootOp' = rootOp
    BY <1>3, RootKeeps
  <2> SUFFICES ASSUME NEW q \in Receivers
               PROVE  Link(weights, rootOp, q \in got', inbox'[q], op'[q], bucket'[q].meta)
    BY <2>1 DEF LinkInv
  <2>2. CASE q = r
    BY <1>3, <2>2, LinkMove
  <2>3. CASE q # r
    <3>1. Link(weights, rootOp, q \in got, inbox[q], op[q], bucket[q].meta)
      BY DEF LinkInv
    <3>2. Same(q)
      BY <1>3, <2>3, OthersKeep
    <3> QED
      BY <3>1, <3>2 DEF Same, Link
  <2> QED
    BY <2>2, <2>3
<1> QED
  BY <1>2, <1>3, LinkStart, LinkPublish DEF Next, RootStep, Move

-----------------------------------------------------------------------------
(* The buffers of a receiver.                                               *)

(* A step of rank 0 leaves a receiver as it is, except for its metadata.    *)
LEMMA RootStepKeeps ==
  ASSUME Typed, RootInv, RootCopied, RootStep \/ UNCHANGED vars, NEW q \in Receivers
  PROVE  /\ weights' = weights
         /\ op'[q] = op[q] /\ bucket'[q] = bucket[q] /\ turn'[q] = turn[q] /\ at'[q] = at[q]
         /\ merge'[q] = merge[q] /\ ipcMeta'[q] = ipcMeta[q] /\ message'[q] = message[q]
         /\ worker'[q] = worker[q] /\ loading'[q] = loading[q] /\ loaded'[q] = loaded[q]
         /\ pc'[q] = pc[q] /\ stream'[q] = stream[q] /\ buffer'[q] = buffer[q]
<1>1. /\ q \in Nodes /\ Root \in Nodes /\ q # Root
      /\ stream \in [Nodes -> Seq(Copies)]
      /\ buffer \in [Nodes -> [1 .. 3 -> [1 .. BucketSize -> Units]]]
  BY Row DEF Typed
<1>2. CASE PutChunk
  BY <1>1, <1>2 DEF PutChunk, receiver, workers
<1>3. CASE StartBroadcast
  BY <1>3 DEF StartBroadcast, device, receiver, workers
<1>4. CASE Publish
  BY <1>4 DEF Publish, device, receiver, workers
<1>5. CASE Copy(Root)
  <2>1. /\ buffer' = [buffer EXCEPT ![Root][fill] =
                        Overwrite(@, Oldest.offset,
                                  Bytes(Oldest.weight, Oldest.from, Oldest.size))]
        /\ stream' = [stream EXCEPT ![Root] = Tail(@)] /\ merge' = merge
    BY <1>5, RootCopyIs
  <2>2. buffer'[q] = buffer[q] /\ stream'[q] = stream[q]
    BY <1>1, <2>1
  <2> QED
    BY <1>5, <2>1, <2>2 DEF Copy, workers
<1>6. CASE UNCHANGED vars
  BY <1>6 DEF vars, device, receiver, workers
<1> QED
  BY <1>2, <1>3, <1>4, <1>5, <1>6 DEF RootStep

LEMMA ArrivedMove ==
  ASSUME Typed, RootInv, RootCopied, LinkInv, ArrivedInv, PlaceInv, CopiedInv,
         NEW r \in Receivers, Move(r)
  PROVE  Arrived(buffer'[r], op'[r], bucket'[r].meta, turn'[r])
<1>1. /\ op \in [Receivers -> Ops] /\ bucket \in [Receivers -> Buckets]
      /\ turn \in [Receivers -> 1 .. 2] /\ op[r] \in Ops /\ bucket[r] \in Buckets
      /\ turn[r] \in 1 .. 2 /\ op[r].buf \in 1 .. 2 /\ r \in Nodes
      /\ buffer \in [Nodes -> [1 .. 3 -> [1 .. BucketSize -> Units]]]
  BY Row DEF Typed
<1>2. Arrived(buffer[r], op[r], bucket[r].meta, turn[r])
  BY DEF ArrivedInv
<1>3. ASSUME buffer'[r] = buffer[r], UNCHANGED <<op, bucket, turn>>
      PROVE  Arrived(buffer'[r], op'[r], bucket'[r].meta, turn'[r])
  BY <1>2, <1>3
<1>4. CASE TakeMeta(r)
  <2>1. /\ op[r].state = "meta" /\ UNCHANGED <<bucket, turn, buffer>>
        /\ op' = [op EXCEPT ![r].state = "cast", ![r].meta = Head(inbox[r]).meta,
                            ![r].last = Head(inbox[r]).last]
    BY <1>4 DEF TakeMeta, device
  <2>2. op'[r].state = "cast" /\ op'[r].buf = op[r].buf
    BY <1>1, <2>1 DEF Ops
  <2> QED
    BY <1>2, <2>1, <2>2 DEF Arrived
<1>5. CASE Deliver(r)
  <2>1. /\ op[r].state = "cast" /\ rootOp.state = "cast" /\ r \notin got
        /\ UNCHANGED <<bucket, turn>>
        /\ op' = [op EXCEPT ![r].state = "complete"]
        /\ buffer' = [buffer EXCEPT ![r][op[r].buf] = buffer[Root][rootOp.buf]]
    BY <1>5 DEF Deliver
  <2>2. op'[r].state = "complete" /\ op'[r].meta = op[r].meta /\ op'[r].buf = op[r].buf
    BY <1>1, <2>1 DEF Ops
  <2>3. op[r].meta = rootOp.meta
    BY <2>1 DEF LinkInv, Link
  <2>4. op[r].buf = Other(turn[r]) /\ op[r].buf # turn[r]
    BY <1>1, <1>2, <2>1, OtherIs DEF Arrived
  <2>5. op[r].buf \in 1 .. 3 /\ turn[r] \in 1 .. 3
    BY <1>1
  <2>6. buffer'[r][op[r].buf] = buffer[Root][rootOp.buf]
        /\ buffer'[r][turn[r]] = buffer[r][turn[r]]
    BY <1>1, <2>1, <2>4, <2>5
  <2>7. Holds(buffer[Root][rootOp.buf], rootOp.meta, Len(rootOp.meta))
    BY DEF RootCopied
  <2> QED
    BY <1>2, <2>1, <2>2, <2>3, <2>4, <2>6, <2>7 DEF Arrived
<1>6. CASE ReceiveFirst(r)
  <2>1. /\ UNCHANGED <<bucket, turn, buffer>>
        /\ op' = [op EXCEPT ![r] = Started(Other(turn[r]))]
    BY <1>6 DEF ReceiveFirst, StartReceive, Started, device
  <2>2. op'[r].state = "meta" /\ op'[r].buf = Other(turn[r])
    BY <1>1, <2>1, NoOpIs, OtherIs
  <2> QED
    BY <1>2, <2>1, <2>2 DEF Arrived
<1>7. CASE NextBucket(r)
  <2>1. /\ op[r].state = "complete" /\ UNCHANGED buffer
        /\ bucket' = [bucket EXCEPT ![r] = [meta |-> op[r].meta, last |-> op[r].last]]
        /\ turn' = [turn EXCEPT ![r] = op[r].buf]
        /\ IF op[r].last
             THEN op' = [op EXCEPT ![r] = NoOp]
             ELSE op' = [op EXCEPT ![r] = Started(Other(op[r].buf))]
    BY <1>7 DEF NextBucket, StartReceive, Started, device
  <2>2. /\ op'[r].state \in {"none", "meta"}
        /\ op'[r].state # "none" => op'[r].buf = Other(op[r].buf)
    BY <1>1, <2>1, NoOpIs, OtherIs
  <2>3. bucket'[r].meta = op[r].meta /\ turn'[r] = op[r].buf
    BY <1>1, <2>1
  <2> QED
    BY <1>2, <2>1, <2>2, <2>3 DEF Arrived
<1>8. CASE Join(r)
  BY <1>3, <1>8 DEF Join, device, receiver
<1>9. CASE Copy(r)
  <2>1. UNCHANGED <<op, bucket, turn>>
    BY <1>9 DEF Copy
  <2>2. CASE buffer' = buffer
    BY <1>3, <2>1, <2>2
  <2>3. CASE buffer' = [buffer EXCEPT ![r][Ipc] =
                          Overwrite(@, stream[r][1].to, Source(r, stream[r][1]))]
    <3>1. /\ turn[r] \in 1 .. 3 /\ turn[r] # Ipc /\ op[r].buf \in 1 .. 3 /\ op[r].buf # Ipc
      BY <1>1 DEF Ipc
    <3>2. /\ buffer'[r][turn[r]] = buffer[r][turn[r]]
          /\ buffer'[r][op[r].buf] = buffer[r][op[r].buf]
      BY <1>1, <2>3, <3>1
    <3> QED
      BY <1>2, <2>1, <3>2 DEF Arrived
  <2> QED
    BY <1>9, <2>2, <2>3, CopyIs
<1>10. ASSUME ReceiverStep(r), ~ReceiveFirst(r), ~NextBucket(r)
       PROVE  UNCHANGED <<op, bucket, turn, buffer>>
  BY <1>10 DEF ReceiverStep, SendHandle, MergeChunk, YieldView, BucketYielded, FlushIpc,
     Flushed, PackWeight, SendLarge, LargeSent, FlushLast, LastSent, device
<1>11. CASE WorkerStep(r) \/ LoadRaises(r)
  BY <1>3, <1>11 DEF WorkerStep, MapBuffer, LoadBucket, LoadWeight, Acknowledge, LoadRaises,
     device, receiver
<1> QED
  BY <1>3, <1>4, <1>5, <1>6, <1>7, <1>8, <1>9, <1>10, <1>11 DEF Move

LEMMA ArrivedStep ==
  ASSUME Typed, RootInv, RootCopied, LinkInv, ArrivedInv, PlaceInv, CopiedInv, [Next]_vars
  PROVE  ArrivedInv'
<1> SUFFICES ASSUME NEW q \in Receivers
             PROVE  Arrived(buffer'[q], op'[q], bucket'[q].meta, turn'[q])
  BY DEF ArrivedInv
<1>1. Arrived(buffer[q], op[q], bucket[q].meta, turn[q])
  BY DEF ArrivedInv
<1>2. CASE RootStep \/ UNCHANGED vars
  BY <1>1, <1>2, RootStepKeeps
<1>3. ASSUME NEW r \in Receivers, Move(r)
      PROVE  Arrived(buffer'[q], op'[q], bucket'[q].meta, turn'[q])
  <2>1. CASE q = r
    BY <1>3, <2>1, ArrivedMove
  <2>2. CASE q # r
    BY <1>1, <1>3, <2>2, OthersKeep DEF Same
  <2> QED
    BY <2>1, <2>2
<1> QED
  BY <1>2, <1>3 DEF Next, Move

-----------------------------------------------------------------------------
(* Where a receiver stands.                                                 *)
LEMMA NoMergeIs ==
  NoMerge \in Merges /\ NoMerge.weight = 0 /\ NoMerge.offset = 0 /\ NoMerge.units = <<>>
BY DEF NoMerge, Merges

LEMMA BlankIs ==
  ASSUME NEW n \in Nat
  PROVE  Blank(n) \in [1 .. n -> Units] /\ Blank(n) \in Seq(Units) /\ DOMAIN Blank(n) = 1 .. n
<1>1. Empty \in Units
  BY DEF Empty, Units
<1>2. Blank(n) \in [1 .. n -> Units]
  BY <1>1 DEF Blank
<1> QED
  BY <1>2

(* The weight in which a chunk of a large one is merged, before and after.  *)
LEMMA MergeIs ==
  ASSUME Typed, LinkInv, PlaceInv, NEW r \in Receivers, MergeChunk(r)
  PROVE  LET c == Chunk(r) IN
         /\ pc[r] = "yield" /\ at[r] <= Len(bucket[r].meta) /\ Large(c)
         /\ merge'[r] \in Merges /\ merge'[r].weight = c.weight
         /\ merge'[r].offset = c.from + c.size
         /\ merge[r] = NoMerge => c.from = 0 /\ merge'[r].units = Blank(weights[c.weight])
         /\ merge[r] # NoMerge => /\ merge[r].weight = c.weight /\ merge[r].offset = c.from
                                  /\ merge'[r].units = merge[r].units
         /\ merge[r] # NoMerge <=> c.from # 0
         /\ DOMAIN merge'[r].units = 1 .. weights[c.weight]
         /\ UNCHANGED <<weights, op, bucket, turn, ipcMeta, message, buffer, worker, loading,
                        loaded>>
         /\ stream' = [stream EXCEPT ![r] =
               Append(@, [src |-> turn[r], from |-> c.offset, size |-> c.size,
                          dst |-> Merged, to |-> c.from])]
         /\ IF Ends(c)
              THEN pc' = [pc EXCEPT ![r] = "pack"] /\ UNCHANGED at
              ELSE at' = [at EXCEPT ![r] = @ + 1] /\ UNCHANGED pc
<1>1. PICK c : c = Chunk(r)
  OBVIOUS
<1>2. PICK g : g = merge[r]
  OBVIOUS
<1>3. /\ pc[r] = "yield" /\ at[r] <= Len(bucket[r].meta) /\ Large(c)
      /\ UNCHANGED <<weights, op, bucket, turn, ipcMeta, message, buffer, worker, loading, loaded>>
      /\ IF merge[r] = NoMerge
           THEN merge' = [merge EXCEPT ![r] = [weight |-> c.weight, offset |-> c.size,
                                               units |-> Blank(weights[c.weight])]]
           ELSE merge' = [merge EXCEPT ![r].offset = @ + c.size]
      /\ stream' = [stream EXCEPT ![r] =
            Append(@, [src |-> turn[r], from |-> c.offset, size |-> c.size,
                       dst |-> Merged, to |-> c.from])]
      /\ IF Ends(c)
           THEN pc' = [pc EXCEPT ![r] = "pack"] /\ UNCHANGED at
           ELSE at' = [at EXCEPT ![r] = @ + 1] /\ UNCHANGED pc
  BY <1>1 DEF MergeChunk, More, Goto, workers
<1>4. /\ at[r] \in 1 .. Len(bucket[r].meta) /\ c = bucket[r].meta[at[r]]
      /\ c \in Chunks /\ ChunkOf(weights, c)
      /\ Cursor(weights, bucket[r].meta, at[r]) = At(c)
  BY <1>1, <1>3, ChunkAt
<1>5. /\ c.from \in Nat /\ c.size \in Nat /\ c.weight \in Nat /\ weights[c.weight] \in Nat
      /\ c.weight \in 1 .. Len(weights)
  <2>1. BucketSize \in Nat /\ weights \in Seq(Nat \ {0})
    BY Sizes
  <2> QED
    BY <1>4, <2>1, ChunkIs DEF ChunkOf
<1>6. /\ c.from = 0 => g = NoMerge
      /\ c.from # 0 => g.weight = c.weight /\ g.offset = c.from
      /\ g # NoMerge => DOMAIN g.units = 1 .. weights[g.weight]
  <2>1. /\ IF Cursor(weights, bucket[r].meta, at[r]).offset = 0
              THEN g = NoMerge
              ELSE /\ g.weight = Cursor(weights, bucket[r].meta, at[r]).weight
                   /\ g.offset = Cursor(weights, bucket[r].meta, at[r]).offset
        /\ g # NoMerge => DOMAIN g.units = 1 .. weights[g.weight]
    <3>1. Place(weights, pc[r], op[r], bucket[r].meta, at[r], g, ipcMeta[r])
      BY <1>2 DEF PlaceInv
    <3> QED
      BY <1>3, <3>1 DEF Place
  <2>2. At(c).weight = c.weight /\ At(c).offset = c.from
    BY DEF At, Position
  <2> QED
    BY <1>4, <2>1, <2>2
<1>7. g \in Merges /\ merge \in [Receivers -> Merges]
  BY <1>2, Row DEF Typed
<1>8. g # NoMerge <=> c.from # 0
  BY <1>6, NoMergeIs
<1>9. r \in DOMAIN merge
  BY <1>7
<1>10. CASE g = NoMerge
  <2>1. Blank(weights[c.weight]) \in Seq(Units)
        /\ DOMAIN Blank(weights[c.weight]) = 1 .. weights[c.weight]
    BY <1>5, BlankIs
  <2>2. /\ merge'[r].weight = c.weight /\ merge'[r].offset = c.size
        /\ merge'[r].units = Blank(weights[c.weight])
    BY <1>2, <1>3, <1>9, <1>10
  <2>3. merge'[r] \in Merges
    BY <1>2, <1>3, <1>5, <1>9, <1>10, <2>1 DEF Merges
  <2>4. c.from = 0 /\ c.size = c.from + c.size
    BY <1>5, <1>8, <1>10
  <2> QED
    BY <1>1, <1>2, <1>3, <1>8, <1>10, <2>1, <2>2, <2>3, <2>4
<1>11. CASE g # NoMerge
  <2>1. g.offset + c.size \in Nat /\ g.offset = c.from /\ g.weight = c.weight
    BY <1>5, <1>6, <1>8, <1>11
  <2>2. /\ merge'[r] \in Merges /\ merge'[r].offset = merge[r].offset + c.size
        /\ merge'[r].weight = merge[r].weight /\ merge'[r].units = merge[r].units
    <3>1. merge' = [merge EXCEPT ![r].offset = @ + c.size]
      BY <1>2, <1>3, <1>11
    <3> QED
      BY <1>2, <1>7, <2>1, <3>1 DEF Merges
  <2>3. DOMAIN g.units = 1 .. weights[c.weight]
    BY <1>6, <1>11, <2>1
  <2> QED
    BY <1>1, <1>2, <1>3, <1>8, <1>11, <2>1, <2>2, <2>3
<1> QED
  BY <1>10, <1>11

LEMMA PlaceMove ==
  ASSUME Typed, RootInv, LinkInv, PlaceInv, CopiedInv, NEW r \in Receivers, Move(r)
  PROVE  Place(weights, pc'[r], op'[r], bucket'[r].meta, at'[r], merge'[r], ipcMeta'[r])
<1>1. /\ op \in [Receivers -> Ops] /\ bucket \in [Receivers -> Buckets]
      /\ at \in [Receivers -> Nat] /\ merge \in [Receivers -> Merges]
      /\ ipcMeta \in [Receivers -> Seq(Chunks)] /\ turn[r] \in 1 .. 2
      /\ pc \in [Receivers -> {"handle", "first", "await", "yield", "pack", "flushed",
                               "large", "flush", "last", "done"}]
      /\ op[r] \in Ops /\ bucket[r] \in Buckets /\ bucket[r].meta \in Seq(Chunks)
      /\ op[r].buf \in 1 .. 2 /\ at[r] \in Nat /\ Len(bucket[r].meta) \in Nat
      /\ merge[r] \in Merges /\ ipcMeta[r] \in Seq(Chunks)
  <2>1. bucket[r].meta \in Seq(Chunks)
    BY Row
  <2>2. Len(bucket[r].meta) \in Nat
    BY <2>1
  <2> QED
    BY <2>1, <2>2, Row DEF Typed
<1>2. PICK m, a : m = bucket[r].meta /\ a = at[r]
  OBVIOUS
<1>3. Place(weights, pc[r], op[r], m, a, merge[r], ipcMeta[r])
  BY <1>2 DEF PlaceInv
<1>4. /\ BucketOf(weights, m) /\ BucketSize \in Nat /\ BucketSize > 0
      /\ weights \in Seq(Nat \ {0})
  BY <1>2, Sizes DEF LinkInv, Link
<1>5. ASSUME UNCHANGED <<op, bucket, at, merge, ipcMeta, pc>>
      PROVE  Place(weights, pc'[r], op'[r], bucket'[r].meta, at'[r], merge'[r], ipcMeta'[r])
  BY <1>2, <1>3, <1>5
<1>6. CASE Join(r) \/ WorkerStep(r) \/ LoadRaises(r)
  BY <1>5, <1>6 DEF Join, WorkerStep, MapBuffer, LoadBucket, LoadWeight, Acknowledge,
     LoadRaises, receiver
<1>7. CASE TakeMeta(r) \/ Deliver(r)
  <2>1. UNCHANGED <<bucket, at, merge, ipcMeta, pc>> /\ op[r].state # "none"
    BY <1>7 DEF TakeMeta, Deliver
  <2> QED
    BY <1>2, <1>3, <2>1 DEF Place
<1>8. CASE Copy(r)
  <2>1. UNCHANGED <<op, bucket, at, ipcMeta, pc>> /\ stream[r] # <<>>
    BY <1>8 DEF Copy
  <2>2. CASE merge' = merge
    BY <1>5, <2>1, <2>2
  <2>3. ASSUME stream[r][1].dst = Merged,
               merge' = [merge EXCEPT ![r].units =
                           Overwrite(@, stream[r][1].to, Source(r, stream[r][1]))]
        PROVE  Place(weights, pc'[r], op'[r], bucket'[r].meta, at'[r], merge'[r], ipcMeta'[r])
    <3>1. merge[r] # NoMerge
      BY <2>1, <2>3, ReceiverCopyIs DEF Fetches
    <3>2. /\ merge'[r].weight = merge[r].weight /\ merge'[r].offset = merge[r].offset
          /\ merge'[r].units = Overwrite(merge[r].units, stream[r][1].to,
                                         Source(r, stream[r][1]))
      BY <1>1, <2>3 DEF Merges
    <3>3. DOMAIN merge'[r].units = DOMAIN merge[r].units
      BY <3>2 DEF Overwrite
    <3> QED
      BY <1>2, <1>3, <2>1, <3>1, <3>2, <3>3 DEF Place
  <2> QED
    BY <1>8, <2>2, <2>3, CopyIs
<1>9. CASE SendHandle(r)
  <2>1. UNCHANGED <<op, bucket, at, merge, ipcMeta>> /\ pc[r] = "handle" /\ pc'[r] = "first"
    BY <1>1, <1>9 DEF SendHandle, Goto
  <2> QED
    BY <1>2, <1>3, <2>1 DEF Place
<1>10. CASE ReceiveFirst(r)
  <2>1. UNCHANGED <<bucket, at, merge, ipcMeta>> /\ pc[r] = "first" /\ pc'[r] = "await"
    BY <1>1, <1>10 DEF ReceiveFirst, Goto
  <2> QED
    BY <1>2, <1>3, <2>1 DEF Place
<1>11. CASE NextBucket(r)
  <2>1. /\ pc[r] = "await" /\ pc'[r] = "yield" /\ op[r].state = "complete"
        /\ UNCHANGED <<merge, ipcMeta>> /\ at'[r] = 1 /\ bucket'[r].meta = op[r].meta
    BY <1>1, <1>11 DEF NextBucket, Goto
  <2>2. StartOf(op[r].meta) = EndOf(weights, m) /\ BucketOf(weights, op[r].meta)
    BY <1>2, <2>1 DEF LinkInv, Link
  <2>3. a = Len(m) + 1
    BY <1>3, <2>1 DEF Place
  <2>4. Len(m) \in Nat /\ Len(op[r].meta) \in Nat
    BY <1>1, <1>2, Row
  <2>5. Cursor(weights, m, a) = EndOf(weights, m)
    BY <2>3, <2>4 DEF Cursor
  <2>6. Cursor(weights, op[r].meta, 1) = EndOf(weights, m)
    <3>1. 1 \in 1 .. Len(op[r].meta) + 1
      BY <2>4
    <3>2. Cursor(weights, op[r].meta, 1) =
            IF op[r].meta = <<>> THEN First ELSE StartOf(op[r].meta)
      BY <1>4, <2>2, <3>1, CursorIs
    <3> QED
      BY <2>2, <3>2, NoBucketIs
  <2>7. 1 \in 1 .. Len(op[r].meta) + 1
    BY <2>4
  <2> QED
    BY <1>3, <2>1, <2>5, <2>6, <2>7 DEF Place
<1>12. CASE MergeChunk(r)
  <2>1. PICK c : c = Chunk(r)
    OBVIOUS
  <2>2. /\ pc[r] = "yield" /\ a <= Len(m) /\ Large(c)
        /\ merge'[r].weight = c.weight /\ merge'[r].offset = c.from + c.size
        /\ DOMAIN merge'[r].units = 1 .. weights[c.weight]
        /\ UNCHANGED <<op, bucket, ipcMeta>>
        /\ IF Ends(c)
             THEN pc' = [pc EXCEPT ![r] = "pack"] /\ UNCHANGED at
             ELSE at' = [at EXCEPT ![r] = @ + 1] /\ UNCHANGED pc
    BY <1>2, <1>12, <2>1, MergeIs
  <2>3. /\ a \in 1 .. Len(m) /\ c = m[a] /\ c \in Chunks /\ ChunkOf(weights, c)
        /\ Cursor(weights, m, a + 1) = After(weights, c)
    BY <1>2, <2>1, <2>2, ChunkAt
  <2>4. c.weight \in 1 .. Len(weights) /\ c.from \in Nat /\ c.size \in Nat /\ c.size > 0
    BY <2>3 DEF ChunkOf, Chunks
  <2>5. CASE Ends(c)
    <3>1. pc'[r] = "pack" /\ at'[r] = a /\ merge'[r].offset = weights[c.weight]
          /\ Ended(weights, c)
      BY <1>1, <1>2, <2>2, <2>5 DEF Ends, Ended
    <3> QED
      BY <1>2, <1>3, <2>2, <2>3, <2>4, <3>1 DEF Place, LargeOf, Large
  <2>6. CASE ~Ends(c)
    <3>1. pc'[r] = "yield" /\ at'[r] = a + 1
      BY <1>1, <1>2, <2>2, <2>6
    <3>2. /\ Cursor(weights, m, a + 1).weight = c.weight
          /\ Cursor(weights, m, a + 1).offset = c.from + c.size
      BY <2>3, <2>6 DEF Ends, Ended, After, Position
    <3>3. a + 1 \in 1 .. Len(m) + 1 /\ c.from + c.size # 0
      <4>1. PICK k, x, y : k = Len(m) /\ x = c.from /\ y = c.size
        OBVIOUS
      <4>2. x \in Nat /\ y \in Nat /\ y > 0 /\ k \in Nat /\ a \in 1 .. k
        <5>1. Len(m) \in Nat
          BY <1>1, <1>2, Row
        <5> QED
          BY <2>3, <2>4, <4>1, <5>1
      <4>3. a + 1 \in 1 .. k + 1 /\ x + y # 0
        BY <4>2
      <4> QED
        BY <4>1, <4>3
    <3> QED
      BY <1>2, <1>3, <2>2, <2>3, <2>4, <3>1, <3>2, <3>3 DEF Place
  <2> QED
    BY <2>5, <2>6
<1>13. CASE YieldView(r)
  <2>1. /\ UNCHANGED <<op, bucket, at, merge, ipcMeta>> /\ pc[r] = "yield" /\ pc'[r] = "pack"
        /\ a <= Len(m) /\ ~LargeOf(weights, m[a])
    BY <1>1, <1>2, <1>13 DEF YieldView, Goto, More, Large, LargeOf, Chunk
  <2> QED
    BY <1>2, <1>3, <2>1 DEF Place
<1>14. CASE BucketYielded(r)
  <2>1. /\ UNCHANGED <<op, bucket, at, merge, ipcMeta>> /\ pc[r] = "yield"
        /\ pc'[r] \in {"flush", "await"} /\ ~(a <= Len(m))
    BY <1>1, <1>2, <1>14 DEF BucketYielded, Goto, More
  <2>2. a = Len(m) + 1
    <3>1. a \in 1 .. Len(m) + 1 /\ Len(m) \in Nat
      BY <1>1, <1>2, <1>3 DEF Place
    <3> QED
      BY <2>1, <3>1
  <2> QED
    BY <1>2, <1>3, <2>1, <2>2 DEF Place
<1>15. CASE FlushIpc(r)
  <2>1. /\ UNCHANGED <<op, bucket, at, merge, ipcMeta>> /\ pc[r] = "pack"
        /\ pc'[r] = "flushed"
    BY <1>1, <1>15 DEF FlushIpc, Goto
  <2> QED
    BY <1>2, <1>3, <2>1 DEF Place
<1>16. CASE Flushed(r)
  <2>1. /\ UNCHANGED <<op, bucket, at, merge>> /\ pc[r] = "flushed" /\ pc'[r] = "pack"
    BY <1>1, <1>16 DEF Flushed, Goto
  <2> QED
    BY <1>2, <1>3, <2>1 DEF Place
<1>17. CASE PackWeight(r)
  <2>1. /\ UNCHANGED <<op, bucket, merge>> /\ pc[r] = "pack" /\ pc'[r] = "yield" /\ Fits(r)
        /\ at'[r] = a + 1
    BY <1>1, <1>2, <1>17 DEF PackWeight, Goto
  <2>2. a <= Len(m)
    BY <1>3, <2>1 DEF Place
  <2>3. /\ a \in 1 .. Len(m) /\ Chunk(r) = m[a] /\ m[a] \in Chunks /\ ChunkOf(weights, m[a])
        /\ Cursor(weights, m, a) = At(m[a]) /\ Cursor(weights, m, a + 1) = After(weights, m[a])
    BY <1>2, <2>2, ChunkAt
  <2>4. ~LargeOf(weights, m[a])
    <3>1. Used(ipcMeta[r]) \in Nat /\ weights[m[a].weight] \in Nat
      BY <1>1, <1>4, <2>3, UsedIs, ChunkIs
    <3>2. Used(ipcMeta[r]) + weights[m[a].weight] <= BucketSize
      BY <2>1, <2>3 DEF Fits, Size
    <3> QED
      BY <1>4, <3>1, <3>2 DEF LargeOf
  <2>5. m[a].from = 0 /\ After(weights, m[a]) = Position(m[a].weight + 1, 0)
    BY <1>4, <2>3, <2>4, ChunkIs
  <2>6. merge[r] = NoMerge
    BY <1>3, <2>1, <2>3, <2>4, <2>5 DEF Place, At, Position
  <2>7. a + 1 \in 1 .. Len(m) + 1 /\ Cursor(weights, m, a + 1).offset = 0
    BY <1>1, <1>2, <2>3, <2>5 DEF Position
  <2> QED
    BY <1>2, <1>3, <2>1, <2>6, <2>7 DEF Place
<1>18. CASE SendLarge(r)
  <2>1. /\ UNCHANGED <<op, bucket, at, merge, ipcMeta>> /\ pc[r] = "pack"
        /\ pc'[r] = "large" /\ ~Fits(r) /\ ipcMeta[r] = <<>>
    BY <1>1, <1>18 DEF SendLarge, Goto
  <2>2. a <= Len(m)
    BY <1>3, <2>1 DEF Place
  <2>3. Chunk(r) = m[a] /\ weights[m[a].weight] \in Nat
    BY <1>2, <1>4, <2>2, ChunkAt, ChunkIs
  <2>4. LargeOf(weights, m[a])
    <3>1. Used(ipcMeta[r]) = 0
      BY <2>1 DEF Used
    <3>2. ~(0 + weights[m[a].weight] <= BucketSize)
      BY <2>1, <2>3, <3>1 DEF Fits, Size
    <3> QED
      BY <1>4, <2>3, <3>2 DEF LargeOf
  <2> QED
    BY <1>2, <1>3, <2>1, <2>2, <2>4 DEF Place
<1>19. CASE LargeSent(r)
  <2>1. /\ UNCHANGED <<op, bucket, ipcMeta>> /\ pc[r] = "large" /\ pc'[r] = "yield"
        /\ at'[r] = a + 1 /\ merge'[r] = NoMerge
    BY <1>1, <1>2, <1>19 DEF LargeSent, Goto
  <2>2. a <= Len(m) /\ LargeOf(weights, m[a]) /\ Ended(weights, m[a])
    BY <1>3, <2>1 DEF Place
  <2>3. a \in 1 .. Len(m) /\ Cursor(weights, m, a + 1) = After(weights, m[a])
    BY <1>2, <2>2, ChunkAt
  <2>4. a + 1 \in 1 .. Len(m) + 1 /\ Cursor(weights, m, a + 1).offset = 0
    BY <1>1, <1>2, <2>2, <2>3 DEF After, Position
  <2> QED
    BY <1>2, <1>3, <2>1, <2>4 DEF Place
<1>20. CASE FlushLast(r) \/ LastSent(r)
  <2>1. /\ UNCHANGED <<op, bucket, at, merge, ipcMeta>> /\ pc[r] \in {"flush", "last"}
        /\ pc'[r] \in {"last", "done"}
    BY <1>1, <1>20 DEF FlushLast, LastSent, Goto
  <2> QED
    BY <1>2, <1>3, <2>1 DEF Place
<1> QED
  BY <1>6, <1>7, <1>8, <1>9, <1>10, <1>11, <1>12, <1>13, <1>14, <1>15, <1>16, <1>17, <1>18,
     <1>19, <1>20 DEF Move, ReceiverStep

LEMMA PlaceStep ==
  ASSUME Typed, RootInv, RootCopied, LinkInv, PlaceInv, CopiedInv, [Next]_vars
  PROVE  PlaceInv'
<1> SUFFICES ASSUME NEW q \in Receivers
             PROVE  Place(weights', pc'[q], op'[q], bucket'[q].meta, at'[q], merge'[q],
                          ipcMeta'[q])
  BY DEF PlaceInv
<1>1. Place(weights, pc[q], op[q], bucket[q].meta, at[q], merge[q], ipcMeta[q])
  BY DEF PlaceInv
<1>2. CASE RootStep \/ UNCHANGED vars
  BY <1>1, <1>2, RootStepKeeps
<1>3. ASSUME NEW r \in Receivers, Move(r)
      PROVE  Place(weights', pc'[q], op'[q], bucket'[q].meta, at'[q], merge'[q], ipcMeta'[q])
  <2>1. weights' = weights
    BY <1>3, RootKeeps
  <2>2. CASE q = r
    BY <1>3, <2>1, <2>2, PlaceMove
  <2>3. CASE q # r
    BY <1>1, <1>3, <2>1, <2>3, OthersKeep DEF Same
  <2> QED
    BY <2>2, <2>3
<1> QED
  BY <1>2, <1>3 DEF Next, Move

(* The cursor passes to the next weight when one is packed or a large one   *)
(* has been sent, and then only.                                            *)
WeightAt(r) == Cursor(weights, bucket[r].meta, at[r]).weight

LEMMA CursorMove ==
  ASSUME Typed, RootInv, LinkInv, PlaceInv, CopiedInv, NEW r \in Receivers, Move(r)
  PROVE  /\ WeightAt(r) \in Nat
         /\ (PackWeight(r) \/ LargeSent(r)) =>
              /\ WeightAt(r)' = WeightAt(r) + 1 /\ WeightAt(r) = Chunk(r).weight
              /\ at[r] <= Len(bucket[r].meta)
         /\ ~(PackWeight(r) \/ LargeSent(r)) => WeightAt(r)' = WeightAt(r)
<1>1. /\ op \in [Receivers -> Ops] /\ bucket \in [Receivers -> Buckets]
      /\ at \in [Receivers -> Nat] /\ op[r] \in Ops /\ bucket[r] \in Buckets
      /\ bucket[r].meta \in Seq(Chunks) /\ at[r] \in Nat /\ op[r].meta \in Seq(Chunks)
      /\ pc \in [Receivers -> {"handle", "first", "await", "yield", "pack", "flushed",
                               "large", "flush", "last", "done"}]
  BY Row DEF Typed
<1>2. weights' = weights
  BY RootKeeps
<1>3. PICK m, a : m = bucket[r].meta /\ a = at[r]
  OBVIOUS
<1>4. /\ WeightAt(r) = Cursor(weights, m, a).weight
      /\ WeightAt(r)' = Cursor(weights, bucket'[r].meta, at'[r]).weight
  BY <1>2, <1>3 DEF WeightAt
<1>5. Place(weights, pc[r], op[r], m, a, merge[r], ipcMeta[r])
  BY <1>3 DEF PlaceInv
<1>6. /\ BucketOf(weights, m) /\ BucketSize \in Nat /\ weights \in Seq(Nat \ {0})
      /\ Len(weights) \in Nat /\ a \in 1 .. Len(m) + 1
  BY <1>3, <1>5, Sizes DEF LinkInv, Link, Place
<1>7. WeightAt(r) \in Nat
  <2>1. PositionOf(weights, Cursor(weights, m, a))
    BY <1>6, CursorIs
  <2>2. Cursor(weights, m, a).weight \in 1 .. Len(weights) + 1
    BY <2>1 DEF PositionOf
  <2> QED
    BY <1>4, <1>6, <2>2
<1>8. ASSUME PackWeight(r) \/ LargeSent(r)
      PROVE  /\ WeightAt(r)' = WeightAt(r) + 1 /\ WeightAt(r) = Chunk(r).weight
             /\ at[r] <= Len(bucket[r].meta)
  <2>1. /\ bucket' = bucket /\ at'[r] = a + 1 /\ pc[r] \in {"pack", "large"}
    BY <1>1, <1>3, <1>8 DEF PackWeight, LargeSent
  <2>2. a <= Len(m)
    BY <1>5, <2>1 DEF Place
  <2>3. /\ Chunk(r) = m[a] /\ m[a] \in Chunks /\ ChunkOf(weights, m[a])
        /\ Cursor(weights, m, a) = At(m[a]) /\ Cursor(weights, m, a + 1) = After(weights, m[a])
    BY <1>3, <2>2, ChunkAt
  <2>4. Ended(weights, m[a])
    <3>1. CASE PackWeight(r)
      <4>1. /\ Fits(r) /\ ipcMeta[r] \in Seq(Chunks)
        BY <3>1, Row DEF PackWeight
      <4>2. Used(ipcMeta[r]) \in Nat /\ weights[m[a].weight] \in Nat
        BY <1>6, <2>3, <4>1, UsedIs, ChunkIs
      <4>3. Used(ipcMeta[r]) + weights[m[a].weight] <= BucketSize
        BY <2>3, <4>1 DEF Fits, Size
      <4>4. ~LargeOf(weights, m[a])
        BY <1>6, <4>2, <4>3 DEF LargeOf
      <4> QED
        BY <1>6, <2>3, <4>4, ChunkIs
    <3>2. CASE LargeSent(r)
      <4>1. pc[r] = "large"
        BY <3>2 DEF LargeSent
      <4> QED
        BY <1>5, <4>1 DEF Place
    <3> QED
      BY <1>8, <3>1, <3>2
  <2>5. /\ Cursor(weights, m, a + 1).weight = m[a].weight + 1
        /\ Cursor(weights, m, a).weight = m[a].weight
    BY <2>3, <2>4 DEF After, At, Position
  <2> QED
    BY <1>3, <1>4, <2>1, <2>2, <2>3, <2>5
<1>9. ASSUME ~(PackWeight(r) \/ LargeSent(r))
      PROVE  WeightAt(r)' = WeightAt(r)
  <2>1. CASE NextBucket(r)
    <3>1. pc[r] = "await" /\ op[r].state = "complete" /\ at'[r] = 1
          /\ bucket'[r].meta = op[r].meta
      BY <1>1, <2>1 DEF NextBucket
    <3>2. StartOf(op[r].meta) = EndOf(weights, m) /\ BucketOf(weights, op[r].meta)
      BY <1>3, <3>1 DEF LinkInv, Link
    <3>3. a = Len(m) + 1 /\ Len(m) \in Nat /\ Len(op[r].meta) \in Nat
      BY <1>1, <1>3, <1>5, <3>1 DEF Place
    <3>4. Cursor(weights, m, a) = EndOf(weights, m)
      BY <3>3 DEF Cursor
    <3>5. 1 \in 1 .. Len(op[r].meta) + 1
      BY <3>3
    <3>6. Cursor(weights, op[r].meta, 1) =
            IF op[r].meta = <<>> THEN First ELSE StartOf(op[r].meta)
      BY <1>6, <3>2, <3>5, CursorIs
    <3> QED
      BY <1>4, <3>1, <3>2, <3>4, <3>6, NoBucketIs
  <2>2. CASE MergeChunk(r)
    <3>1. PICK c : c = Chunk(r)
      OBVIOUS
    <3>2. /\ a <= Len(m) /\ bucket' = bucket
          /\ IF Ends(c) THEN at' = at ELSE at' = [at EXCEPT ![r] = @ + 1]
      BY <1>3, <2>2, <3>1, MergeIs
    <3>3. /\ Cursor(weights, m, a) = At(c) /\ Cursor(weights, m, a + 1) = After(weights, c)
      BY <1>3, <3>1, <3>2, ChunkAt
    <3>4. CASE Ends(c)
      BY <1>3, <1>4, <3>2, <3>4
    <3>5. CASE ~Ends(c)
      <4>1. at'[r] = a + 1
        BY <1>1, <1>3, <3>2, <3>5
      <4>2. After(weights, c).weight = c.weight /\ At(c).weight = c.weight
        BY <3>5 DEF After, At, Position, Ends, Ended
      <4> QED
        BY <1>3, <1>4, <3>2, <3>3, <4>1, <4>2
    <3> QED
      BY <3>4, <3>5
  <2>3. ASSUME ~NextBucket(r), ~MergeChunk(r)
        PROVE  bucket' = bucket /\ at' = at
    <3>1. CASE ReceiverStep(r)
      BY <1>9, <2>3, <3>1 DEF ReceiverStep, SendHandle, ReceiveFirst, YieldView, BucketYielded,
         FlushIpc, Flushed, SendLarge, FlushLast, LastSent
    <3>2. CASE ~ReceiverStep(r)
      BY <3>2 DEF Move, Join, TakeMeta, Deliver, Copy, WorkerStep, MapBuffer, LoadBucket,
         LoadWeight, Acknowledge, LoadRaises, receiver
    <3> QED
      BY <3>1, <3>2
  <2> QED
    BY <1>3, <1>4, <2>1, <2>2, <2>3
<1> QED
  BY <1>7, <1>8, <1>9

-----------------------------------------------------------------------------
(* What is packed in the IPC bucket.                                        *)
LEMMA PackedNone ==
  ASSUME NEW ws, NEW w, BucketSize \in Nat
  PROVE  Packed(ws, <<>>, w)
<1>1. Len(<<>>) = 0 /\ Used(<<>>) = 0 /\ <<>> \in Seq(Chunks)
  BY DEF Used
<1> QED
  BY <1>1 DEF Packed

(* The weight that is packed next.                                          *)
Weight(r) == [weight |-> Chunk(r).weight, from |-> 0, size |-> Size(r),
              offset |-> Used(ipcMeta[r])]

LEMMA PackIs ==
  ASSUME Typed, RootInv, LinkInv, PlaceInv, NEW r \in Receivers, PackWeight(r)
  PROVE  /\ Weight(r) \in Chunks /\ Weight(r).weight = Chunk(r).weight
         /\ Weight(r).size = weights[Chunk(r).weight] /\ Size(r) = weights[Chunk(r).weight]
         /\ Weight(r).offset = Used(ipcMeta[r])
         /\ Used(ipcMeta[r]) + Size(r) <= BucketSize
         /\ Chunk(r).weight \in 1 .. Len(weights)
         /\ Chunk(r).from = 0 /\ Chunk(r).size = Size(r)
         /\ Used(ipcMeta[r]) \in Nat /\ Size(r) \in Nat
         /\ ipcMeta'[r] = Append(ipcMeta[r], Weight(r))
         /\ at[r] \in 1 .. Len(bucket[r].meta) /\ Chunk(r) = bucket[r].meta[at[r]]
         /\ Chunk(r) \in Chunks /\ ChunkOf(weights, Chunk(r))
<1>1. /\ ipcMeta \in [Receivers -> Seq(Chunks)] /\ BucketSize \in Nat
      /\ weights \in Seq(Nat \ {0}) /\ ipcMeta[r] \in Seq(Chunks)
  BY Sizes DEF Typed
<1>2. pc[r] = "pack" /\ Fits(r)
      /\ ipcMeta' = [ipcMeta EXCEPT ![r] = Append(ipcMeta[r], Weight(r))]
  BY DEF PackWeight, Weight
<1>3. at[r] <= Len(bucket[r].meta)
  BY <1>2 DEF PlaceInv, Place
<1>4. /\ at[r] \in 1 .. Len(bucket[r].meta) /\ Chunk(r) = bucket[r].meta[at[r]]
      /\ Chunk(r) \in Chunks /\ ChunkOf(weights, Chunk(r))
  BY <1>3, ChunkAt
<1>5. Used(ipcMeta[r]) \in Nat /\ weights[Chunk(r).weight] \in Nat
      /\ Chunk(r).weight \in Nat /\ Chunk(r).weight \in 1 .. Len(weights)
  BY <1>1, <1>4, UsedIs, ChunkIs DEF ChunkOf
<1>6. Used(ipcMeta[r]) + weights[Chunk(r).weight] <= BucketSize
  BY <1>2 DEF Fits, Size
<1>7. ~LargeOf(weights, Chunk(r))
  BY <1>1, <1>5, <1>6 DEF LargeOf
<1>8. Chunk(r).from = 0 /\ Chunk(r).size = weights[Chunk(r).weight]
  BY <1>1, <1>4, <1>7, ChunkIs
<1>9. Weight(r) \in Chunks
  BY <1>5 DEF Weight, Chunks, Size
<1>10. ipcMeta'[r] = Append(ipcMeta[r], Weight(r))
  BY <1>1, <1>2
<1> QED
  BY <1>4, <1>5, <1>6, <1>8, <1>9, <1>10 DEF Weight, Size

LEMMA PackedMove ==
  ASSUME Typed, RootInv, LinkInv, PlaceInv, PackedInv, CopiedInv, NEW r \in Receivers, Move(r)
  PROVE  Packed(weights, ipcMeta'[r], WeightAt(r)')
<1>1. /\ WeightAt(r) \in Nat
      /\ (PackWeight(r) \/ LargeSent(r)) =>
           WeightAt(r)' = WeightAt(r) + 1 /\ WeightAt(r) = Chunk(r).weight
      /\ ~(PackWeight(r) \/ LargeSent(r)) => WeightAt(r)' = WeightAt(r)
  BY CursorMove
<1>2. Packed(weights, ipcMeta[r], WeightAt(r))
  BY DEF PackedInv, WeightAt
<1>3. ipcMeta \in [Receivers -> Seq(Chunks)] /\ BucketSize \in Nat
  BY Sizes DEF Typed
<1>4. CASE PackWeight(r)
  <2>1. PICK s, c, n, w : s = ipcMeta[r] /\ c = Weight(r) /\ n = ipcMeta'[r] /\ w = WeightAt(r)
    OBVIOUS
  <2>2. /\ c \in Chunks /\ c.weight = w /\ c.size = weights[w] /\ c.offset = Used(s)
        /\ Used(s) + weights[w] <= BucketSize /\ w \in 1 .. Len(weights)
        /\ n = Append(s, c) /\ s \in Seq(Chunks) /\ weights[w] \in Nat /\ Used(s) \in Nat
    BY <1>1, <1>3, <1>4, <2>1, PackIs
  <2>3. /\ n \in Seq(Chunks) /\ Len(n) = Len(s) + 1 /\ Len(s) \in Nat
        /\ n[Len(s) + 1] = c /\ \A i \in 1 .. Len(s) : n[i] = s[i]
    BY <2>2
  <2>4. Used(n) = Used(s) + weights[w]
    BY <2>2, UsedIs
  <2>5. Packed(weights, s, w)
    BY <1>2, <2>1
  <2>6. ASSUME NEW i \in 1 .. Len(s)
        PROVE  s[i].weight \in Nat /\ s[i].offset \in Nat /\ s[i].size \in Nat
    <3>1. s[i] \in Chunks
      BY <2>2
    <3> QED
      BY <3>1 DEF Chunks
  <2>7. ASSUME NEW i \in 1 .. Len(n)
        PROVE  /\ n[i].weight + Len(n) = (w + 1) - 1 + i /\ n[i].weight \in 1 .. Len(weights)
               /\ n[i].size = weights[n[i].weight] /\ n[i].offset + n[i].size <= Used(n)
    <3>1. CASE i = Len(s) + 1
      BY <1>1, <2>1, <2>2, <2>3, <2>4, <3>1
    <3>2. CASE i # Len(s) + 1
      <4>1. i \in 1 .. Len(s) /\ n[i] = s[i]
        BY <2>3, <3>2
      <4>2. /\ s[i].weight + Len(s) = w - 1 + i /\ s[i].weight \in 1 .. Len(weights)
            /\ s[i].size = weights[s[i].weight] /\ s[i].offset + s[i].size <= Used(s)
        BY <2>5, <4>1 DEF Packed
      <4>3. s[i].weight + (Len(s) + 1) = (w + 1) - 1 + i
        <5>1. PICK x, l : x = s[i].weight /\ l = Len(s)
          OBVIOUS
        <5>2. x \in Nat /\ l \in Nat /\ w \in Nat /\ i \in Nat /\ x + l = w - 1 + i
          BY <1>1, <2>1, <2>3, <2>6, <4>1, <4>2, <5>1
        <5>3. x + (l + 1) = (w + 1) - 1 + i
          BY <5>2
        <5> QED
          BY <5>1, <5>3
      <4>4. s[i].offset + s[i].size <= Used(s) + weights[w]
        <5>1. \A x, y, v, u \in Nat : x + y <= v => x + y <= v + u
          OBVIOUS
        <5>2. s[i].offset \in Nat /\ s[i].size \in Nat
          BY <2>6, <4>1
        <5> QED
          BY <2>2, <4>2, <5>1, <5>2
      <4> QED
        BY <2>3, <2>4, <4>1, <4>2, <4>3, <4>4
    <3> QED
      BY <3>1, <3>2
  <2>8. ASSUME NEW i \in 1 .. Len(n), NEW j \in 1 .. Len(n), i < j
        PROVE  n[i].offset + n[i].size <= n[j].offset
    <3>1. i \in 1 .. Len(s) /\ n[i] = s[i]
      BY <2>3, <2>8
    <3>2. CASE j = Len(s) + 1
      BY <2>2, <2>3, <2>5, <3>1, <3>2 DEF Packed
    <3>3. CASE j # Len(s) + 1
      <4>1. j \in 1 .. Len(s) /\ n[j] = s[j]
        BY <2>3, <3>3
      <4> QED
        BY <2>5, <2>8, <3>1, <4>1 DEF Packed
    <3> QED
      BY <3>2, <3>3
  <2>9. Packed(weights, n, w + 1)
    <3>1. Used(n) <= BucketSize /\ Used(n) \in Nat
      BY <2>2, <2>4
    <3> QED
      BY <2>3, <2>7, <2>8, <3>1 DEF Packed
  <2> QED
    BY <1>1, <1>4, <2>1, <2>9
<1>5. CASE LargeSent(r)
  <2>1. ipcMeta' = ipcMeta /\ pc[r] = "large"
    BY <1>5 DEF LargeSent
  <2>2. ipcMeta[r] = <<>>
    BY <2>1 DEF PlaceInv, Place
  <2> QED
    BY <1>3, <2>1, <2>2, PackedNone
<1>6. CASE Flushed(r)
  <2>1. ipcMeta'[r] = <<>>
    BY <1>3, <1>6 DEF Flushed
  <2> QED
    BY <1>3, <2>1, PackedNone
<1>7. ASSUME ~PackWeight(r), ~LargeSent(r), ~Flushed(r)
      PROVE  ipcMeta' = ipcMeta
  <2>1. CASE ReceiverStep(r)
    BY <1>7, <2>1 DEF ReceiverStep, SendHandle, ReceiveFirst, NextBucket, MergeChunk,
       YieldView, BucketYielded, FlushIpc, SendLarge, FlushLast, LastSent
  <2>2. CASE ~ReceiverStep(r)
    BY <2>2 DEF Move, Join, TakeMeta, Deliver, Copy, WorkerStep, MapBuffer, LoadBucket,
       LoadWeight, Acknowledge, LoadRaises, receiver
  <2> QED
    BY <2>1, <2>2
<1> QED
  BY <1>1, <1>2, <1>4, <1>5, <1>6, <1>7

LEMMA PackedStep ==
  ASSUME Typed, RootInv, RootCopied, LinkInv, PlaceInv, PackedInv, CopiedInv, [Next]_vars
  PROVE  PackedInv'
<1> SUFFICES ASSUME NEW q \in Receivers
             PROVE  Packed(weights', ipcMeta'[q], WeightAt(q)')
  BY DEF PackedInv, WeightAt
<1>1. Packed(weights, ipcMeta[q], WeightAt(q))
  BY DEF PackedInv, WeightAt
<1>2. CASE RootStep \/ UNCHANGED vars
  BY <1>1, <1>2, RootStepKeeps DEF WeightAt
<1>3. ASSUME NEW r \in Receivers, Move(r)
      PROVE  Packed(weights', ipcMeta'[q], WeightAt(q)')
  <2>1. weights' = weights
    BY <1>3, RootKeeps
  <2>2. CASE q = r
    BY <1>3, <2>1, <2>2, PackedMove
  <2>3. CASE q # r
    BY <1>1, <1>3, <2>1, <2>3, OthersKeep DEF Same, WeightAt
  <2> QED
    BY <2>2, <2>3
<1> QED
  BY <1>2, <1>3 DEF Next, Move

-----------------------------------------------------------------------------
(* The copies enqueued on the device of a receiver.                         *)
Writes(c, dst, n) == c.dst = dst /\ c.to < n /\ n <= c.to + c.size

LEMMA PendingAppend ==
  ASSUME NEW s \in Seq(Copies), NEW c \in Copies, NEW d, NEW n,
         Pending(s, d, n) \/ Writes(c, d, n)
  PROVE  Pending(Append(s, c), d, n)
<1>1. PICK t : t = Append(s, c)
  OBVIOUS
<1>2. /\ Len(t) = Len(s) + 1 /\ Len(s) \in Nat /\ t[Len(s) + 1] = c
      /\ \A j \in 1 .. Len(s) : t[j] = s[j]
  BY <1>1
<1>3. CASE Pending(s, d, n)
  <2>1. PICK j \in 1 .. Len(s) : s[j].dst = d /\ s[j].to < n /\ n <= s[j].to + s[j].size
    BY <1>3 DEF Pending
  <2>2. j \in 1 .. Len(t) /\ t[j] = s[j]
    BY <1>2
  <2> QED
    BY <1>1, <2>1, <2>2 DEF Pending
<1>4. CASE Writes(c, d, n)
  <2>1. Len(s) + 1 \in 1 .. Len(t) /\ t[Len(s) + 1] = c
    BY <1>2
  <2> QED
    BY <1>1, <1>4, <2>1 DEF Pending, Writes
<1> QED
  BY <1>3, <1>4

LEMMA PendingTail ==
  ASSUME NEW s \in Seq(Copies), s # <<>>, NEW d, NEW n, Pending(s, d, n), ~Writes(s[1], d, n)
  PROVE  Pending(Tail(s), d, n)
<1>1. PICK t : t = Tail(s)
  OBVIOUS
<1>2. /\ Len(t) = Len(s) - 1 /\ Len(s) \in Nat /\ \A j \in 1 .. Len(t) : t[j] = s[j + 1]
  BY <1>1, HeadTailProperties
<1>3. PICK j \in 1 .. Len(s) : s[j].dst = d /\ s[j].to < n /\ n <= s[j].to + s[j].size
  BY DEF Pending
<1>4. j # 1
  BY <1>3 DEF Writes
<1>5. j - 1 \in 1 .. Len(t) /\ (j - 1) + 1 = j
  BY <1>2, <1>4
<1>6. t[j - 1] = s[j]
  BY <1>2, <1>5
<1> QED
  BY <1>1, <1>3, <1>5, <1>6 DEF Pending

LEMMA PendingNone ==
  ASSUME NEW d, NEW n
  PROVE  ~Pending(<<>>, d, n)
<1>1. Len(<<>>) = 0
  OBVIOUS
<1> QED
  BY <1>1 DEF Pending

LEMMA TailFetches ==
  ASSUME NEW b, NEW s \in Seq(Copies), s # <<>>, NEW t, NEW ipc, NEW g,
         \A j \in 1 .. Len(s) : Fetches(b, t, ipc, g, s[j])
  PROVE  \A j \in 1 .. Len(Tail(s)) : Fetches(b, t, ipc, g, Tail(s)[j])
<1>1. PICK u : u = Tail(s)
  OBVIOUS
<1>2. /\ Len(u) = Len(s) - 1 /\ Len(s) \in Nat /\ \A j \in 1 .. Len(u) : u[j] = s[j + 1]
  BY <1>1, HeadTailProperties
<1>3. ASSUME NEW j \in 1 .. Len(u)
      PROVE  Fetches(b, t, ipc, g, u[j])
  <2>1. j + 1 \in 1 .. Len(s) /\ u[j] = s[j + 1]
    BY <1>2
  <2> QED
    BY <2>1
<1> QED
  BY <1>1, <1>3

(* What has been merged is within the weight.                               *)
LEMMA MergeFits ==
  ASSUME Typed, RootInv, LinkInv, PlaceInv, NEW r \in Receivers, merge[r] # NoMerge
  PROVE  /\ merge[r].weight \in 1 .. Len(weights) /\ weights[merge[r].weight] \in Nat
         /\ merge[r].offset \in Nat /\ merge[r].offset <= weights[merge[r].weight]
         /\ merge[r].units \in [1 .. weights[merge[r].weight] -> Units]
<1>1. PICK g, m, a : g = merge[r] /\ m = bucket[r].meta /\ a = at[r]
  OBVIOUS
<1>2. Place(weights, pc[r], op[r], m, a, g, ipcMeta[r])
  BY <1>1 DEF PlaceInv
<1>3. g \in Merges /\ BucketOf(weights, m) /\ BucketSize \in Nat /\ weights \in Seq(Nat \ {0})
      /\ a \in 1 .. Len(m) + 1
  BY <1>1, <1>2, Row, Sizes DEF LinkInv, Link, Place
<1>4. g.weight \in 1 .. Len(weights) /\ DOMAIN g.units = 1 .. weights[g.weight]
  BY <1>1, <1>2 DEF Place
<1>5. weights[g.weight] \in Nat
  BY <1>3, <1>4
<1>6. g.offset \in Nat /\ g.units \in Seq(Units)
  BY <1>3 DEF Merges
<1>7. g.offset <= weights[g.weight]
  <2>1. CASE g.offset = weights[g.weight]
    BY <1>5, <2>1
  <2>2. CASE g.offset # weights[g.weight]
    <3>1. /\ Cursor(weights, m, a).offset # 0 /\ g.weight = Cursor(weights, m, a).weight
          /\ g.offset = Cursor(weights, m, a).offset
      BY <1>1, <1>2, <2>2 DEF Place
    <3>2. PositionOf(weights, Cursor(weights, m, a))
      BY <1>3, CursorIs
    <3>3. g.offset < weights[g.weight]
      BY <1>6, <3>1, <3>2 DEF PositionOf
    <3> QED
      BY <1>5, <1>6, <3>3
  <2> QED
    BY <2>1, <2>2
<1>8. g.units \in [1 .. weights[g.weight] -> Units]
  <2>1. PICK u : u = g.units
    OBVIOUS
  <2>2. u \in Seq(Units) /\ Len(u) = weights[g.weight]
    BY <1>4, <1>5, <1>6, <2>1
  <2>3. u \in [1 .. Len(u) -> Units]
    BY <2>2
  <2> QED
    BY <2>1, <2>2, <2>3
<1> QED
  BY <1>1, <1>4, <1>5, <1>6, <1>7, <1>8

LEMMA CopiedCopy ==
  ASSUME Typed, RootInv, LinkInv, PlaceInv, PackedInv, CopiedInv, NEW r \in Receivers, Copy(r)
  PROVE  Copied(buffer'[r], stream'[r], turn'[r], ipcMeta'[r], merge'[r])
<1>1. PICK b, s, t, ipc, g, c, new :
        /\ b = buffer[r] /\ s = stream[r] /\ t = turn[r] /\ ipc = ipcMeta[r] /\ g = merge[r]
        /\ c = stream[r][1] /\ new = Source(r, stream[r][1])
  OBVIOUS
<1>2. /\ s # <<>> /\ c.dst \in {Merged, Ipc} /\ stream'[r] = Tail(s) /\ c = s[1]
      /\ c.dst = Merged => buffer' = buffer
      /\ c.dst = Ipc => merge' = merge
  <2>1. /\ stream[r] # <<>> /\ stream[r][1].dst \in {Merged, Ipc}
        /\ stream' = [stream EXCEPT ![r] = Tail(@)]
        /\ stream[r][1].dst = Merged => buffer' = buffer
        /\ stream[r][1].dst = Ipc => merge' = merge
    BY CopyIs
  <2>2. stream'[r] = Tail(stream[r])
    BY <2>1, Row DEF Typed
  <2> QED
    BY <1>1, <2>1, <2>2
<1>3. UNCHANGED <<turn, ipcMeta>>
  BY DEF Copy
<1>4. /\ s \in Seq(Copies) /\ g \in Merges /\ ipc \in Seq(Chunks) /\ t \in 1 .. 2
      /\ b \in [1 .. 3 -> [1 .. BucketSize -> Units]] /\ merge \in [Receivers -> Merges]
      /\ buffer \in [Nodes -> [1 .. 3 -> [1 .. BucketSize -> Units]]] /\ r \in Nodes
      /\ BucketSize \in Nat
  BY <1>1, Row, Sizes DEF Typed
<1>5. /\ c \in ReceiverCopies /\ Fetches(b, t, ipc, g, c) /\ new \in Seq(Units)
      /\ Len(new) = c.size /\ \A x \in 1 .. c.size : new[x] = b[t][c.from + x]
  BY <1>1, <1>2, ReceiverCopyIs
<1>6. c.from \in Nat /\ c.size \in Nat /\ c.to \in Nat
  BY <1>5 DEF ReceiverCopies
<1>7. Copied(b, s, t, ipc, g)
  BY <1>1 DEF CopiedInv
<1>8. \A j \in 1 .. Len(Tail(s)) : Fetches(b, t, ipc, g, Tail(s)[j])
  BY <1>2, <1>4, <1>7, TailFetches DEF Copied
<1>9. CASE c.dst = Merged
  <2>1. g # NoMerge /\ c.to + c.size <= g.offset
        /\ \A x \in 1 .. c.size : b[t][c.from + x] = Byte(g.weight, c.to + x)
    BY <1>5, <1>9 DEF Fetches
  <2>2. PICK n : n = weights[g.weight]
    OBVIOUS
  <2>3. /\ g.offset \in Nat /\ n \in Nat /\ g.offset <= n /\ g.units \in [1 .. n -> Units]
        /\ g.weight \in 1 .. Len(weights)
    BY <1>1, <2>1, <2>2, MergeFits
  <2>4. PICK h : h = merge'[r]
    OBVIOUS
  <2>5. /\ h.weight = g.weight /\ h.offset = g.offset
        /\ h.units = Overwrite(g.units, c.to, new)
    <3>1. merge' = [merge EXCEPT ![r].units =
                      Overwrite(@, stream[r][1].to, Source(r, stream[r][1]))]
      BY <1>1, <1>9, CopyIs
    <3>2. /\ merge'[r].weight = merge[r].weight /\ merge'[r].offset = merge[r].offset
          /\ merge'[r].units = Overwrite(merge[r].units, stream[r][1].to,
                                         Source(r, stream[r][1]))
      BY <1>1, <1>4, <3>1 DEF Merges
    <3> QED
      BY <1>1, <2>4, <3>2
  <2>6. h # NoMerge
    BY <2>3, <2>5, NoMergeIs
  <2>7. \A i \in 1 .. n : h.units[i] =
          IF c.to < i /\ i <= c.to + c.size THEN new[i - c.to] ELSE g.units[i]
    <3>1. PICK u, o : u = g.units /\ o = c.to
      OBVIOUS
    <3>2. n \in Nat /\ u \in [1 .. n -> Units] /\ o \in Nat /\ new \in Seq(Units)
      BY <1>5, <1>6, <2>3, <3>1
    <3>3. \A i \in 1 .. n : Overwrite(u, o, new)[i] =
            IF o < i /\ i <= o + Len(new) THEN new[i - o] ELSE u[i]
      BY <3>2, OverwriteIs
    <3> QED
      BY <1>5, <2>5, <3>1, <3>3
  <2>8. \A j \in 1 .. Len(Tail(s)) : Fetches(b, t, ipc, h, Tail(s)[j])
    BY <1>8, <2>1, <2>5, <2>6 DEF Fetches
  <2>9. ASSUME NEW i \in 1 .. Len(ipc), NEW k \in 1 .. ipc[i].size
        PROVE  b[Ipc][ipc[i].offset + k] = Byte(ipc[i].weight, k)
               \/ Pending(Tail(s), Ipc, ipc[i].offset + k)
    <3>1. ~Writes(s[1], Ipc, ipc[i].offset + k)
      BY <1>2, <1>9 DEF Writes, Ipc, Merged
    <3> QED
      BY <1>2, <1>4, <1>7, <3>1, PendingTail DEF Copied
  <2>10. ASSUME NEW k \in 1 .. g.offset
         PROVE  h.units[k] = Byte(g.weight, k) \/ Pending(Tail(s), Merged, k)
    <3>1. k \in 1 .. n
      BY <2>3
    <3>2. CASE c.to < k /\ k <= c.to + c.size
      <4>1. k - c.to \in 1 .. c.size /\ c.to + (k - c.to) = k
        BY <1>6, <3>2
      <4>2. h.units[k] = new[k - c.to]
        BY <2>7, <3>1, <3>2
      <4>3. new[k - c.to] = b[t][c.from + (k - c.to)]
        BY <1>5, <4>1
      <4>4. b[t][c.from + (k - c.to)] = Byte(g.weight, c.to + (k - c.to))
        BY <2>1, <4>1
      <4> QED
        BY <4>1, <4>2, <4>3, <4>4
    <3>3. CASE ~(c.to < k /\ k <= c.to + c.size)
      <4>1. h.units[k] = g.units[k]
        BY <2>7, <3>1, <3>3
      <4>2. ~Writes(s[1], Merged, k)
        BY <1>2, <3>3 DEF Writes
      <4>3. g.units[k] = Byte(g.weight, k) \/ Pending(s, Merged, k)
        BY <1>7, <2>1 DEF Copied
      <4> QED
        BY <1>2, <1>4, <4>1, <4>2, <4>3, PendingTail
    <3> QED
      BY <3>2, <3>3
  <2>11. Copied(b, Tail(s), t, ipc, h)
    BY <2>5, <2>8, <2>9, <2>10 DEF Copied
  <2> QED
    BY <1>1, <1>2, <1>3, <1>9, <2>4, <2>11
<1>10. CASE c.dst = Ipc
  <2>1. /\ c.to + c.size <= Used(ipc)
        /\ \A i \in 1 .. Len(ipc) : \A k \in 1 .. ipc[i].size, x \in 1 .. c.size :
             ipc[i].offset + k = c.to + x => b[t][c.from + x] = Byte(ipc[i].weight, k)
    BY <1>5, <1>10 DEF Fetches
  <2>2. PICK d : d = buffer'[r]
    OBVIOUS
  <2>3. Ipc \in 1 .. 3 /\ t \in 1 .. 3 /\ t # Ipc
    BY <1>4 DEF Ipc
  <2>4. d[Ipc] = Overwrite(b[Ipc], c.to, new) /\ d[t] = b[t]
    <3>1. buffer' = [buffer EXCEPT ![r][Ipc] =
                       Overwrite(@, stream[r][1].to, Source(r, stream[r][1]))]
      BY <1>1, <1>10, CopyIs
    <3>2. /\ buffer'[r][Ipc] = Overwrite(buffer[r][Ipc], stream[r][1].to,
                                         Source(r, stream[r][1]))
          /\ buffer'[r][t] = buffer[r][t]
      BY <1>4, <2>3, <3>1
    <3> QED
      BY <1>1, <2>2, <3>2
  <2>5. b[Ipc] \in [1 .. BucketSize -> Units]
    BY <1>4, <2>3
  <2>6. \A i \in 1 .. BucketSize : d[Ipc][i] =
          IF c.to < i /\ i <= c.to + c.size THEN new[i - c.to] ELSE b[Ipc][i]
    <3>1. PICK u, o : u = b[Ipc] /\ o = c.to
      OBVIOUS
    <3>2. u \in [1 .. BucketSize -> Units] /\ o \in Nat /\ new \in Seq(Units)
      BY <1>5, <1>6, <2>5, <3>1
    <3>3. \A i \in 1 .. BucketSize : Overwrite(u, o, new)[i] =
            IF o < i /\ i <= o + Len(new) THEN new[i - o] ELSE u[i]
      BY <1>4, <3>2, OverwriteIs
    <3> QED
      BY <1>5, <2>4, <3>1, <3>3
  <2>7. \A j \in 1 .. Len(Tail(s)) : Fetches(d, t, ipc, g, Tail(s)[j])
    BY <1>8, <2>4 DEF Fetches
  <2>8. ASSUME NEW i \in 1 .. Len(ipc), NEW k \in 1 .. ipc[i].size
        PROVE  d[Ipc][ipc[i].offset + k] = Byte(ipc[i].weight, k)
               \/ Pending(Tail(s), Ipc, ipc[i].offset + k)
    <3>1. PICK n : n = ipc[i].offset + k
      OBVIOUS
    <3>2. ipc[i] \in Chunks
      BY <1>4
    <3>3. ipc[i].offset \in Nat /\ ipc[i].size \in Nat
      BY <3>2 DEF Chunks
    <3>4. /\ ipc[i].offset + ipc[i].size <= Used(ipc) /\ Used(ipc) <= BucketSize
          /\ Used(ipc) \in Nat
      BY <1>1 DEF PackedInv, Packed
    <3>5. n \in 1 .. BucketSize
      <4>1. PICK o, z, u : o = ipc[i].offset /\ z = ipc[i].size /\ u = Used(ipc)
        OBVIOUS
      <4>2. /\ o \in Nat /\ z \in Nat /\ u \in Nat /\ o + z <= u /\ u <= BucketSize
            /\ k \in 1 .. z /\ n = o + k
        BY <3>1, <3>3, <3>4, <4>1
      <4>3. BucketSize \in Nat
        BY <1>4
      <4> QED
        BY <4>2, <4>3
    <3>6. CASE c.to < n /\ n <= c.to + c.size
      <4>1. n - c.to \in 1 .. c.size /\ n = c.to + (n - c.to)
        BY <1>6, <3>5, <3>6
      <4>2. d[Ipc][n] = new[n - c.to]
        BY <2>6, <3>5, <3>6
      <4>3. new[n - c.to] = b[t][c.from + (n - c.to)]
        BY <1>5, <4>1
      <4>4. b[t][c.from + (n - c.to)] = Byte(ipc[i].weight, k)
        BY <2>1, <3>1, <4>1
      <4> QED
        BY <3>1, <4>2, <4>3, <4>4
    <3>7. CASE ~(c.to < n /\ n <= c.to + c.size)
      <4>1. d[Ipc][n] = b[Ipc][n]
        BY <2>6, <3>5, <3>7
      <4>2. ~Writes(s[1], Ipc, n)
        BY <1>2, <3>7 DEF Writes
      <4>3. b[Ipc][n] = Byte(ipc[i].weight, k) \/ Pending(s, Ipc, n)
        BY <1>7, <3>1 DEF Copied
      <4> QED
        BY <1>2, <1>4, <3>1, <4>1, <4>2, <4>3, PendingTail
    <3> QED
      BY <3>6, <3>7
  <2>9. ASSUME g # NoMerge, NEW k \in 1 .. g.offset
        PROVE  g.units[k] = Byte(g.weight, k) \/ Pending(Tail(s), Merged, k)
    <3>1. ~Writes(s[1], Merged, k)
      BY <1>2, <1>10 DEF Writes, Ipc, Merged
    <3> QED
      BY <1>2, <1>4, <1>7, <2>9, <3>1, PendingTail DEF Copied
  <2>10. Copied(d, Tail(s), t, ipc, g)
    BY <2>7, <2>8, <2>9 DEF Copied
  <2> QED
    BY <1>1, <1>2, <1>3, <1>10, <2>2, <2>10
<1> QED
  BY <1>2, <1>9, <1>10

LEMMA CopiedMerge ==
  ASSUME Typed, RootInv, LinkInv, ArrivedInv, PlaceInv, CopiedInv, NEW r \in Receivers,
         MergeChunk(r)
  PROVE  Copied(buffer'[r], stream'[r], turn'[r], ipcMeta'[r], merge'[r])
<1>1. PICK b, s, t, ipc, g, c, h, m :
        /\ b = buffer[r] /\ s = stream[r] /\ t = turn[r] /\ ipc = ipcMeta[r] /\ g = merge[r]
        /\ c = Chunk(r) /\ h = merge'[r] /\ m = bucket[r].meta
  OBVIOUS
<1>2. PICK e : e = [src |-> t, from |-> c.offset, size |-> c.size, dst |-> Merged,
                    to |-> c.from]
  OBVIOUS
<1>3. /\ at[r] <= Len(bucket[r].meta)
      /\ h.weight = c.weight /\ h.offset = c.from + c.size
      /\ g # NoMerge => /\ g.weight = c.weight /\ g.offset = c.from /\ h.units = g.units
      /\ g # NoMerge <=> c.from # 0
      /\ UNCHANGED <<turn, ipcMeta, buffer>>
      /\ stream' = [stream EXCEPT ![r] =
            Append(@, [src |-> turn[r], from |-> Chunk(r).offset, size |-> Chunk(r).size,
                       dst |-> Merged, to |-> Chunk(r).from])]
  BY <1>1, MergeIs
<1>4. /\ at[r] \in 1 .. Len(m) /\ c = m[at[r]] /\ c \in Chunks /\ ChunkOf(weights, c)
  BY <1>1, <1>3, ChunkAt
<1>5. /\ c.from \in Nat /\ c.size \in Nat /\ c.offset \in Nat /\ c.size > 0
      /\ c.offset + c.size <= BucketSize
  BY <1>4 DEF Chunks, ChunkOf
<1>6. /\ s \in Seq(Copies) /\ t \in 1 .. 2 /\ ipc \in Seq(Chunks) /\ BucketSize \in Nat
      /\ stream \in [Nodes -> Seq(Copies)] /\ r \in Nodes
  BY <1>1, Row, Sizes DEF Typed
<1>7. e \in ReceiverCopies /\ e \in Copies
  BY <1>2, <1>5, <1>6 DEF ReceiverCopies, Copies
<1>8. stream'[r] = Append(s, e)
  BY <1>1, <1>2, <1>3, <1>6
<1>9. /\ e.src = t /\ e.from = c.offset /\ e.size = c.size /\ e.dst = Merged /\ e.to = c.from
  BY <1>2
<1>10. PICK n : n = Append(s, e)
  OBVIOUS
<1>11. /\ Len(n) = Len(s) + 1 /\ Len(s) \in Nat /\ n[Len(s) + 1] = e
       /\ \A j \in 1 .. Len(s) : n[j] = s[j]
  BY <1>6, <1>7, <1>10
<1>12. Copied(b, s, t, ipc, g)
  BY <1>1 DEF CopiedInv
<1>13. h # NoMerge
  BY <1>3, <1>5, NoMergeIs
<1>14. Fetches(b, t, ipc, h, e)
  <2>1. Holds(b[t], m, Len(m))
    BY <1>1 DEF ArrivedInv, Arrived
  <2>2. \A x \in 1 .. c.size : b[t][c.offset + x] = Byte(c.weight, c.from + x)
    BY <1>4, <2>1 DEF Holds
  <2>3. e.dst # Ipc
    BY <1>9 DEF Ipc, Merged
  <2>4. e.to + e.size <= h.offset
    BY <1>3, <1>5, <1>9
  <2> QED
    BY <1>3, <1>5, <1>7, <1>9, <1>13, <2>2, <2>3, <2>4 DEF Fetches
<1>15. ASSUME NEW j \in 1 .. Len(n)
       PROVE  Fetches(b, t, ipc, h, n[j])
  <2>1. CASE j = Len(s) + 1
    BY <1>11, <1>14, <2>1
  <2>2. CASE j # Len(s) + 1
    <3>1. j \in 1 .. Len(s) /\ n[j] = s[j]
      BY <1>11, <2>2
    <3>2. Fetches(b, t, ipc, g, s[j])
      BY <1>12, <3>1 DEF Copied
    <3>3. CASE s[j].dst = Merged
      <4>1. g # NoMerge /\ s[j].to + s[j].size <= g.offset /\ s[j] \in ReceiverCopies
        BY <3>2, <3>3 DEF Fetches
      <4>2. s[j].to \in Nat /\ s[j].size \in Nat
        BY <4>1 DEF ReceiverCopies
      <4>3. s[j].to + s[j].size <= h.offset /\ h.weight = g.weight
        BY <1>3, <1>5, <4>1, <4>2
      <4>4. s[j].dst # Ipc
        BY <3>3 DEF Ipc, Merged
      <4> QED
        BY <1>13, <3>1, <3>2, <3>3, <4>3, <4>4 DEF Fetches
    <3>4. CASE s[j].dst # Merged
      BY <3>1, <3>2, <3>4 DEF Fetches
    <3> QED
      BY <3>3, <3>4
  <2> QED
    BY <2>1, <2>2
<1>16. ASSUME NEW i \in 1 .. Len(ipc), NEW k \in 1 .. ipc[i].size
       PROVE  b[Ipc][ipc[i].offset + k] = Byte(ipc[i].weight, k)
              \/ Pending(n, Ipc, ipc[i].offset + k)
  BY <1>6, <1>7, <1>10, <1>12, PendingAppend DEF Copied
<1>17. ASSUME NEW k \in 1 .. h.offset
       PROVE  h.units[k] = Byte(h.weight, k) \/ Pending(n, Merged, k)
  <2>1. CASE c.from < k
    <3>1. Writes(e, Merged, k)
      BY <1>3, <1>5, <1>9, <2>1 DEF Writes
    <3> QED
      BY <1>6, <1>7, <1>10, <3>1, PendingAppend
  <2>2. CASE ~(c.from < k)
    <3>1. c.from # 0 /\ k \in 1 .. c.from
      BY <1>3, <1>5, <2>2
    <3>2. g # NoMerge /\ g.offset = c.from /\ g.weight = h.weight /\ h.units = g.units
      BY <1>3, <3>1
    <3>3. g.units[k] = Byte(g.weight, k) \/ Pending(s, Merged, k)
      BY <1>12, <3>1, <3>2 DEF Copied
    <3> QED
      BY <1>6, <1>7, <1>10, <3>2, <3>3, PendingAppend
  <2> QED
    BY <2>1, <2>2
<1>18. Copied(b, n, t, ipc, h)
  BY <1>15, <1>16, <1>17 DEF Copied
<1> QED
  BY <1>1, <1>3, <1>8, <1>10, <1>18

LEMMA CopiedPack ==
  ASSUME Typed, RootInv, LinkInv, ArrivedInv, PlaceInv, PackedInv, CopiedInv,
         NEW r \in Receivers, PackWeight(r)
  PROVE  Copied(buffer'[r], stream'[r], turn'[r], ipcMeta'[r], merge'[r])
<1>1. PICK b, s, t, ipc, g, c, m, w :
        /\ b = buffer[r] /\ s = stream[r] /\ t = turn[r] /\ ipc = ipcMeta[r] /\ g = merge[r]
        /\ c = Chunk(r) /\ m = bucket[r].meta /\ w = Weight(r)
  OBVIOUS
<1>2. PICK z, u : z = Size(r) /\ u = Used(ipc)
  OBVIOUS
<1>3. /\ w \in Chunks /\ w.weight = c.weight /\ w.size = z /\ w.offset = u
      /\ u + z <= BucketSize /\ c.from = 0 /\ c.size = z /\ u \in Nat /\ z \in Nat
      /\ ipcMeta'[r] = Append(ipc, w) /\ at[r] \in 1 .. Len(m) /\ c = m[at[r]]
      /\ c \in Chunks /\ ChunkOf(weights, c)
  BY <1>1, <1>2, PackIs
<1>4. PICK e : e = [src |-> t, from |-> c.offset, size |-> z, dst |-> Ipc, to |-> u]
  OBVIOUS
<1>5. /\ c.offset \in Nat /\ c.offset + z <= BucketSize
  BY <1>3 DEF Chunks, ChunkOf
<1>6. /\ s \in Seq(Copies) /\ t \in 1 .. 2 /\ ipc \in Seq(Chunks) /\ BucketSize \in Nat
      /\ stream \in [Nodes -> Seq(Copies)] /\ r \in Nodes
  BY <1>1, Row, Sizes DEF Typed
<1>7. e \in ReceiverCopies /\ e \in Copies
  BY <1>3, <1>4, <1>5, <1>6 DEF ReceiverCopies, Copies
<1>8. /\ stream' = [stream EXCEPT ![r] =
           Append(@, [src |-> turn[r], from |-> Chunk(r).offset, size |-> Size(r),
                      dst |-> Ipc, to |-> Used(ipcMeta[r])])]
      /\ UNCHANGED <<turn, merge, buffer>>
  BY DEF PackWeight
<1>9. stream'[r] = Append(s, e)
  BY <1>1, <1>2, <1>4, <1>6, <1>8
<1>10. /\ e.src = t /\ e.from = c.offset /\ e.size = z /\ e.dst = Ipc /\ e.to = u
  BY <1>4
<1>11. PICK n, p : n = Append(s, e) /\ p = Append(ipc, w)
  OBVIOUS
<1>12. /\ Len(n) = Len(s) + 1 /\ Len(s) \in Nat /\ n[Len(s) + 1] = e
       /\ \A j \in 1 .. Len(s) : n[j] = s[j]
  BY <1>6, <1>7, <1>11
<1>13. /\ Len(p) = Len(ipc) + 1 /\ Len(ipc) \in Nat /\ p[Len(ipc) + 1] = w
       /\ \A j \in 1 .. Len(ipc) : p[j] = ipc[j]
  BY <1>3, <1>6, <1>11
<1>14. Used(p) = u + z
  BY <1>3, <1>6, <1>11, UsedIs
<1>15. Copied(b, s, t, ipc, g)
  BY <1>1 DEF CopiedInv
<1>16. ASSUME NEW i \in 1 .. Len(ipc)
       PROVE  /\ ipc[i].offset \in Nat /\ ipc[i].size \in Nat
              /\ ipc[i].offset + ipc[i].size <= u
  <2>1. ipc[i] \in Chunks
    BY <1>6
  <2>2. ipc[i].offset + ipc[i].size <= u
    BY <1>1, <1>2 DEF PackedInv, Packed
  <2> QED
    BY <2>1, <2>2 DEF Chunks
<1>17. Fetches(b, t, p, g, e)
  <2>1. Holds(b[t], m, Len(m))
    BY <1>1 DEF ArrivedInv, Arrived
  <2>2. \A x \in 1 .. z : b[t][c.offset + x] = Byte(c.weight, 0 + x)
    BY <1>3, <2>1 DEF Holds
  <2>3. e.dst # Merged
    BY <1>10 DEF Ipc, Merged
  <2>4. ASSUME NEW i \in 1 .. Len(p), NEW k \in 1 .. p[i].size, NEW x \in 1 .. z,
               p[i].offset + k = u + x
        PROVE  b[t][c.offset + x] = Byte(p[i].weight, k)
    <3>1. CASE i = Len(ipc) + 1
      <4>1. p[i] = w /\ u + k = u + x /\ k \in 1 .. z
        BY <1>3, <1>13, <2>4, <3>1
      <4>2. k = x /\ 0 + x = k
        BY <1>3, <4>1
      <4> QED
        BY <1>3, <2>2, <4>1, <4>2
    <3>2. CASE i # Len(ipc) + 1
      <4>1. i \in 1 .. Len(ipc) /\ p[i] = ipc[i]
        BY <1>13, <3>2
      <4>2. ~(ipc[i].offset + k = u + x)
        <5>1. PICK y, q : y = ipc[i].offset /\ q = ipc[i].size
          OBVIOUS
        <5>2. y \in Nat /\ q \in Nat /\ k \in 1 .. q /\ x \in 1 .. z /\ y + q <= u
          BY <1>16, <4>1, <5>1
        <5>3. z \in Nat /\ u \in Nat
          BY <1>3
        <5>4. ~(y + k = u + x)
          BY <5>2, <5>3
        <5> QED
          BY <5>1, <5>4
      <4> QED
        BY <2>4, <4>1, <4>2
    <3> QED
      BY <3>1, <3>2
  <2>5. e.to + e.size <= Used(p) /\ e.from + e.size <= BucketSize
    BY <1>3, <1>5, <1>10, <1>14
  <2> QED
    BY <1>7, <1>10, <2>3, <2>4, <2>5 DEF Fetches
<1>18. ASSUME NEW j \in 1 .. Len(s)
       PROVE  Fetches(b, t, p, g, s[j])
  <2>1. Fetches(b, t, ipc, g, s[j])
    BY <1>15 DEF Copied
  <2>2. CASE s[j].dst = Ipc
    <3>1. /\ s[j].to + s[j].size <= u /\ s[j] \in ReceiverCopies
          /\ \A i \in 1 .. Len(ipc) : \A k \in 1 .. ipc[i].size, x \in 1 .. s[j].size :
               ipc[i].offset + k = s[j].to + x => b[t][s[j].from + x] = Byte(ipc[i].weight, k)
      BY <1>2, <2>1, <2>2 DEF Fetches
    <3>2. s[j].to \in Nat /\ s[j].size \in Nat
      BY <3>1 DEF ReceiverCopies
    <3>3. ASSUME NEW i \in 1 .. Len(p), NEW k \in 1 .. p[i].size, NEW x \in 1 .. s[j].size,
                 p[i].offset + k = s[j].to + x
          PROVE  b[t][s[j].from + x] = Byte(p[i].weight, k)
      <4>1. CASE i = Len(ipc) + 1
        <5>1. u + k = s[j].to + x /\ k \in 1 .. z
          BY <1>3, <1>13, <3>3, <4>1
        <5>2. PICK y, q : y = s[j].to /\ q = s[j].size
          OBVIOUS
        <5>3. /\ y \in Nat /\ q \in Nat /\ x \in 1 .. q /\ y + q <= u
              /\ k \in 1 .. z /\ u + k = y + x
          BY <3>1, <3>2, <5>1, <5>2
        <5>4. u \in Nat /\ z \in Nat
          BY <1>3
        <5> QED
          BY <5>3, <5>4
      <4>2. CASE i # Len(ipc) + 1
        <5>1. i \in 1 .. Len(ipc) /\ p[i] = ipc[i]
          BY <1>13, <4>2
        <5> QED
          BY <3>1, <3>3, <5>1
      <4> QED
        BY <4>1, <4>2
    <3>4. s[j].to + s[j].size <= Used(p)
      BY <1>3, <1>14, <3>1, <3>2
    <3>5. s[j].dst # Merged
      BY <2>2 DEF Ipc, Merged
    <3> QED
      BY <2>1, <3>3, <3>4, <3>5 DEF Fetches
  <2>3. CASE s[j].dst # Ipc
    BY <2>1, <2>3 DEF Fetches
  <2> QED
    BY <2>2, <2>3
<1>19. ASSUME NEW j \in 1 .. Len(n)
       PROVE  Fetches(b, t, p, g, n[j])
  <2>1. CASE j = Len(s) + 1
    BY <1>12, <1>17, <2>1
  <2>2. CASE j # Len(s) + 1
    <3>1. j \in 1 .. Len(s) /\ n[j] = s[j]
      BY <1>12, <2>2
    <3> QED
      BY <1>18, <3>1
  <2> QED
    BY <2>1, <2>2
<1>20. ASSUME NEW i \in 1 .. Len(p), NEW k \in 1 .. p[i].size
       PROVE  b[Ipc][p[i].offset + k] = Byte(p[i].weight, k)
              \/ Pending(n, Ipc, p[i].offset + k)
  <2>1. CASE i = Len(ipc) + 1
    <3>1. p[i] = w /\ k \in 1 .. z
      BY <1>3, <1>13, <2>1
    <3>2. Writes(e, Ipc, u + k)
      BY <1>3, <1>10, <3>1 DEF Writes
    <3> QED
      BY <1>3, <1>6, <1>7, <1>11, <3>1, <3>2, PendingAppend
  <2>2. CASE i # Len(ipc) + 1
    <3>1. i \in 1 .. Len(ipc) /\ p[i] = ipc[i]
      BY <1>13, <2>2
    <3>2. b[Ipc][ipc[i].offset + k] = Byte(ipc[i].weight, k)
          \/ Pending(s, Ipc, ipc[i].offset + k)
      BY <1>15, <3>1 DEF Copied
    <3> QED
      BY <1>6, <1>7, <1>11, <3>1, <3>2, PendingAppend
  <2> QED
    BY <2>1, <2>2
<1>21. ASSUME g # NoMerge, NEW k \in 1 .. g.offset
       PROVE  g.units[k] = Byte(g.weight, k) \/ Pending(n, Merged, k)
  BY <1>6, <1>7, <1>11, <1>15, <1>21, PendingAppend DEF Copied
<1>22. Copied(b, n, t, p, g)
  BY <1>19, <1>20, <1>21 DEF Copied
<1> QED
  BY <1>1, <1>3, <1>8, <1>9, <1>11, <1>22

LEMMA CopiedAtRest ==
  ASSUME NEW b, NEW t, NEW u, NEW ipc, NEW g, NEW n, NEW h, Copied(b, <<>>, t, ipc, g),
         n = ipc \/ n = <<>>, h = g \/ h = NoMerge
  PROVE  Copied(b, <<>>, u, n, h)
<1>1. Len(<<>>) = 0
  OBVIOUS
<1>2. \A j \in 1 .. Len(<<>>) : Fetches(b, u, n, h, <<>>[j])
  BY <1>1
<1>3. \A i \in 1 .. Len(n) : \A k \in 1 .. n[i].size :
        b[Ipc][n[i].offset + k] = Byte(n[i].weight, k) \/ Pending(<<>>, Ipc, n[i].offset + k)
  <2>1. CASE n = ipc
    BY <2>1 DEF Copied
  <2>2. CASE n = <<>>
    BY <1>1, <2>2
  <2> QED
    BY <2>1, <2>2
<1>4. h # NoMerge => \A k \in 1 .. h.offset : h.units[k] = Byte(h.weight, k)
                                              \/ Pending(<<>>, Merged, k)
  BY DEF Copied
<1> QED
  BY <1>2, <1>3, <1>4 DEF Copied

LEMMA CopiedMove ==
  ASSUME Typed, RootInv, LinkInv, ArrivedInv, PlaceInv, PackedInv, CopiedInv, HandedInv,
         NEW r \in Receivers, Move(r)
  PROVE  Copied(buffer'[r], stream'[r], turn'[r], ipcMeta'[r], merge'[r])
<1>1. Copied(buffer[r], stream[r], turn[r], ipcMeta[r], merge[r])
  BY DEF CopiedInv
<1>2. /\ turn \in [Receivers -> 1 .. 2] /\ ipcMeta \in [Receivers -> Seq(Chunks)]
      /\ merge \in [Receivers -> Merges] /\ turn[r] \in 1 .. 2 /\ op[r].buf \in 1 .. 2
      /\ buffer \in [Nodes -> [1 .. 3 -> [1 .. BucketSize -> Units]]] /\ r \in Nodes
  BY Row DEF Typed
<1>3. ASSUME UNCHANGED <<buffer, stream, turn, ipcMeta, merge>>
      PROVE  Copied(buffer'[r], stream'[r], turn'[r], ipcMeta'[r], merge'[r])
  BY <1>1, <1>3
<1>4. CASE Deliver(r)
  <2>1. /\ UNCHANGED <<stream, turn, ipcMeta, merge>> /\ op[r].state = "cast"
        /\ buffer' = [buffer EXCEPT ![r][op[r].buf] = buffer[Root][rootOp.buf]]
    BY <1>4 DEF Deliver
  <2>2. op[r].buf # turn[r]
    BY <1>2, <2>1, OtherIs DEF ArrivedInv, Arrived
  <2>3. /\ turn[r] \in 1 .. 3 /\ op[r].buf \in 1 .. 3 /\ Ipc \in 1 .. 3 /\ op[r].buf # Ipc
    BY <1>2 DEF Ipc
  <2>4. buffer'[r][turn[r]] = buffer[r][turn[r]] /\ buffer'[r][Ipc] = buffer[r][Ipc]
    BY <1>2, <2>1, <2>2, <2>3
  <2>5. PICK b, d, s, t, ipc, g :
          /\ b = buffer[r] /\ d = buffer'[r] /\ s = stream[r] /\ t = turn[r]
          /\ ipc = ipcMeta[r] /\ g = merge[r]
    OBVIOUS
  <2>6. d[t] = b[t] /\ d[Ipc] = b[Ipc] /\ Copied(b, s, t, ipc, g)
    BY <1>1, <2>4, <2>5
  <2>7. \A c : Fetches(b, t, ipc, g, c) => Fetches(d, t, ipc, g, c)
    BY <2>6 DEF Fetches
  <2>8. Copied(d, s, t, ipc, g)
    BY <2>6, <2>7 DEF Copied
  <2> QED
    BY <2>1, <2>5, <2>8
<1>5. CASE NextBucket(r)
  <2>1. stream[r] = <<>> /\ UNCHANGED <<buffer, stream, ipcMeta, merge>>
    BY <1>5 DEF NextBucket, Synchronized, device
  <2> QED
    BY <1>1, <2>1, CopiedAtRest
<1>6. CASE Flushed(r)
  <2>1. pc[r] = "flushed" /\ UNCHANGED <<buffer, stream, turn, merge>> /\ ipcMeta'[r] = <<>>
    BY <1>2, <1>6 DEF Flushed, device
  <2>2. stream[r] = <<>>
    BY <2>1 DEF HandedInv, Handed
  <2> QED
    BY <1>1, <2>1, <2>2, CopiedAtRest
<1>7. CASE LargeSent(r)
  <2>1. /\ pc[r] = "large" /\ message[r].kind = "none" /\ merge'[r] = NoMerge
        /\ UNCHANGED <<buffer, stream, turn, ipcMeta>>
    BY <1>2, <1>7 DEF LargeSent, SocketFree, device
  <2>2. stream[r] = <<>>
    BY <2>1 DEF HandedInv, Handed
  <2> QED
    BY <1>1, <2>1, <2>2, CopiedAtRest
<1>8. ASSUME ReceiverStep(r), ~NextBucket(r), ~MergeChunk(r), ~PackWeight(r), ~Flushed(r),
             ~LargeSent(r)
      PROVE  UNCHANGED <<buffer, stream, turn, ipcMeta, merge>>
  BY <1>8 DEF ReceiverStep, SendHandle, ReceiveFirst, YieldView, BucketYielded, FlushIpc,
     SendLarge, FlushLast, LastSent, device
<1>9. CASE Join(r) \/ TakeMeta(r) \/ WorkerStep(r) \/ LoadRaises(r)
  BY <1>3, <1>9 DEF Join, TakeMeta, WorkerStep, MapBuffer, LoadBucket, LoadWeight,
     Acknowledge, LoadRaises, receiver, device
<1> QED
  BY <1>3, <1>4, <1>5, <1>6, <1>7, <1>8, <1>9, CopiedCopy, CopiedMerge, CopiedPack DEF Move

LEMMA CopiedStep ==
  ASSUME Typed, RootInv, RootCopied, LinkInv, ArrivedInv, PlaceInv, PackedInv, CopiedInv,
         HandedInv, [Next]_vars
  PROVE  CopiedInv'
<1> SUFFICES ASSUME NEW q \in Receivers
             PROVE  Copied(buffer'[q], stream'[q], turn'[q], ipcMeta'[q], merge'[q])
  BY DEF CopiedInv
<1>1. Copied(buffer[q], stream[q], turn[q], ipcMeta[q], merge[q])
  BY DEF CopiedInv
<1>2. CASE RootStep \/ UNCHANGED vars
  BY <1>1, <1>2, RootStepKeeps
<1>3. ASSUME NEW r \in Receivers, Move(r)
      PROVE  Copied(buffer'[q], stream'[q], turn'[q], ipcMeta'[q], merge'[q])
  <2>1. CASE q = r
    BY <1>3, <2>1, CopiedMove
  <2>2. CASE q # r
    BY <1>1, <1>3, <2>2, OthersKeep DEF Same
  <2> QED
    BY <2>1, <2>2
<1> QED
  BY <1>2, <1>3 DEF Next, Move

-----------------------------------------------------------------------------
(* What the worker of a receiver is handed.                                 *)
HandleMessage == [NoMessage EXCEPT !.kind = "handle"]
BucketMessage(m) == [NoMessage EXCEPT !.kind = "bucket", !.meta = m]
LastMessage(m) == [NoMessage EXCEPT !.kind = "bucket", !.meta = m, !.last = TRUE]
LargeMessage(m) == [NoMessage EXCEPT !.kind = "large", !.meta = m]

LEMMA MessageIs ==
  /\ NoMessage \in Messages /\ NoMessage.kind = "none"
  /\ HandleMessage \in Messages /\ HandleMessage.kind = "handle"
  /\ \A m \in Seq(Chunks) :
       /\ BucketMessage(m) \in Messages /\ BucketMessage(m).kind = "bucket"
       /\ BucketMessage(m).meta = m /\ BucketMessage(m).last = FALSE
       /\ LastMessage(m) \in Messages /\ LastMessage(m).kind = "bucket"
       /\ LastMessage(m).meta = m /\ LastMessage(m).last = TRUE
       /\ LargeMessage(m) \in Messages /\ LargeMessage(m).kind = "large"
       /\ LargeMessage(m).meta = m /\ LargeMessage(m).last = FALSE
<1>1. /\ NoMessage \in Messages /\ NoMessage.kind = "none" /\ NoMessage.last = FALSE
  BY DEF NoMessage, Messages
<1>2. ASSUME NEW m \in Seq(Chunks)
      PROVE  /\ BucketMessage(m) \in Messages /\ BucketMessage(m).kind = "bucket"
             /\ BucketMessage(m).meta = m /\ BucketMessage(m).last = FALSE
  BY <1>1 DEF Messages, BucketMessage
<1>3. ASSUME NEW m \in Seq(Chunks)
      PROVE  /\ LastMessage(m) \in Messages /\ LastMessage(m).kind = "bucket"
             /\ LastMessage(m).meta = m /\ LastMessage(m).last = TRUE
  BY <1>1 DEF Messages, LastMessage
<1>4. ASSUME NEW m \in Seq(Chunks)
      PROVE  /\ LargeMessage(m) \in Messages /\ LargeMessage(m).kind = "large"
             /\ LargeMessage(m).meta = m /\ LargeMessage(m).last = FALSE
  BY <1>1 DEF Messages, LargeMessage
<1>5. HandleMessage \in Messages /\ HandleMessage.kind = "handle"
  BY <1>1 DEF Messages, HandleMessage
<1> QED
  BY <1>1, <1>2, <1>3, <1>4, <1>5

(* A weight loaded from the IPC buffer of a device at rest.                 *)
HoldsUnits(units, f, z, w) == \A k \in 1 .. z : units[f + k] = Byte(w, k)

LEMMA UnitsAre ==
  ASSUME BucketSize \in Nat, NEW units \in [1 .. BucketSize -> Units], NEW f \in Nat,
         NEW z \in Nat, f + z <= BucketSize, NEW w, HoldsUnits(units, f, z, w)
  PROVE  SubSeq(units, f + 1, f + z) = Bytes(w, 0, z)
<1>1. PICK v : v = SubSeq(units, f + 1, f + z)
  OBVIOUS
<1>2. v \in Seq(Units) /\ Len(v) = z /\ \A i \in 1 .. z : v[i] = units[f + i]
  BY <1>1, ViewIs
<1>3. v \in [1 .. z -> Units]
  BY <1>2
<1>4. \A k \in 1 .. z : v[k] = Byte(w, 0 + k)
  BY <1>2 DEF HoldsUnits
<1>5. v = [k \in 1 .. z |-> Byte(w, 0 + k)]
  BY <1>3, <1>4
<1> QED
  BY <1>1, <1>5 DEF Bytes

LEMMA DeliveredAppend ==
  ASSUME NEW ws \in Seq(Nat \ {0}), NEW l \in Seq([weight: Nat, units: Seq(Units)]),
         Delivered(ws, l), NEW u \in Seq(Units), Len(l) + 1 \in 1 .. Len(ws),
         u = Bytes(Len(l) + 1, 0, ws[Len(l) + 1])
  PROVE  /\ Delivered(ws, Append(l, [weight |-> Len(l) + 1, units |-> u]))
         /\ Len(Append(l, [weight |-> Len(l) + 1, units |-> u])) = Len(l) + 1
         /\ Append(l, [weight |-> Len(l) + 1, units |-> u])
              \in Seq([weight: Nat, units: Seq(Units)])
<1>1. PICK e, n : e = [weight |-> Len(l) + 1, units |-> u] /\ n = Append(l, e)
  OBVIOUS
<1>2. Len(l) \in Nat /\ e \in [weight: Nat, units: Seq(Units)]
  BY <1>1
<1>3. /\ Len(n) = Len(l) + 1 /\ n[Len(l) + 1] = e /\ \A i \in 1 .. Len(l) : n[i] = l[i]
      /\ n \in Seq([weight: Nat, units: Seq(Units)])
  BY <1>1, <1>2
<1>4. ASSUME NEW i \in 1 .. Len(n)
      PROVE  n[i] = [weight |-> i, units |-> Bytes(i, 0, ws[i])]
  <2>1. CASE i = Len(l) + 1
    BY <1>1, <1>3, <2>1
  <2>2. CASE i # Len(l) + 1
    <3>1. i \in 1 .. Len(l) + 1
      BY <1>3
    <3>2. i \in 1 .. Len(l)
      BY <1>2, <2>2, <3>1
    <3> QED
      BY <1>3, <3>2 DEF Delivered
  <2> QED
    BY <2>1, <2>2
<1>5. Len(n) <= Len(ws)
  BY <1>3
<1>6. Delivered(ws, n)
  BY <1>4, <1>5 DEF Delivered
<1> QED
  BY <1>1, <1>3, <1>6

(* The worker loads its next weight.                                        *)
LEMMA LoadIs ==
  ASSUME Typed, RootInv, LinkInv, PlaceInv, PackedInv, CopiedInv, HandedInv,
         NEW r \in Receivers, LoadWeight(r)
  PROVE  LET d == Len(loaded[r]) IN
         /\ loaded'[r] = Append(loaded[r], [weight |-> d + 1,
                                            units |-> Bytes(d + 1, 0, weights[d + 1])])
         /\ Bytes(d + 1, 0, weights[d + 1]) \in Seq(Units)
         /\ d + 1 \in 1 .. Len(weights)
<1>1. PICK d, ld, ipc, msg, n, b, g, s :
        /\ d = Len(loaded[r]) /\ ld = loading[r] /\ ipc = ipcMeta[r] /\ msg = message[r]
        /\ n = WeightAt(r) /\ b = buffer[r] /\ g = merge[r] /\ s = stream[r]
  OBVIOUS
<1>2. /\ ld # <<>> /\ (msg.kind = "large" => s = <<>>)
      /\ LET m == Head(loading[r])
             units == IF message[r].kind = "large" THEN merge[r].units
                      ELSE SubSeq(buffer[r][Ipc], m.offset + 1, m.offset + m.size)
         IN loaded' = [loaded EXCEPT ![r] = Append(@, [weight |-> m.weight, units |-> units])]
  BY <1>1 DEF LoadWeight, Synchronized
<1>3. /\ ld \in Seq(Chunks) /\ ipc \in Seq(Chunks) /\ g \in Merges /\ d \in Nat
      /\ loaded \in [Receivers -> Seq([weight: Nat, units: Seq(Units)])]
      /\ b \in [1 .. 3 -> [1 .. BucketSize -> Units]] /\ BucketSize \in Nat
      /\ weights \in Seq(Nat \ {0}) /\ Len(weights) \in Nat
  <2>1. loaded[r] \in Seq([weight: Nat, units: Seq(Units)])
    BY Row
  <2>2. Len(loaded[r]) \in Nat
    BY <2>1
  <2>3. /\ loading[r] \in Seq(Chunks) /\ ipcMeta[r] \in Seq(Chunks) /\ merge[r] \in Merges
        /\ buffer[r] \in [1 .. 3 -> [1 .. BucketSize -> Units]]
    BY Row
  <2>4. loaded \in [Receivers -> Seq([weight: Nat, units: Seq(Units)])]
    BY DEF Typed
  <2> QED
    BY <1>1, <2>2, <2>3, <2>4, Sizes
<1>4. /\ Len(ld) \in Nat /\ Len(ld) > 0 /\ Len(ipc) \in Nat /\ Head(ld) = ld[1]
      /\ 1 \in 1 .. Len(ld)
  BY <1>2, <1>3
<1>5. Handed(pc[r], s, ipc, msg, worker[r], ld, n, d)
  BY <1>1 DEF HandedInv, WeightAt
<1>6. Copied(b, s, turn[r], ipc, g) /\ Packed(weights, ipc, n)
  BY <1>1 DEF CopiedInv, PackedInv, WeightAt
<1>7. n \in Nat
  BY <1>1, CursorMove DEF Move, WorkerStep
<1>8. PICK m, u : /\ m = ld[1]
                  /\ u = IF msg.kind = "large" THEN g.units
                         ELSE SubSeq(b[Ipc], m.offset + 1, m.offset + m.size)
  OBVIOUS
<1>9. loaded'[r] = Append(loaded[r], [weight |-> m.weight, units |-> u])
  BY <1>1, <1>2, <1>3, <1>4, <1>8
<1>10. pc[r] \in {"flushed", "last", "large"}
  BY <1>2, <1>5 DEF Handed, Typed
<1>11. CASE pc[r] \in {"flushed", "last"}
  <2>1. /\ s = <<>> /\ msg.kind = "bucket" /\ Len(ld) <= Len(ipc) /\ d + Len(ld) = n - 1
        /\ \A j \in 1 .. Len(ld) : ld[j] = ipc[Len(ipc) - Len(ld) + j]
    BY <1>2, <1>5, <1>11 DEF Handed
  <2>2. PICK i : i = Len(ipc) - Len(ld) + 1
    OBVIOUS
  <2>3. i \in 1 .. Len(ipc) /\ m = ipc[i]
    BY <1>4, <1>8, <2>1, <2>2
  <2>4. m \in Chunks
    BY <1>3, <2>3
  <2>5. m.weight \in Nat /\ m.offset \in Nat /\ m.size \in Nat
    BY <2>4 DEF Chunks
  <2>6. /\ m.weight + Len(ipc) = n - 1 + i /\ m.weight \in 1 .. Len(weights)
        /\ m.size = weights[m.weight] /\ m.offset + m.size <= Used(ipc)
        /\ Used(ipc) <= BucketSize /\ Used(ipc) \in Nat
    BY <1>6, <2>3 DEF Packed
  <2>7. m.weight = d + 1
    <3>1. PICK x, l, y : x = m.weight /\ l = Len(ipc) /\ y = Len(ld)
      OBVIOUS
    <3>2. /\ x \in Nat /\ l \in Nat /\ y \in Nat /\ x + l = n - 1 + i /\ i = l - y + 1
          /\ d + y = n - 1
      BY <1>4, <2>1, <2>2, <2>5, <2>6, <3>1
    <3>3. x = d + 1
      BY <1>3, <1>7, <3>2
    <3> QED
      BY <3>1, <3>3
  <2>8. \A k \in 1 .. m.size : b[Ipc][m.offset + k] = Byte(m.weight, k)
    BY <1>6, <2>1, <2>3, PendingNone DEF Copied
  <2>9. SubSeq(b[Ipc], m.offset + 1, m.offset + m.size) = Bytes(m.weight, 0, m.size)
    <3>1. PICK v, f, z, w : v = b[Ipc] /\ f = m.offset /\ z = m.size /\ w = m.weight
      OBVIOUS
    <3>2. v \in [1 .. BucketSize -> Units]
      <4>1. Ipc \in 1 .. 3
        BY DEF Ipc
      <4> QED
        BY <1>3, <3>1, <4>1
    <3>3. f \in Nat /\ z \in Nat /\ f + z <= BucketSize
      <4>1. PICK y : y = Used(ipc)
        OBVIOUS
      <4>2. /\ f \in Nat /\ z \in Nat /\ y \in Nat /\ BucketSize \in Nat
            /\ f + z <= y /\ y <= BucketSize
        BY <1>3, <2>5, <2>6, <3>1, <4>1
      <4> QED
        BY <4>2
    <3>4. SubSeq(v, f + 1, f + z) = Bytes(w, 0, z)
      <4>1. HoldsUnits(v, f, z, w)
        BY <2>8, <3>1 DEF HoldsUnits
      <4>2. BucketSize \in Nat
        BY <1>3
      <4> QED
        BY <3>2, <3>3, <4>1, <4>2, UnitsAre
    <3> QED
      BY <3>1, <3>4
  <2>10. u = Bytes(d + 1, 0, weights[d + 1])
    BY <1>8, <2>1, <2>6, <2>7, <2>9
  <2>11. Bytes(d + 1, 0, weights[d + 1]) \in Seq(Units)
    <3>1. weights[d + 1] \in Nat /\ d + 1 \in Nat /\ 0 \in Nat
      BY <1>3, <2>5, <2>6, <2>7
    <3> QED
      BY <3>1, BytesIs
  <2> QED
    BY <1>1, <1>9, <2>6, <2>7, <2>10, <2>11
<1>12. CASE pc[r] = "large"
  <2>1. /\ msg.kind = "large" /\ s = <<>> /\ ld[1].weight = n /\ d = n - 1
    BY <1>2, <1>5, <1>12 DEF Handed
  <2>2. PICK x : x = bucket[r].meta[at[r]]
    OBVIOUS
  <2>3. at[r] <= Len(bucket[r].meta) /\ g.weight = x.weight /\ g.offset = weights[g.weight]
    BY <1>1, <1>12, <2>2 DEF PlaceInv, Place
  <2>4. n = x.weight /\ ChunkOf(weights, x)
    <3>1. Cursor(weights, bucket[r].meta, at[r]) = At(Chunk(r)) /\ Chunk(r) = x
          /\ ChunkOf(weights, Chunk(r))
      BY <2>2, <2>3, ChunkAt
    <3> QED
      BY <1>1, <3>1 DEF WeightAt, At, Position
  <2>5. n \in 1 .. Len(weights) /\ g.weight = n
    BY <2>3, <2>4 DEF ChunkOf
  <2>6. g # NoMerge
    BY <2>5, NoMergeIs
  <2>7. PICK z : z = weights[n]
    OBVIOUS
  <2>8. z \in Nat /\ g.units \in [1 .. z -> Units] /\ g.offset = z
    BY <1>1, <2>3, <2>5, <2>6, <2>7, MergeFits
  <2>9. \A k \in 1 .. z : g.units[k] = Byte(n, 0 + k)
    <3>1. ASSUME NEW k \in 1 .. z
          PROVE  g.units[k] = Byte(n, k)
      BY <1>6, <2>1, <2>5, <2>6, <2>8, PendingNone DEF Copied
    <3> QED
      BY <2>8, <3>1
  <2>10. g.units = Bytes(n, 0, z)
    <3>1. g.units = [k \in 1 .. z |-> Byte(n, 0 + k)]
      BY <2>8, <2>9
    <3> QED
      BY <3>1 DEF Bytes
  <2>11. d + 1 = n
    BY <1>3, <1>7, <2>1
  <2>12. g.units \in Seq(Units)
    BY <1>3 DEF Merges
  <2> QED
    BY <1>1, <1>8, <1>9, <2>1, <2>5, <2>7, <2>10, <2>11, <2>12
<1> QED
  BY <1>10, <1>11, <1>12

(* What is left of a bucket of small weights while the worker loads it.      *)
LEMMA HandedLoading ==
  ASSUME NEW p \in {"flushed", "last"}, NEW ipc, NEW msg, NEW ld, NEW n, NEW d,
         msg.kind = "bucket", msg.last <=> p = "last",
         Len(ld) <= Len(ipc), d + Len(ld) = n - 1,
         \A j \in 1 .. Len(ld) : ld[j] = ipc[Len(ipc) - Len(ld) + j]
  PROVE  Handed(p, <<>>, ipc, msg, "loading", ld, n, d)
BY DEF Handed

LEMMA HandedMove ==
  ASSUME Typed, RootInv, LinkInv, PlaceInv, PackedInv, CopiedInv, HandedInv,
         NEW r \in Receivers, Move(r)
  PROVE  /\ Delivered(weights, loaded'[r])
         /\ Handed(pc'[r], stream'[r], ipcMeta'[r], message'[r], worker'[r], loading'[r],
                   WeightAt(r)', Len(loaded'[r]))
<1>1. /\ ipcMeta \in [Receivers -> Seq(Chunks)] /\ message \in [Receivers -> Messages]
      /\ worker \in [Receivers -> {"waiting", "loading", "closed", "done"}]
      /\ loading \in [Receivers -> Seq(Chunks)]
      /\ loaded \in [Receivers -> Seq([weight: Nat, units: Seq(Units)])]
      /\ pc \in [Receivers -> {"handle", "first", "await", "yield", "pack", "flushed",
                               "large", "flush", "last", "done"}]
      /\ stream \in [Nodes -> Seq(Copies)] /\ r \in Nodes
  BY DEF Typed, Nodes
<1>2. PICK d, ld, ipc, msg, n, s, p, w :
        /\ d = Len(loaded[r]) /\ ld = loading[r] /\ ipc = ipcMeta[r] /\ msg = message[r]
        /\ n = WeightAt(r) /\ s = stream[r] /\ p = pc[r] /\ w = worker[r]
  OBVIOUS
<1>3. Delivered(weights, loaded[r]) /\ Handed(p, s, ipc, msg, w, ld, n, d)
  BY <1>2 DEF HandedInv, WeightAt
<1>4. /\ n \in Nat
      /\ (PackWeight(r) \/ LargeSent(r)) => WeightAt(r)' = n + 1 /\ n = Chunk(r).weight
      /\ ~(PackWeight(r) \/ LargeSent(r)) => WeightAt(r)' = n
  BY <1>2, CursorMove
<1>5. /\ ipc \in Seq(Chunks) /\ Len(ipc) \in Nat /\ ld \in Seq(Chunks) /\ Len(ld) \in Nat
      /\ d \in Nat /\ msg \in Messages
  <2>1. /\ ipcMeta[r] \in Seq(Chunks) /\ loading[r] \in Seq(Chunks)
        /\ loaded[r] \in Seq([weight: Nat, units: Seq(Units)]) /\ message[r] \in Messages
    BY Row
  <2> QED
    BY <1>2, <2>1
<1>6. CASE SendHandle(r)
  <2>1. /\ UNCHANGED <<ipcMeta, worker, loading, loaded>> /\ p = "handle" /\ pc'[r] = "first"
        /\ message' = [message EXCEPT ![r] = HandleMessage] /\ WeightAt(r)' = n
    BY <1>1, <1>2, <1>4, <1>6 DEF SendHandle, Send, Goto, HandleMessage, workers, PackWeight,
       LargeSent
  <2>2. message'[r].kind = "handle"
    BY <1>1, <2>1, MessageIs
  <2> QED
    BY <1>2, <1>3, <2>1, <2>2 DEF Handed
<1>7. CASE ReceiveFirst(r)
  <2>1. /\ UNCHANGED <<ipcMeta, worker, loading, loaded, message>> /\ p = "first"
        /\ pc'[r] = "await" /\ msg.kind = "none" /\ WeightAt(r)' = n
    BY <1>1, <1>2, <1>4, <1>7 DEF ReceiveFirst, SocketFree, Goto, workers, PackWeight, LargeSent
  <2> QED
    BY <1>2, <1>3, <2>1 DEF Handed
<1>8. CASE NextBucket(r) \/ MergeChunk(r) \/ YieldView(r) \/ BucketYielded(r)
  <2>1. /\ UNCHANGED <<ipcMeta, worker, loading, loaded, message>> /\ p \in {"await", "yield"}
        /\ pc'[r] \in {"await", "yield", "pack", "flush"}
    BY <1>1, <1>2, <1>8 DEF NextBucket, MergeChunk, YieldView, BucketYielded, Goto, workers
  <2>2. ~PackWeight(r) /\ ~LargeSent(r)
    BY <1>2, <2>1 DEF PackWeight, LargeSent
  <2> QED
    BY <1>2, <1>3, <1>4, <2>1, <2>2 DEF Handed
<1>9. CASE FlushIpc(r)
  <2>1. /\ UNCHANGED <<ipcMeta, worker, loading, loaded, stream>> /\ p = "pack"
        /\ pc'[r] = "flushed" /\ s = <<>> /\ ~Fits(r)
        /\ message' = [message EXCEPT ![r] = BucketMessage(ipcMeta[r])]
    BY <1>1, <1>2, <1>9 DEF FlushIpc, Synchronized, Send, Goto, BucketMessage, workers, device
  <2>2. ~PackWeight(r) /\ ~LargeSent(r)
    BY <1>2, <2>1 DEF PackWeight, LargeSent
  <2>3. message'[r].kind = "bucket" /\ message'[r].meta = ipc /\ message'[r].last = FALSE
    BY <1>1, <1>2, <1>5, <2>1, MessageIs
  <2> QED
    BY <1>2, <1>3, <1>4, <2>1, <2>2, <2>3 DEF Handed
<1>10. CASE Flushed(r)
  <2>1. /\ UNCHANGED <<worker, loading, loaded, message>> /\ p = "flushed"
        /\ pc'[r] = "pack" /\ msg.kind = "none" /\ ipcMeta'[r] = <<>>
    BY <1>1, <1>2, <1>10 DEF Flushed, SocketFree, Goto, workers
  <2>2. ~PackWeight(r) /\ ~LargeSent(r)
    BY <1>2, <2>1 DEF PackWeight, LargeSent
  <2>3. Len(ipcMeta'[r]) = 0
    BY <2>1
  <2>4. w = "waiting" /\ ld = <<>> /\ d = n - 1
    BY <1>3, <2>1 DEF Handed
  <2>5. d + Len(ipcMeta'[r]) = n - 1
    BY <1>5, <2>3, <2>4
  <2> QED
    BY <1>2, <1>3, <1>4, <2>1, <2>2, <2>4, <2>5 DEF Handed
<1>11. CASE PackWeight(r)
  <2>1. /\ UNCHANGED <<worker, loading, loaded, message>> /\ p = "pack" /\ pc'[r] = "yield"
    BY <1>1, <1>2, <1>11 DEF PackWeight, Goto, workers
  <2>2. ipcMeta'[r] = Append(ipc, Weight(r)) /\ Weight(r) \in Chunks
    BY <1>2, <1>11, PackIs
  <2>3. Len(ipcMeta'[r]) = Len(ipc) + 1
    BY <1>5, <2>2
  <2>4. /\ d + Len(ipc) = n - 1 /\ msg.kind = "none" /\ w = "waiting" /\ ld = <<>>
    BY <1>3, <2>1 DEF Handed
  <2>5. d + Len(ipcMeta'[r]) = (n + 1) - 1
    BY <1>4, <1>5, <2>3, <2>4
  <2> QED
    BY <1>2, <1>3, <1>4, <1>11, <2>1, <2>4, <2>5 DEF Handed
<1>12. CASE SendLarge(r)
  <2>1. PICK m : m = <<[weight |-> merge[r].weight, from |-> 0, size |-> Size(r),
                        offset |-> 0]>>
    OBVIOUS
  <2>2. /\ UNCHANGED <<ipcMeta, worker, loading, loaded>> /\ p = "pack" /\ pc'[r] = "large"
        /\ ipc = <<>> /\ ~Fits(r)
        /\ message' = [message EXCEPT ![r] =
             LargeMessage(<<[weight |-> merge[r].weight, from |-> 0, size |-> Size(r),
                             offset |-> 0]>>)]
    BY <1>1, <1>2, <1>12 DEF SendLarge, Send, Goto, LargeMessage, workers
  <2>3. ~PackWeight(r) /\ ~LargeSent(r)
    BY <1>2, <2>2 DEF PackWeight, LargeSent
  <2>4. at[r] <= Len(bucket[r].meta)
    BY <1>2, <2>2 DEF PlaceInv, Place
  <2>5. /\ Chunk(r) = bucket[r].meta[at[r]] /\ Chunk(r) \in Chunks
        /\ ChunkOf(weights, Chunk(r)) /\ n = Chunk(r).weight
    <3>1. /\ Chunk(r) = bucket[r].meta[at[r]] /\ Chunk(r) \in Chunks
          /\ ChunkOf(weights, Chunk(r))
          /\ Cursor(weights, bucket[r].meta, at[r]) = At(Chunk(r))
      BY <2>4, ChunkAt
    <3> QED
      BY <1>2, <3>1 DEF WeightAt, At, Position
  <2>6. Size(r) \in Nat /\ BucketSize \in Nat /\ Chunk(r).weight \in Nat
    BY <2>5, ChunkIs, Sizes DEF Size
  <2>7. LargeOf(weights, Chunk(r))
    <3>1. Used(ipc) = 0
      BY <2>2 DEF Used
    <3>2. ~(0 + Size(r) <= BucketSize)
      BY <1>2, <2>2, <3>1 DEF Fits
    <3> QED
      BY <2>6, <3>2 DEF LargeOf, Size
  <2>8. merge[r].weight = n
    BY <1>2, <2>2, <2>5, <2>7 DEF PlaceInv, Place
  <2>9. m \in Seq(Chunks) /\ Len(m) = 1 /\ m[1].weight = n
    BY <2>1, <2>5, <2>6, <2>8 DEF Chunks
  <2>10. message'[r] = LargeMessage(m)
    BY <1>1, <2>1, <2>2
  <2>11. message'[r].kind = "large" /\ message'[r].meta = m /\ message'[r].last = FALSE
    BY <2>9, <2>10, MessageIs
  <2>12. w = "waiting" /\ ld = <<>> /\ d = n - 1
    <3>1. w = "waiting" /\ ld = <<>> /\ d + Len(ipc) = n - 1
      BY <1>3, <2>2 DEF Handed
    <3>2. Len(ipc) = 0
      BY <2>2
    <3> QED
      BY <1>5, <3>1, <3>2
  <2> QED
    BY <1>2, <1>3, <1>4, <2>2, <2>3, <2>9, <2>11, <2>12 DEF Handed
<1>13. CASE LargeSent(r)
  <2>1. /\ UNCHANGED <<ipcMeta, worker, loading, loaded, message>> /\ p = "large"
        /\ pc'[r] = "yield" /\ msg.kind = "none"
    BY <1>1, <1>2, <1>13 DEF LargeSent, SocketFree, Goto, workers
  <2>2. ipc = <<>>
    BY <1>2, <2>1 DEF PlaceInv, Place
  <2>3. w = "waiting" /\ ld = <<>> /\ d = n
    BY <1>3, <2>1 DEF Handed
  <2>4. d + Len(ipc) = (n + 1) - 1
    <3>1. Len(ipc) = 0
      BY <2>2
    <3> QED
      BY <1>4, <1>5, <2>3, <3>1
  <2> QED
    BY <1>2, <1>3, <1>4, <1>13, <2>1, <2>3, <2>4 DEF Handed
<1>14. CASE FlushLast(r)
  <2>1. /\ UNCHANGED <<ipcMeta, worker, loading, loaded, stream>> /\ p = "flush"
        /\ pc'[r] = "last" /\ s = <<>>
        /\ message' = [message EXCEPT ![r] = LastMessage(ipcMeta[r])]
    BY <1>1, <1>2, <1>14 DEF FlushLast, Synchronized, Send, Goto, LastMessage, workers, device
  <2>2. ~PackWeight(r) /\ ~LargeSent(r)
    BY <1>2, <2>1 DEF PackWeight, LargeSent
  <2>3. message'[r].kind = "bucket" /\ message'[r].meta = ipc /\ message'[r].last = TRUE
    BY <1>1, <1>2, <1>5, <2>1, MessageIs
  <2> QED
    BY <1>2, <1>3, <1>4, <2>1, <2>2, <2>3 DEF Handed
<1>15. CASE LastSent(r)
  <2>1. /\ UNCHANGED <<ipcMeta, worker, loading, loaded, message>> /\ p = "last"
        /\ pc'[r] = "done" /\ msg.kind = "none"
    BY <1>1, <1>2, <1>15 DEF LastSent, SocketFree, Goto, workers
  <2>2. ~PackWeight(r) /\ ~LargeSent(r)
    BY <1>2, <2>1 DEF PackWeight, LargeSent
  <2> QED
    BY <1>2, <1>3, <1>4, <2>1, <2>2 DEF Handed
<1>16. ASSUME UNCHANGED <<pc, ipcMeta, worker, loading, loaded, message>>,
              WeightAt(r)' = n, s = <<>> => stream'[r] = s
       PROVE  /\ Delivered(weights, loaded'[r])
              /\ Handed(pc'[r], stream'[r], ipcMeta'[r], message'[r], worker'[r], loading'[r],
                        WeightAt(r)', Len(loaded'[r]))
  BY <1>2, <1>3, <1>16 DEF Handed
<1>17. CASE Join(r) \/ TakeMeta(r) \/ Deliver(r)
  <2>1. UNCHANGED <<pc, ipcMeta, worker, loading, loaded, message, stream, bucket, at, weights>>
    BY <1>17 DEF Join, TakeMeta, Deliver, receiver, workers, device
  <2> QED
    BY <1>2, <1>16, <2>1 DEF WeightAt
<1>18. CASE Copy(r)
  <2>1. /\ UNCHANGED <<pc, ipcMeta, worker, loading, loaded, message, bucket, at, weights>>
        /\ s # <<>>
    BY <1>2, <1>18 DEF Copy, workers
  <2> QED
    BY <1>2, <1>16, <2>1 DEF WeightAt
<1>19. CASE WorkerStep(r) \/ LoadRaises(r)
  <2>1. /\ UNCHANGED <<pc, ipcMeta, stream, bucket, at, weights>> /\ WeightAt(r)' = n
    BY <1>2, <1>19 DEF WorkerStep, MapBuffer, LoadBucket, LoadWeight, Acknowledge, LoadRaises,
       receiver, device, WeightAt
  <2>2. CASE MapBuffer(r)
    <3>1. /\ w = "waiting" /\ msg.kind = "handle" /\ message' = [message EXCEPT ![r] = NoMessage]
          /\ UNCHANGED <<worker, loading, loaded>>
      BY <1>2, <2>2 DEF MapBuffer, Send, workers
    <3>2. message'[r].kind = "none"
      BY <1>1, <3>1, MessageIs
    <3> QED
      BY <1>2, <1>3, <2>1, <3>1, <3>2 DEF Handed
  <2>3. CASE LoadBucket(r)
    <3>1. /\ w = "waiting" /\ msg.kind \in {"bucket", "large"}
          /\ loading'[r] = msg.meta /\ worker'[r] = "loading" /\ UNCHANGED <<message, loaded>>
      BY <1>1, <1>2, <2>3 DEF LoadBucket
    <3>2. p \in {"flushed", "last", "large"}
      BY <1>3, <3>1 DEF Handed
    <3>3. CASE p \in {"flushed", "last"}
      <4>1. /\ s = <<>> /\ msg.kind = "bucket" /\ msg.meta = ipc /\ (msg.last <=> p = "last")
            /\ d + Len(ipc) = n - 1
        BY <1>3, <3>1, <3>3 DEF Handed
      <4>2. \A j \in 1 .. Len(ipc) : ipc[j] = ipc[Len(ipc) - Len(ipc) + j]
        BY <1>5
      <4>3. Len(ipc) <= Len(ipc)
        BY <1>5
      <4>4. Handed(p, <<>>, ipc, msg, "loading", ipc, n, d)
        BY <3>3, <4>1, <4>2, <4>3, HandedLoading
      <4>5. /\ pc'[r] = p /\ stream'[r] = <<>> /\ ipcMeta'[r] = ipc /\ message'[r] = msg
            /\ worker'[r] = "loading" /\ loading'[r] = ipc /\ loaded'[r] = loaded[r]
            /\ WeightAt(r)' = n /\ Len(loaded'[r]) = d
        BY <1>2, <2>1, <3>1, <4>1
      <4> QED
        BY <1>3, <4>4, <4>5
    <3>4. CASE p = "large"
      <4>1. /\ msg.kind = "large" /\ ~msg.last /\ Len(msg.meta) = 1 /\ msg.meta[1].weight = n
            /\ d = n - 1
        BY <1>3, <3>1, <3>4 DEF Handed
      <4> QED
        BY <1>2, <1>3, <2>1, <3>1, <3>4, <4>1 DEF Handed
    <3> QED
      BY <3>2, <3>3, <3>4
  <2>4. CASE LoadWeight(r)
    <3>1. /\ ld # <<>> /\ loading' = [loading EXCEPT ![r] = Tail(@)]
          /\ UNCHANGED <<message, worker>> /\ (msg.kind = "large" => s = <<>>)
      BY <1>2, <2>4 DEF LoadWeight, Synchronized
    <3>2. PICK t : t = Tail(ld)
      OBVIOUS
    <3>3. /\ loading'[r] = t /\ Len(t) = Len(ld) - 1 /\ Len(t) \in Nat
          /\ \A j \in 1 .. Len(t) : t[j] = ld[j + 1]
      BY <1>1, <1>2, <1>5, <3>1, <3>2, HeadTailProperties
    <3>4. PICK u : u = Bytes(d + 1, 0, weights[d + 1])
      OBVIOUS
    <3>5. /\ loaded'[r] = Append(loaded[r], [weight |-> d + 1, units |-> u])
          /\ u \in Seq(Units) /\ d + 1 \in 1 .. Len(weights)
      BY <1>2, <2>4, <3>4, LoadIs
    <3>6. Delivered(weights, loaded'[r]) /\ Len(loaded'[r]) = d + 1
      <4>1. weights \in Seq(Nat \ {0})
            /\ loaded[r] \in Seq([weight: Nat, units: Seq(Units)])
        BY Sizes, Row
      <4>2. PICK l : l = loaded[r]
        OBVIOUS
      <4>3. /\ l \in Seq([weight: Nat, units: Seq(Units)]) /\ Delivered(weights, l)
            /\ Len(l) + 1 \in 1 .. Len(weights)
            /\ u = Bytes(Len(l) + 1, 0, weights[Len(l) + 1])
        BY <1>2, <1>3, <3>4, <3>5, <4>1, <4>2
      <4>4. /\ Delivered(weights, Append(l, [weight |-> Len(l) + 1, units |-> u]))
            /\ Len(Append(l, [weight |-> Len(l) + 1, units |-> u])) = Len(l) + 1
        BY <3>5, <4>1, <4>3, DeliveredAppend
      <4> QED
        BY <1>2, <3>5, <4>2, <4>4
    <3>7. p \in {"flushed", "last", "large"}
      BY <1>3, <3>1 DEF Handed
    <3>8. CASE p \in {"flushed", "last"}
      <4>1. /\ s = <<>> /\ msg.kind = "bucket" /\ (msg.last <=> p = "last") /\ w = "loading"
            /\ Len(ld) <= Len(ipc) /\ d + Len(ld) = n - 1
            /\ \A j \in 1 .. Len(ld) : ld[j] = ipc[Len(ipc) - Len(ld) + j]
        BY <1>3, <3>1, <3>8 DEF Handed
      <4>2. Len(t) <= Len(ipc) /\ (d + 1) + Len(t) = n - 1
        BY <1>4, <1>5, <3>3, <4>1
      <4>3. ASSUME NEW j \in 1 .. Len(t)
            PROVE  t[j] = ipc[Len(ipc) - Len(t) + j]
        <5>1. j + 1 \in 1 .. Len(ld) /\ Len(ipc) - Len(ld) + (j + 1) = Len(ipc) - Len(t) + j
          BY <1>5, <3>3
        <5> QED
          BY <3>3, <4>1, <5>1
      <4>4. Handed(p, <<>>, ipc, msg, "loading", t, n, d + 1)
        BY <3>8, <4>1, <4>2, <4>3, HandedLoading
      <4>5. /\ pc'[r] = p /\ stream'[r] = <<>> /\ ipcMeta'[r] = ipc /\ message'[r] = msg
            /\ worker'[r] = "loading" /\ loading'[r] = t /\ WeightAt(r)' = n
        BY <1>2, <2>1, <3>1, <3>3, <4>1
      <4> QED
        BY <3>6, <4>4, <4>5
    <3>9. CASE p = "large"
      <4>1. /\ msg.kind = "large" /\ ~msg.last /\ w = "loading" /\ Len(ld) = 1 /\ d = n - 1
        BY <1>3, <3>1, <3>9 DEF Handed
      <4>2. t = <<>> /\ d + 1 = n /\ s = <<>>
        BY <1>4, <1>5, <3>1, <3>2, <3>3, <4>1
      <4> QED
        BY <1>2, <2>1, <3>1, <3>3, <3>6, <3>9, <4>1, <4>2 DEF Handed
    <3> QED
      BY <3>7, <3>8, <3>9
  <2>5. CASE Acknowledge(r)
    <3>1. /\ w = "loading" /\ ld = <<>> /\ UNCHANGED <<loading, loaded>>
          /\ message' = [message EXCEPT ![r] = NoMessage]
          /\ worker'[r] = IF msg.last THEN "done" ELSE "waiting"
      BY <1>1, <1>2, <2>5 DEF Acknowledge, Send
    <3>2. message'[r].kind = "none"
      BY <1>1, <3>1, MessageIs
    <3>3. Len(ld) = 0
      BY <3>1
    <3>4. p \in {"flushed", "last", "large"}
      BY <1>3, <3>1 DEF Handed
    <3>5. CASE p \in {"flushed", "last"}
      <4>1. s = <<>> /\ (msg.last <=> p = "last") /\ d + Len(ld) = n - 1
        BY <1>3, <3>1, <3>5 DEF Handed
      <4>2. d = n - 1
        BY <1>5, <3>3, <4>1
      <4> QED
        BY <1>2, <1>3, <2>1, <3>1, <3>2, <3>5, <4>1, <4>2 DEF Handed
    <3>6. CASE p = "large"
      <4>1. ~msg.last /\ d = n /\ s = <<>>
        BY <1>3, <3>1, <3>3, <3>6 DEF Handed
      <4> QED
        BY <1>2, <1>3, <2>1, <3>1, <3>2, <3>6, <4>1 DEF Handed
    <3> QED
      BY <3>4, <3>5, <3>6
  <2>6. CASE LoadRaises(r)
    <3>1. /\ w = "loading" /\ loading'[r] = <<>> /\ worker'[r] = "closed"
          /\ UNCHANGED <<message, loaded>>
      BY <1>1, <1>2, <2>6 DEF LoadRaises
    <3>2. p \in {"flushed", "last", "large"}
      BY <1>3, <3>1 DEF Handed
    <3> QED
      BY <1>2, <1>3, <2>1, <3>1, <3>2 DEF Handed
  <2> QED
    BY <1>19, <2>2, <2>3, <2>4, <2>5, <2>6 DEF WorkerStep
<1> QED
  BY <1>6, <1>7, <1>8, <1>9, <1>10, <1>11, <1>12, <1>13, <1>14, <1>15, <1>17, <1>18, <1>19
  DEF Move, ReceiverStep

LEMMA HandedStep ==
  ASSUME Typed, RootInv, RootCopied, LinkInv, PlaceInv, PackedInv, CopiedInv, HandedInv,
         [Next]_vars
  PROVE  HandedInv'
<1> SUFFICES ASSUME NEW q \in Receivers
             PROVE  /\ Delivered(weights', loaded'[q])
                    /\ Handed(pc'[q], stream'[q], ipcMeta'[q], message'[q], worker'[q],
                              loading'[q], WeightAt(q)', Len(loaded'[q]))
  BY DEF HandedInv, WeightAt
<1>1. /\ Delivered(weights, loaded[q])
      /\ Handed(pc[q], stream[q], ipcMeta[q], message[q], worker[q], loading[q], WeightAt(q),
                Len(loaded[q]))
  BY DEF HandedInv, WeightAt
<1>2. CASE RootStep \/ UNCHANGED vars
  BY <1>1, <1>2, RootStepKeeps DEF WeightAt
<1>3. ASSUME NEW r \in Receivers, Move(r)
      PROVE  /\ Delivered(weights', loaded'[q])
             /\ Handed(pc'[q], stream'[q], ipcMeta'[q], message'[q], worker'[q], loading'[q],
                       WeightAt(q)', Len(loaded'[q]))
  <2>1. weights' = weights
    BY <1>3, RootKeeps
  <2>2. CASE q = r
    BY <1>3, <2>1, <2>2, HandedMove
  <2>3. CASE q # r
    BY <1>1, <1>3, <2>1, <2>3, OthersKeep DEF Same, WeightAt
  <2> QED
    BY <2>2, <2>3
<1> QED
  BY <1>2, <1>3 DEF Next, Move


-----------------------------------------------------------------------------
(* Types.                                                                   *)
LEMMA RefillIs ==
  ASSUME Typed, NEW n \in Nodes, NEW b \in 1 .. 3, NEW u \in [1 .. BucketSize -> Units]
  PROVE  [buffer EXCEPT ![n][b] = u] \in [Nodes -> [1 .. 3 -> [1 .. BucketSize -> Units]]]
BY DEF Typed

LEMMA EnqueueIs ==
  ASSUME Typed, NEW n \in Nodes, NEW c \in Copies
  PROVE  [stream EXCEPT ![n] = Append(@, c)] \in [Nodes -> Seq(Copies)]
<1>1. stream[n] \in Seq(Copies)
  BY DEF Typed
<1>2. Append(stream[n], c) \in Seq(Copies)
  BY <1>1
<1> QED
  BY <1>2 DEF Typed

LEMMA TailIs ==
  ASSUME NEW S, NEW s \in Seq(S), s # <<>>
  PROVE  Tail(s) \in Seq(S) /\ Head(s) \in S
BY HeadTailProperties

LEMMA DequeueIs ==
  ASSUME Typed, NEW n \in Nodes, stream[n] # <<>>
  PROVE  [stream EXCEPT ![n] = Tail(@)] \in [Nodes -> Seq(Copies)]
<1>1. stream[n] \in Seq(Copies)
  BY DEF Typed
<1>2. Tail(stream[n]) \in Seq(Copies)
  BY <1>1, TailIs
<1> QED
  BY <1>2 DEF Typed

(* A copy enqueued on a receiver.                                           *)
CopyFrom(t, f, z, d, o) == [src |-> t, from |-> f, size |-> z, dst |-> d, to |-> o]

LEMMA CopyFromIs ==
  ASSUME NEW t \in 1 .. 2, NEW f \in Nat, NEW z \in Nat, NEW d \in {Merged, Ipc}, NEW o \in Nat
  PROVE  CopyFrom(t, f, z, d, o) \in Copies
BY DEF CopyFrom, Copies, ReceiverCopies

LEMMA TypedRoot ==
  ASSUME Typed, RootInv, RootCopied, RootStep
  PROVE  Typed'
<1>1. CASE PutChunk
  <2>1. /\ NextChunk \in Chunks /\ ChunkOf(weights, NextChunk)
        /\ split' = After(weights, NextChunk) /\ meta' = Append(meta, NextChunk)
    BY <1>1, PutIs
  <2>2. meta' \in Seq(Chunks)
    BY <2>1 DEF Typed
  <2>3. split' \in [weight: Nat, offset: Nat]
    BY <2>1 DEF After, Position, Chunks
  <2>4. stream' \in [Nodes -> Seq(Copies)]
    <3>1. stream' = [stream EXCEPT ![Root] = Append(@, CopyOf(NextChunk, fill))]
      BY <1>1 DEF PutChunk, CopyOf, NextChunk
    <3>2. CopyOf(NextChunk, fill) \in Copies
      BY <2>1 DEF CopyOf, Chunks, Copies, RootCopies, Typed
    <3>3. Root \in Nodes
      BY DEF Nodes
    <3> QED
      BY <3>1, <3>2, <3>3, EnqueueIs
  <2> QED
    BY <1>1, <2>2, <2>3, <2>4 DEF PutChunk, Typed, topic, receiver, workers
<1>2. CASE StartBroadcast
  <2>1. rootOp' \in Ops
    BY <1>2 DEF StartBroadcast, Typed, Ops
  <2>2. fill' \in 1 .. 2
    BY <1>2, OtherIs DEF StartBroadcast, Typed
  <2>3. meta' \in Seq(Chunks) /\ got' \subseteq Receivers /\ root' \in {"fill", "last"}
    BY <1>2 DEF StartBroadcast
  <2> QED
    BY <1>2, <2>1, <2>2, <2>3 DEF StartBroadcast, Typed, topic, device, receiver, workers
<1>3. CASE Publish
  <2>1. rootOp' \in Ops
    BY <1>3 DEF Publish, Typed, Ops
  <2>2. [meta |-> rootOp.meta, last |-> rootOp.last] \in Buckets
    BY DEF Typed, Ops, Buckets
  <2>3. inbox' \in [Receivers -> Seq(Buckets)]
    <3>1. \A r \in Receivers :
            /\ inbox[r] \in Seq(Buckets)
            /\ Append(inbox[r], [meta |-> rootOp.meta, last |-> rootOp.last]) \in Seq(Buckets)
      BY <2>2 DEF Typed
    <3> QED
      BY <1>3, <3>1 DEF Publish
  <2>4. lost' \in BOOLEAN
    BY <1>3 DEF Publish, Typed
  <2> QED
    BY <1>3, <2>1, <2>3, <2>4 DEF Publish, Typed, device, receiver, workers
<1>4. CASE Copy(Root)
  <2>1. /\ Oldest \in Chunks /\ ChunkOf(weights, Oldest)
        /\ buffer' = [buffer EXCEPT ![Root][fill] =
                        Overwrite(@, Oldest.offset,
                                  Bytes(Oldest.weight, Oldest.from, Oldest.size))]
        /\ stream' = [stream EXCEPT ![Root] = Tail(@)] /\ merge' = merge
        /\ stream[Root] # <<>>
    BY <1>4, RootCopyIs
  <2>2. Root \in Nodes /\ fill \in 1 .. 3 /\ buffer[Root][fill] \in [1 .. BucketSize -> Units]
    BY DEF Nodes, Typed
  <2>3. Bytes(Oldest.weight, Oldest.from, Oldest.size) \in Seq(Units)
    BY <2>1, BytesIs DEF Chunks
  <2>4. BucketSize \in Nat /\ Oldest.offset \in Nat
    BY <2>1, Sizes DEF Chunks
  <2>5. Overwrite(buffer[Root][fill], Oldest.offset,
                  Bytes(Oldest.weight, Oldest.from, Oldest.size))
          \in [1 .. BucketSize -> Units]
    BY <2>2, <2>3, <2>4, OverwriteIs
  <2>6. buffer' \in [Nodes -> [1 .. 3 -> [1 .. BucketSize -> Units]]]
    BY <2>1, <2>2, <2>5, RefillIs
  <2>7. stream' \in [Nodes -> Seq(Copies)]
    BY <2>1, <2>2, DequeueIs
  <2> QED
    BY <1>4, <2>1, <2>6, <2>7 DEF Copy, Typed, rootVars, topic, workers
<1> QED
  BY <1>1, <1>2, <1>3, <1>4 DEF RootStep

LEMMA TypedReceiver ==
  ASSUME Typed, RootInv, LinkInv, PlaceInv, CopiedInv, NEW r \in Receivers, ReceiverStep(r)
  PROVE  Typed'
<1>1. /\ op[r] \in Ops /\ bucket[r] \in Buckets /\ turn[r] \in 1 .. 2 /\ at[r] \in Nat
      /\ ipcMeta[r] \in Seq(Chunks) /\ merge[r] \in Merges /\ op[r].buf \in 1 .. 2
      /\ r \in Nodes /\ op[r].meta \in Seq(Chunks)
  BY Row
<1>2. ASSUME NEW x \in Labels
      PROVE  [pc EXCEPT ![r] = x] \in [Receivers -> Labels]
  BY DEF Typed, Labels
<1>3. ASSUME NEW m \in Messages
      PROVE  [message EXCEPT ![r] = m] \in [Receivers -> Messages]
  BY DEF Typed
<1>4. ASSUME NEW o \in Ops
      PROVE  [op EXCEPT ![r] = o] \in [Receivers -> Ops]
  BY DEF Typed
<1>5. [at EXCEPT ![r] = @ + 1] \in [Receivers -> Nat]
  BY <1>1 DEF Typed
<1>6. ASSUME NEW l, Goto(r, l), l \in Labels
      PROVE  pc' \in [Receivers -> Labels]
  BY <1>2, <1>6 DEF Goto
<1>7. CASE SendHandle(r)
  <2>1. pc' \in [Receivers -> Labels]
    BY <1>6, <1>7 DEF SendHandle, Labels
  <2>2. message' = [message EXCEPT ![r] = HandleMessage]
    BY <1>7 DEF SendHandle, Send, HandleMessage
  <2>3. message' \in [Receivers -> Messages]
    BY <1>3, <2>2, MessageIs
  <2> QED
    BY <1>7, <2>1, <2>3 DEF SendHandle, Typed, Labels, rootVars, topic, device, workers
<1>8. CASE ReceiveFirst(r)
  <2>1. pc' \in [Receivers -> Labels]
    BY <1>6, <1>8 DEF ReceiveFirst, Labels
  <2>2. op' = [op EXCEPT ![r] = Started(Other(turn[r]))]
    BY <1>8 DEF ReceiveFirst, StartReceive, Started
  <2>3. op' \in [Receivers -> Ops]
    BY <1>1, <1>4, <2>2, NoOpIs, OtherIs
  <2> QED
    BY <1>8, <2>1, <2>3 DEF ReceiveFirst, Typed, Labels, rootVars, topic, device, workers
<1>9. CASE NextBucket(r)
  <2>1. pc' \in [Receivers -> Labels]
    BY <1>6, <1>9 DEF NextBucket, Labels
  <2>2. op' = [op EXCEPT ![r] = NoOp] \/ op' = [op EXCEPT ![r] = Started(Other(op[r].buf))]
    BY <1>9 DEF NextBucket, StartReceive, Started
  <2>3. op' \in [Receivers -> Ops]
    BY <1>1, <1>4, <2>2, NoOpIs, OtherIs
  <2>4. bucket' \in [Receivers -> Buckets]
    <3>1. [meta |-> op[r].meta, last |-> op[r].last] \in Buckets
      BY <1>1 DEF Ops, Buckets
    <3> QED
      BY <1>9, <3>1 DEF NextBucket, Typed
  <2>5. turn' \in [Receivers -> 1 .. 2] /\ at' \in [Receivers -> Nat]
    BY <1>1, <1>9 DEF NextBucket, Typed
  <2> QED
    BY <1>9, <2>1, <2>3, <2>4, <2>5 DEF NextBucket, Typed, Labels, rootVars, topic, device, workers
<1>10. CASE MergeChunk(r)
  <2>1. PICK c : c = Chunk(r)
    OBVIOUS
  <2>2. /\ at[r] <= Len(bucket[r].meta) /\ merge'[r] \in Merges
        /\ stream' = [stream EXCEPT ![r] =
               Append(@, CopyFrom(turn[r], c.offset, c.size, Merged, c.from))]
        /\ \/ pc' = [pc EXCEPT ![r] = "pack"] /\ UNCHANGED at
           \/ at' = [at EXCEPT ![r] = @ + 1] /\ UNCHANGED pc
    <3>1. /\ at[r] <= Len(bucket[r].meta) /\ merge'[r] \in Merges
          /\ stream' = [stream EXCEPT ![r] =
                Append(@, [src |-> turn[r], from |-> Chunk(r).offset, size |-> Chunk(r).size,
                           dst |-> Merged, to |-> Chunk(r).from])]
          /\ IF Ends(Chunk(r))
               THEN pc' = [pc EXCEPT ![r] = "pack"] /\ UNCHANGED at
               ELSE at' = [at EXCEPT ![r] = @ + 1] /\ UNCHANGED pc
      BY <1>10, MergeIs
    <3> QED
      BY <2>1, <3>1 DEF CopyFrom
  <2>3. c \in Chunks
    BY <2>1, <2>2, ChunkAt
  <2>4. CopyFrom(turn[r], c.offset, c.size, Merged, c.from) \in Copies
    BY <1>1, <2>3, CopyFromIs DEF Chunks
  <2>5. stream' \in [Nodes -> Seq(Copies)]
    BY <1>1, <2>2, <2>4, EnqueueIs
  <2>6. pc' \in [Receivers -> Labels]
    BY <1>2, <2>2 DEF Typed, Labels
  <2>7. at' \in [Receivers -> Nat]
    BY <1>5, <2>2 DEF Typed
  <2>8. merge' \in [Receivers -> Merges]
    <3>1. \E g : merge' = [merge EXCEPT ![r] = g]
      <4>1. \/ merge' = [merge EXCEPT ![r] = [weight |-> Chunk(r).weight,
                                              offset |-> Chunk(r).size,
                                              units |-> Blank(weights[Chunk(r).weight])]]
            \/ merge' = [merge EXCEPT ![r].offset = @ + Chunk(r).size]
        BY <1>10 DEF MergeChunk
      <4> QED
        BY <4>1
    <3> QED
      BY <2>2, <3>1 DEF Typed
  <2> QED
    BY <1>10, <2>5, <2>6, <2>7, <2>8 DEF MergeChunk, Typed, Labels, rootVars, topic, workers
<1>11. CASE YieldView(r)
  <2>1. pc' \in [Receivers -> Labels]
    BY <1>6, <1>11 DEF YieldView, Labels
  <2> QED
    BY <1>11, <2>1 DEF YieldView, Typed, Labels, rootVars, topic, device, workers
<1>12. CASE BucketYielded(r)
  <2>1. pc' \in [Receivers -> Labels]
    BY <1>6, <1>12 DEF BucketYielded, Labels
  <2> QED
    BY <1>12, <2>1 DEF BucketYielded, Typed, Labels, rootVars, topic, device, workers
<1>13. CASE FlushIpc(r)
  <2>1. pc' \in [Receivers -> Labels]
    BY <1>6, <1>13 DEF FlushIpc, Labels
  <2>2. message' = [message EXCEPT ![r] = BucketMessage(ipcMeta[r])]
    BY <1>13 DEF FlushIpc, Send, BucketMessage
  <2>3. message' \in [Receivers -> Messages]
    BY <1>1, <1>3, <2>2, MessageIs
  <2> QED
    BY <1>13, <2>1, <2>3 DEF FlushIpc, Typed, Labels, rootVars, topic, device, workers
<1>14. CASE Flushed(r)
  <2>1. pc' \in [Receivers -> Labels]
    BY <1>6, <1>14 DEF Flushed, Labels
  <2>2. ipcMeta' \in [Receivers -> Seq(Chunks)]
    BY <1>14 DEF Flushed, Typed
  <2> QED
    BY <1>14, <2>1, <2>2 DEF Flushed, Typed, Labels, rootVars, topic, device, workers
<1>15. CASE PackWeight(r)
  <2>1. pc' \in [Receivers -> Labels]
    BY <1>6, <1>15 DEF PackWeight, Labels
  <2>2. /\ Weight(r) \in Chunks /\ Used(ipcMeta[r]) \in Nat /\ Size(r) \in Nat
        /\ Chunk(r) \in Chunks
    BY <1>15, PackIs
  <2>3. ipcMeta' \in [Receivers -> Seq(Chunks)]
    <3>1. ipcMeta' = [ipcMeta EXCEPT ![r] = Append(ipcMeta[r], Weight(r))]
      BY <1>15 DEF PackWeight, Weight
    <3>2. Append(ipcMeta[r], Weight(r)) \in Seq(Chunks)
      BY <1>1, <2>2
    <3> QED
      BY <3>1, <3>2 DEF Typed
  <2>4. stream' = [stream EXCEPT ![r] =
             Append(@, CopyFrom(turn[r], Chunk(r).offset, Size(r), Ipc, Used(ipcMeta[r])))]
    BY <1>15 DEF PackWeight, CopyFrom
  <2>5. CopyFrom(turn[r], Chunk(r).offset, Size(r), Ipc, Used(ipcMeta[r])) \in Copies
    BY <1>1, <2>2, CopyFromIs DEF Chunks
  <2>6. stream' \in [Nodes -> Seq(Copies)]
    BY <1>1, <2>4, <2>5, EnqueueIs
  <2>7. at' \in [Receivers -> Nat]
    BY <1>5, <1>15 DEF PackWeight
  <2> QED
    BY <1>15, <2>1, <2>3, <2>6, <2>7 DEF PackWeight, Typed, Labels, rootVars, topic, workers
<1>16. CASE SendLarge(r)
  <2>1. pc' \in [Receivers -> Labels]
    BY <1>6, <1>16 DEF SendLarge, Labels
  <2>2. PICK m : m = <<[weight |-> merge[r].weight, from |-> 0, size |-> Size(r),
                        offset |-> 0]>>
    OBVIOUS
  <2>3. message' = [message EXCEPT ![r] = LargeMessage(m)]
    BY <1>16, <2>2 DEF SendLarge, Send, LargeMessage
  <2>4. Size(r) \in Nat
    <3>1. at[r] <= Len(bucket[r].meta)
      BY <1>16 DEF SendLarge, PlaceInv, Place
    <3>2. Chunk(r) \in Chunks /\ ChunkOf(weights, Chunk(r))
      BY <3>1, ChunkAt
    <3> QED
      BY <3>2, ChunkIs, Sizes DEF Size
  <2>5. m \in Seq(Chunks)
    BY <1>1, <2>2, <2>4 DEF Chunks, Merges
  <2>6. message' \in [Receivers -> Messages]
    BY <1>3, <2>3, <2>5, MessageIs
  <2> QED
    BY <1>16, <2>1, <2>6 DEF SendLarge, Typed, Labels, rootVars, topic, device, workers
<1>17. CASE LargeSent(r)
  <2>1. pc' \in [Receivers -> Labels]
    BY <1>6, <1>17 DEF LargeSent, Labels
  <2>2. merge' \in [Receivers -> Merges]
    <3>1. NoMerge \in Merges
      BY DEF NoMerge, Merges
    <3> QED
      BY <1>17, <3>1 DEF LargeSent, Typed
  <2>3. at' \in [Receivers -> Nat]
    BY <1>5, <1>17 DEF LargeSent
  <2> QED
    BY <1>17, <2>1, <2>2, <2>3 DEF LargeSent, Typed, Labels, rootVars, topic, device, workers
<1>18. CASE FlushLast(r)
  <2>1. pc' \in [Receivers -> Labels]
    BY <1>6, <1>18 DEF FlushLast, Labels
  <2>2. message' = [message EXCEPT ![r] = LastMessage(ipcMeta[r])]
    BY <1>18 DEF FlushLast, Send, LastMessage
  <2>3. message' \in [Receivers -> Messages]
    BY <1>1, <1>3, <2>2, MessageIs
  <2> QED
    BY <1>18, <2>1, <2>3 DEF FlushLast, Typed, Labels, rootVars, topic, device, workers
<1>19. CASE LastSent(r)
  <2>1. pc' \in [Receivers -> Labels]
    BY <1>6, <1>19 DEF LastSent, Labels
  <2> QED
    BY <1>19, <2>1 DEF LastSent, Typed, Labels, rootVars, topic, device, workers
<1> QED
  BY <1>7, <1>8, <1>9, <1>10, <1>11, <1>12, <1>13, <1>14, <1>15, <1>16, <1>17, <1>18, <1>19
  DEF ReceiverStep

LEMMA TypedWorker ==
  ASSUME Typed, RootInv, LinkInv, PlaceInv, PackedInv, CopiedInv, HandedInv,
         NEW r \in Receivers, WorkerStep(r) \/ LoadRaises(r)
  PROVE  Typed'
<1>1. /\ message[r] \in Messages /\ message[r].meta \in Seq(Chunks)
      /\ loading[r] \in Seq(Chunks) /\ loaded[r] \in Seq([weight: Nat, units: Seq(Units)])
      /\ NoMessage \in Messages
  BY Row, MessageIs
<1>2. CASE MapBuffer(r)
  <2>1. message' \in [Receivers -> Messages]
    BY <1>1, <1>2 DEF MapBuffer, Send, Typed
  <2> QED
    BY <1>2, <2>1 DEF MapBuffer, Typed, rootVars, topic, device, receiver, workers
<1>3. CASE LoadBucket(r)
  <2>1. loading' \in [Receivers -> Seq(Chunks)]
    BY <1>1, <1>3 DEF LoadBucket, Typed
  <2>2. worker' \in [Receivers -> {"waiting", "loading", "closed", "done"}]
    BY <1>3 DEF LoadBucket, Typed
  <2> QED
    BY <1>3, <2>1, <2>2 DEF LoadBucket, Typed, rootVars, topic, device, receiver
<1>4. CASE LoadWeight(r)
  <2>1. PICK l, d, u : /\ l = loaded[r] /\ d = Len(l) /\ u = Bytes(d + 1, 0, weights[d + 1])
    OBVIOUS
  <2>2. /\ loaded'[r] = Append(l, [weight |-> d + 1, units |-> u]) /\ u \in Seq(Units)
    BY <1>4, <2>1, LoadIs
  <2>3. d \in Nat /\ l \in Seq([weight: Nat, units: Seq(Units)])
    BY <1>1, <2>1
  <2>4. loaded'[r] \in Seq([weight: Nat, units: Seq(Units)])
    <3>1. [weight |-> d + 1, units |-> u] \in [weight: Nat, units: Seq(Units)]
      BY <2>2, <2>3
    <3> QED
      BY <2>2, <2>3, <3>1
  <2>5. loaded' \in [Receivers -> Seq([weight: Nat, units: Seq(Units)])]
    <3>1. \E n : loaded' = [loaded EXCEPT ![r] = n]
      BY <1>4 DEF LoadWeight
    <3> QED
      BY <2>4, <3>1 DEF Typed
  <2>6. loading' \in [Receivers -> Seq(Chunks)]
    <3>1. loading[r] # <<>> /\ loading' = [loading EXCEPT ![r] = Tail(@)]
      BY <1>4 DEF LoadWeight
    <3>2. Tail(loading[r]) \in Seq(Chunks)
      BY <1>1, <3>1, TailIs
    <3> QED
      BY <3>1, <3>2 DEF Typed
  <2> QED
    BY <1>4, <2>5, <2>6 DEF LoadWeight, Typed, rootVars, topic, device, receiver
<1>5. CASE Acknowledge(r)
  <2>1. message' \in [Receivers -> Messages]
    BY <1>1, <1>5 DEF Acknowledge, Send, Typed
  <2>2. worker' \in [Receivers -> {"waiting", "loading", "closed", "done"}]
    BY <1>5 DEF Acknowledge, Typed
  <2> QED
    BY <1>5, <2>1, <2>2 DEF Acknowledge, Typed, rootVars, topic, device, receiver
<1>6. CASE LoadRaises(r)
  <2>1. worker' \in [Receivers -> {"waiting", "loading", "closed", "done"}]
    BY <1>6 DEF LoadRaises, Typed
  <2>2. loading' \in [Receivers -> Seq(Chunks)]
    BY <1>6 DEF LoadRaises, Typed
  <2>3. raises' \in 0 .. MaxRaises
    BY <1>6, TransferConstants DEF LoadRaises, Typed
  <2> QED
    BY <1>6, <2>1, <2>2, <2>3 DEF LoadRaises, Typed, rootVars, topic, device, receiver
<1> QED
  BY <1>2, <1>3, <1>4, <1>5, <1>6 DEF WorkerStep

LEMMA TypedCopy ==
  ASSUME Typed, RootInv, LinkInv, PlaceInv, CopiedInv, NEW r \in Receivers, Copy(r)
  PROVE  Typed'
<1>1. PICK c, new : c = stream[r][1] /\ new = Source(r, c)
  OBVIOUS
<1>2. /\ stream[r] # <<>> /\ c.dst \in {Merged, Ipc}
      /\ stream' = [stream EXCEPT ![r] = Tail(@)]
      /\ c.dst = Merged => /\ merge' = [merge EXCEPT ![r].units = Overwrite(@, c.to, new)]
                           /\ buffer' = buffer
      /\ c.dst = Ipc => /\ buffer' = [buffer EXCEPT ![r][Ipc] = Overwrite(@, c.to, new)]
                        /\ merge' = merge
  BY <1>1, CopyIs
<1>3. /\ new \in Seq(Units) /\ c \in ReceiverCopies
      /\ Fetches(buffer[r], turn[r], ipcMeta[r], merge[r], c)
  BY <1>1, <1>2, ReceiverCopyIs
<1>4. c.to \in Nat /\ r \in Nodes /\ merge[r] \in Merges /\ BucketSize \in Nat
      /\ buffer[r][Ipc] \in [1 .. BucketSize -> Units] /\ Ipc \in 1 .. 3
  BY <1>3, Row, Sizes DEF ReceiverCopies, Ipc
<1>5. stream' \in [Nodes -> Seq(Copies)]
  BY <1>2, <1>4, DequeueIs
<1>6. CASE c.dst = Ipc
  <2>1. Overwrite(buffer[r][Ipc], c.to, new) \in [1 .. BucketSize -> Units]
    BY <1>3, <1>4, OverwriteIs
  <2>2. buffer' \in [Nodes -> [1 .. 3 -> [1 .. BucketSize -> Units]]]
    <3>1. buffer' = [buffer EXCEPT ![r][Ipc] = Overwrite(buffer[r][Ipc], c.to, new)]
      BY <1>2, <1>6
    <3> QED
      BY <1>4, <2>1, <3>1, RefillIs
  <2> QED
    BY <1>2, <1>5, <1>6, <2>2 DEF Copy, Typed, rootVars, topic, workers
<1>7. CASE c.dst = Merged
  <2>1. merge[r] # NoMerge
    BY <1>3, <1>7 DEF Fetches
  <2>2. PICK n : n = weights[merge[r].weight]
    OBVIOUS
  <2>3. n \in Nat /\ merge[r].units \in [1 .. n -> Units]
    BY <2>1, <2>2, MergeFits
  <2>4. Overwrite(merge[r].units, c.to, new) \in Seq(Units)
    <3>1. Overwrite(merge[r].units, c.to, new) \in [1 .. n -> Units]
      BY <1>3, <1>4, <2>3, OverwriteIs
    <3> QED
      BY <2>3, <3>1
  <2>5. merge' \in [Receivers -> Merges]
    <3>1. merge' = [merge EXCEPT ![r].units = Overwrite(merge[r].units, c.to, new)]
      BY <1>2, <1>7
    <3> QED
      BY <1>4, <2>4, <3>1 DEF Merges, Typed
  <2> QED
    BY <1>2, <1>5, <1>7, <2>5 DEF Copy, Typed, rootVars, topic, workers
<1> QED
  BY <1>2, <1>6, <1>7

LEMMA TypedStep ==
  ASSUME Typed, RootInv, RootCopied, LinkInv, PlaceInv, PackedInv, CopiedInv, HandedInv,
         [Next]_vars
  PROVE  Typed'
<1>1. CASE UNCHANGED vars
  BY <1>1 DEF vars, Typed, rootVars, topic, device, receiver, workers
<1>2. ASSUME NEW r \in Receivers, Move(r)
      PROVE  Typed'
  <2>1. /\ r \in Nodes /\ Root \in Nodes /\ op[r] \in Ops /\ inbox[r] \in Seq(Buckets)
        /\ op[r].buf \in 1 .. 2
    BY Row
  <2>2. CASE Join(r)
    <3>1. joined' \subseteq Receivers
      BY <2>2 DEF Join, Typed
    <3> QED
      BY <2>2, <3>1 DEF Join, Typed, rootVars, device, receiver, workers
  <2>3. CASE TakeMeta(r)
    <3>1. PICK b : b = Head(inbox[r])
      OBVIOUS
    <3>2. inbox[r] # <<>>
      BY <2>3 DEF TakeMeta
    <3>3. b \in Buckets /\ Tail(inbox[r]) \in Seq(Buckets)
      BY <2>1, <3>1, <3>2, TailIs
    <3>4. inbox' \in [Receivers -> Seq(Buckets)]
      BY <2>3, <3>3 DEF TakeMeta, Typed
    <3>5. op' = [op EXCEPT ![r].state = "cast", ![r].meta = b.meta, ![r].last = b.last]
      BY <2>3, <3>1 DEF TakeMeta
    <3>6. op' \in [Receivers -> Ops]
      BY <2>1, <3>3, <3>5 DEF Ops, Buckets, Typed
    <3> QED
      BY <2>3, <3>4, <3>6 DEF TakeMeta, Typed, rootVars, device, receiver, workers
  <2>4. CASE Deliver(r)
    <3>1. op' \in [Receivers -> Ops]
      BY <2>1, <2>4 DEF Deliver, Ops, Typed
    <3>2. got' \subseteq Receivers
      BY <2>4 DEF Deliver, Typed
    <3>3. rootOp.buf \in 1 .. 3 /\ op[r].buf \in 1 .. 3
      BY <2>1 DEF Typed, Ops
    <3>4. buffer[Root][rootOp.buf] \in [1 .. BucketSize -> Units]
      BY <2>1, <3>3 DEF Typed
    <3>5. buffer' \in [Nodes -> [1 .. 3 -> [1 .. BucketSize -> Units]]]
      BY <2>1, <2>4, <3>3, <3>4, RefillIs DEF Deliver
    <3> QED
      BY <2>4, <3>1, <3>2, <3>5 DEF Deliver, Typed, topic, workers
  <2> QED
    BY <1>2, <2>2, <2>3, <2>4, TypedCopy, TypedReceiver, TypedWorker DEF Move
<1> QED
  BY <1>1, <1>2, TypedRoot DEF Next, Move

-----------------------------------------------------------------------------
(* The invariant.                                                           *)
LEMMA Initially ==
  ASSUME Init
  PROVE  IInv
<1>1. /\ weights \in Seq(Nat \ {0}) /\ BucketSize \in Nat /\ Len(weights) \in Nat
  BY TransferConstants DEF Init
<1>2. Typed
  <2>1. NoOp \in Ops /\ NoBucket \in Buckets /\ NoMerge \in Merges /\ NoMessage \in Messages
    BY NoOpIs, MessageIs DEF NoBucket, Buckets, NoMerge, Merges
  <2>2. Blank(BucketSize) \in [1 .. BucketSize -> Units]
    BY DEF Blank, Empty, Units
  <2>3. <<>> \in Seq(Copies) /\ <<>> \in Seq(Chunks) /\ <<>> \in Seq(Buckets)
        /\ <<>> \in Seq([weight: Nat, units: Seq(Units)])
    OBVIOUS
  <2>4. /\ weights \in WeightLists /\ split \in [weight: Nat, offset: Nat] /\ fill \in 1 .. 2
        /\ meta \in Seq(Chunks) /\ rootOp \in Ops /\ got \subseteq Receivers
        /\ root \in {"fill", "last"} /\ joined \subseteq Receivers /\ lost \in BOOLEAN
        /\ raises \in 0 .. MaxRaises
    <3>1. split \in [weight: Nat, offset: Nat]
      BY DEF Init
    <3>2. raises \in 0 .. MaxRaises
      BY TransferConstants DEF Init
    <3>3. meta \in Seq(Chunks)
      BY <2>3 DEF Init
    <3>4. /\ weights \in WeightLists /\ fill = 1 /\ rootOp = NoOp /\ got = Receivers
          /\ root = "fill" /\ joined = {} /\ lost = FALSE
      BY DEF Init
    <3>5. /\ fill \in 1 .. 2 /\ rootOp \in Ops /\ got \subseteq Receivers
          /\ root \in {"fill", "last"}
      BY <2>1, <3>4
    <3>6. joined \subseteq Receivers /\ lost \in BOOLEAN
      BY <3>4
    <3> QED
      BY <3>1, <3>2, <3>3, <3>4, <3>5, <3>6
  <2>5. buffer \in [Nodes -> [1 .. 3 -> [1 .. BucketSize -> Units]]]
    <3>1. [b \in 1 .. 3 |-> Blank(BucketSize)] \in [1 .. 3 -> [1 .. BucketSize -> Units]]
      BY <2>2
    <3>2. buffer = [n \in Nodes |-> [b \in 1 .. 3 |-> Blank(BucketSize)]]
      BY DEF Init, Nodes
    <3> QED
      BY <3>1, <3>2
  <2>6. /\ inbox \in [Receivers -> Seq(Buckets)] /\ stream \in [Nodes -> Seq(Copies)]
        /\ ipcMeta \in [Receivers -> Seq(Chunks)] /\ loading \in [Receivers -> Seq(Chunks)]
        /\ loaded \in [Receivers -> Seq([weight: Nat, units: Seq(Units)])]
    BY <2>3 DEF Init, Nodes
  <2>7. /\ op \in [Receivers -> Ops] /\ bucket \in [Receivers -> Buckets]
        /\ merge \in [Receivers -> Merges] /\ message \in [Receivers -> Messages]
    BY <2>1 DEF Init
  <2>8. /\ pc \in [Receivers -> {"handle", "first", "await", "yield", "pack", "flushed",
                                 "large", "flush", "last", "done"}]
        /\ turn \in [Receivers -> 1 .. 2] /\ at \in [Receivers -> Nat]
        /\ worker \in [Receivers -> {"waiting", "loading", "closed", "done"}]
    BY DEF Init
  <2> QED
    BY <2>4, <2>5, <2>6, <2>7, <2>8 DEF Typed
<1>3. /\ \A ws : BucketOf(ws, <<>>) /\ EndOf(ws, <<>>) = First /\ StartOf(<<>>) = First
      /\ NoOp.state = "none" /\ NoOp.meta = <<>> /\ NoOp.buf = 1
      /\ NoBucket.meta = <<>> /\ NoMessage.kind = "none"
  BY NoBucketIs, NoOpIs, MessageIs DEF NoOp, NoBucket
<1>4. RootInv
  <2>1. split = First /\ meta = <<>> /\ rootOp.meta = <<>> /\ rootOp.state = "none"
        /\ got = Receivers
    BY <1>3 DEF Init, First, Position
  <2>2. PositionOf(weights, First)
    BY <1>1 DEF PositionOf, First, Position
  <2> QED
    BY <1>3, <2>1, <2>2 DEF RootInv
<1>5. RootCopied
  <2>1. /\ Len(meta) = 0 /\ Len(stream[Root]) = 0 /\ Len(rootOp.meta) = 0
    BY <1>3 DEF Init, Root
  <2>2. Written = 0
    BY <2>1 DEF Written
  <2> QED
    BY <2>1, <2>2 DEF RootCopied, Holds
<1>6. ASSUME NEW r \in Receivers
      PROVE  /\ Link(weights, rootOp, r \in got, inbox[r], op[r], bucket[r].meta)
             /\ Arrived(buffer[r], op[r], bucket[r].meta, turn[r])
             /\ Place(weights, pc[r], op[r], bucket[r].meta, at[r], merge[r], ipcMeta[r])
             /\ Packed(weights, ipcMeta[r], Cursor(weights, bucket[r].meta, at[r]).weight)
             /\ Copied(buffer[r], stream[r], turn[r], ipcMeta[r], merge[r])
             /\ Delivered(weights, loaded[r])
             /\ Handed(pc[r], stream[r], ipcMeta[r], message[r], worker[r], loading[r],
                       Cursor(weights, bucket[r].meta, at[r]).weight, Len(loaded[r]))
  <2>1. /\ op[r] = NoOp /\ bucket[r] = NoBucket /\ bucket[r].meta = <<>> /\ at[r] = 1
        /\ inbox[r] = <<>> /\ r \in got /\ rootOp.meta = <<>> /\ turn[r] = 1
        /\ merge[r] = NoMerge /\ ipcMeta[r] = <<>> /\ message[r] = NoMessage
        /\ worker[r] = "waiting" /\ loading[r] = <<>> /\ loaded[r] = <<>>
        /\ pc[r] = "handle" /\ stream[r] = <<>>
    BY <1>3 DEF Init
  <2>2. Len(<<>>) = 0
    OBVIOUS
  <2>3. Cursor(weights, <<>>, 1) = First /\ First.offset = 0 /\ First.weight = 1
    BY <2>2 DEF Cursor, EndOf, First, Position
  <2>4. Link(weights, rootOp, r \in got, inbox[r], op[r], bucket[r].meta)
    BY <1>3, <2>1 DEF Link
  <2>5. Arrived(buffer[r], op[r], bucket[r].meta, turn[r])
    BY <1>3, <2>1, <2>2 DEF Arrived, Holds
  <2>6. Place(weights, pc[r], op[r], bucket[r].meta, at[r], merge[r], ipcMeta[r])
    BY <1>3, <2>1, <2>2, <2>3 DEF Place
  <2>7. Packed(weights, ipcMeta[r], Cursor(weights, bucket[r].meta, at[r]).weight)
    BY <1>1, <2>1, <2>3, PackedNone
  <2>8. Copied(buffer[r], stream[r], turn[r], ipcMeta[r], merge[r])
    BY <2>1, <2>2 DEF Copied
  <2>9. Delivered(weights, loaded[r])
    BY <1>1, <2>1, <2>2 DEF Delivered
  <2>10. Handed(pc[r], stream[r], ipcMeta[r], message[r], worker[r], loading[r],
                Cursor(weights, bucket[r].meta, at[r]).weight, Len(loaded[r]))
    BY <1>3, <2>1, <2>2, <2>3 DEF Handed
  <2> QED
    BY <2>4, <2>5, <2>6, <2>7, <2>8, <2>9, <2>10
<1> QED
  BY <1>2, <1>4, <1>5, <1>6
  DEF IInv, LinkInv, ArrivedInv, PlaceInv, PackedInv, CopiedInv, HandedInv

LEMMA Stepwise ==
  ASSUME IInv, [Next]_vars
  PROVE  IInv'
BY TypedStep, RootPartStep, LinkStep, ArrivedStep, PlaceStep, PackedStep, CopiedStep,
   HandedStep DEF IInv

LEMMA Invariant == Spec => []IInv
<1>1. Init => IInv
  BY Initially
<1>2. IInv /\ [Next]_vars => IInv'
  BY Stepwise
<1> QED
  BY <1>1, <1>2, PTL DEF Spec

-----------------------------------------------------------------------------
(* Every variable keeps its type: a buffer its size, an IPC bucket at most  *)
(* that size, and a tensor is only packed while a bucket has one            *)
(* (send_weights, receive_weights, async_send_weights).                     *)
THEOREM TypeCorrect == Spec => []TypeOK
<1>1. ASSUME IInv
      PROVE  TypeOK
  <2>1. Typed /\ PositionOf(weights, split)
    BY <1>1 DEF IInv, RootInv
  <2>2. /\ weights \in WeightLists /\ split.weight \in 1 .. Len(weights) + 1 /\ fill \in 1 .. 2
        /\ rootOp.buf \in 1 .. 2 /\ got \subseteq Receivers /\ joined \subseteq Receivers
        /\ root \in {"fill", "last"} /\ lost \in BOOLEAN /\ raises \in 0 .. MaxRaises
    BY <2>1 DEF Typed, Ops, PositionOf
  <2>3. rootOp.state \in {"none", "meta", "cast"}
    BY <1>1 DEF IInv, RootInv
  <2>4. ASSUME NEW n \in DOMAIN buffer, NEW b \in 1 .. 3
        PROVE  Len(buffer[n][b]) = BucketSize
    <3>1. buffer[n][b] \in [1 .. BucketSize -> Units] /\ BucketSize \in Nat
      <4>1. buffer \in [Nodes -> [1 .. 3 -> [1 .. BucketSize -> Units]]]
        BY <2>1 DEF Typed
      <4>2. n \in Nodes
        BY <2>4, <4>1
      <4> QED
        BY <2>1, <4>1, <4>2, Sizes
    <3> QED
      BY <3>1
  <2>5. ASSUME NEW r \in Receivers
        PROVE  /\ pc[r] \in {"handle", "first", "await", "yield", "pack", "flushed", "large",
                             "flush", "last", "done"}
               /\ op[r].state \in {"none", "meta", "cast", "complete"}
               /\ pc[r] = "pack" => More(r)
               /\ Used(ipcMeta[r]) <= BucketSize
               /\ message[r].kind \in {"none", "handle", "bucket", "large"}
               /\ worker[r] \in {"waiting", "loading", "closed", "done"}
    <3>1. op[r] \in Ops /\ message[r] \in Messages
      BY <2>1, Row
    <3>2. pc[r] = "pack" => More(r)
      BY <1>1 DEF IInv, PlaceInv, Place, More
    <3>3. Used(ipcMeta[r]) <= BucketSize
      BY <1>1 DEF IInv, PackedInv, Packed
    <3>4. /\ pc[r] \in {"handle", "first", "await", "yield", "pack", "flushed", "large",
                        "flush", "last", "done"}
          /\ worker[r] \in {"waiting", "loading", "closed", "done"}
      BY <2>1 DEF Typed
    <3> QED
      BY <3>1, <3>2, <3>3, <3>4 DEF Ops, Messages
  <2> QED
    BY <2>2, <2>3, <2>4, <2>5 DEF TypeOK
<1> QED
  BY <1>1, Invariant, PTL

LEMMA PrefixIs ==
  ASSUME NEW S, NEW s \in Seq(S), NEW t \in Seq(S), Len(s) <= Len(t),
         \A i \in 1 .. Len(s) : s[i] = t[i]
  PROVE  IsPrefix(s, t)
<1>1. PICK n : n = Len(s)
  OBVIOUS
<1>2. /\ n \in Nat /\ Len(t) \in Nat /\ n <= Len(t)
  BY <1>1
<1>3. /\ 1 \in 1 .. n + 1 /\ n \in 0 .. Len(s) /\ n \in 0 .. Len(t)
      /\ 1 \in 1 .. Len(s) + 1 /\ 1 \in 1 .. Len(t) + 1
  BY <1>1, <1>2
<1>4. /\ SubSeq(s, 1, n) \in Seq(S) /\ SubSeq(t, 1, n) \in Seq(S)
      /\ Len(SubSeq(s, 1, n)) = n /\ Len(SubSeq(t, 1, n)) = n
      /\ \A i \in 1 .. n : SubSeq(s, 1, n)[i] = s[i] /\ SubSeq(t, 1, n)[i] = t[i]
  BY <1>1, <1>2
<1>5. SubSeq(s, 1, n) = SubSeq(t, 1, n)
  BY <1>1, <1>4, SeqEqual
<1> QED
  BY <1>1, <1>5 DEF IsPrefix

(* What a worker has loaded is, from the first weight on, what the trainer  *)
(* sent, byte for byte: neither buffer of a bucket is filled again while a  *)
(* broadcast, a copy on a device or a worker still reads it, and no chunk   *)
(* of a large weight is lost or misplaced (the double buffering of          *)
(* send_weights and receive_weights, merge_weight_chunks, and the           *)
(* acknowledged IPC bucket of async_send_weights).                          *)
THEOREM LoadsWhatWasSent == Spec => []LoadedFaithfully
<1>1. ASSUME IInv
      PROVE  LoadedFaithfully
  <2> SUFFICES ASSUME NEW r \in Receivers
               PROVE  IsPrefix(loaded[r], [w \in DOMAIN weights |->
                                             [weight |-> w, units |-> Whole(w)]])
    BY DEF LoadedFaithfully
  <2>1. PICK S, l, t : /\ S = [weight: Nat, units: Seq(Units)] /\ l = loaded[r]
                       /\ t = [w \in DOMAIN weights |-> [weight |-> w, units |-> Whole(w)]]
    OBVIOUS
  <2>2. Typed /\ Delivered(weights, l)
    BY <1>1, <2>1 DEF IInv, HandedInv
  <2>3. l \in Seq(S) /\ weights \in Seq(Nat \ {0}) /\ Len(weights) \in Nat
    BY <2>1, <2>2, Row, Sizes
  <2>4. DOMAIN weights = 1 .. Len(weights)
    BY <2>3
  <2>5. ASSUME NEW w \in 1 .. Len(weights)
        PROVE  t[w] = [weight |-> w, units |-> Bytes(w, 0, weights[w])] /\ t[w] \in S
    <3>1. weights[w] \in Nat /\ w \in Nat
      BY <2>3
    <3>2. Bytes(w, 0, weights[w]) \in Seq(Units)
      BY <3>1, BytesIs
    <3>3. t[w] = [weight |-> w, units |-> Bytes(w, 0, weights[w])]
      BY <2>1, <2>4 DEF Whole
    <3> QED
      BY <2>1, <3>1, <3>2, <3>3
  <2>6. t \in Seq(S) /\ Len(t) = Len(weights)
    <3>1. t = [w \in 1 .. Len(weights) |-> t[w]]
      BY <2>1, <2>4
    <3>2. t \in [1 .. Len(weights) -> S]
      BY <2>5, <3>1
    <3>3. PICK n : n = Len(weights)
      OBVIOUS
    <3>4. n \in Nat /\ t \in [1 .. n -> S]
      BY <2>3, <3>2, <3>3
    <3>5. t \in Seq(S) /\ Len(t) = n
      BY <3>4
    <3> QED
      BY <3>3, <3>5
  <2>7. Len(l) <= Len(t) /\ Len(l) \in Nat
    BY <2>2, <2>3, <2>6 DEF Delivered
  <2>8. ASSUME NEW i \in 1 .. Len(l)
        PROVE  l[i] = t[i]
    <3>1. i \in 1 .. Len(weights)
      BY <2>3, <2>6, <2>7
    <3>2. l[i] = [weight |-> i, units |-> Bytes(i, 0, weights[i])]
      BY <2>2 DEF Delivered
    <3> QED
      BY <2>5, <3>1, <3>2
  <2>9. IsPrefix(l, t)
    BY <2>3, <2>6, <2>7, <2>8, PrefixIs
  <2> QED
    BY <2>1, <2>9
<1> QED
  BY <1>1, Invariant, PTL

(* No assertion of the transfer can fail: the next chunk fits an empty      *)
(* bucket and its weight is not in the bucket yet (send_weights); a small   *)
(* weight never comes while a large one is being merged and the chunks of   *)
(* a large one come in order (merge_weight_chunks).                         *)
THEOREM AssertionsNeverFail == Spec => []AssertionsHold
<1>1. ASSUME IInv
      PROVE  AssertionsHold
  <2>1. Typed /\ RootInv /\ LinkInv /\ PlaceInv
    BY <1>1 DEF IInv
  <2>2. MoreChunks => NextSize <= BucketSize
    BY <2>1, NextIs
  <2>3. ASSUME NEW i \in DOMAIN meta, NEW j \in DOMAIN meta, meta[i].weight = meta[j].weight
        PROVE  i = j
    <3>1. /\ meta \in Seq(Chunks) /\ i \in 1 .. Len(meta) /\ j \in 1 .. Len(meta)
          /\ Len(meta) \in Nat
      BY <2>1 DEF Typed
    <3>2. meta[i].weight \in Nat /\ meta[j].weight \in Nat
      <4>1. meta[i] \in Chunks /\ meta[j] \in Chunks
        BY <3>1
      <4> QED
        BY <4>1 DEF Chunks
    <3>3. /\ i < j => meta[j].weight = meta[i].weight + (j - i)
          /\ j < i => meta[i].weight = meta[j].weight + (i - j)
      BY <2>1, <3>1 DEF RootInv, BucketOf
    <3> QED
      BY <2>3, <3>1, <3>2, <3>3
  <2>4. ASSUME NEW r \in Receivers, pc[r] = "yield", More(r)
        PROVE  LET c == Chunk(r)
               IN /\ ~Large(c) => merge[r] = NoMerge
                  /\ Large(c) /\ merge[r] = NoMerge => c.from = 0
                  /\ Large(c) /\ merge[r] # NoMerge =>
                       /\ c.weight = merge[r].weight
                       /\ c.from = merge[r].offset
    <3>1. PICK c, g : c = Chunk(r) /\ g = merge[r]
      OBVIOUS
    <3>2. /\ c \in Chunks /\ ChunkOf(weights, c)
          /\ Cursor(weights, bucket[r].meta, at[r]) = At(c)
      BY <2>1, <2>4, <3>1, ChunkAt DEF More
    <3>3. IF c.from = 0 THEN g = NoMerge ELSE g.weight = c.weight /\ g.offset = c.from
      BY <2>1, <2>4, <3>1, <3>2 DEF PlaceInv, Place, At, Position
    <3>4. c.from # 0 => g # NoMerge
      <4>1. c.weight # 0
        BY <3>2 DEF ChunkOf
      <4> QED
        BY <3>3, <4>1 DEF NoMerge
    <3>5. c.from # 0 => Large(c)
      BY <3>2 DEF ChunkOf, Chunks, Large
    <3> QED
      BY <3>1, <3>3, <3>4, <3>5
  <2> QED
    BY <2>2, <2>3, <2>4 DEF AssertionsHold
<1> QED
  BY <1>1, Invariant, PTL
=============================================================================
