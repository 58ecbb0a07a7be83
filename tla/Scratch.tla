------------------------------- MODULE Scratch -------------------------------
(***************************************************************************)
(* The memory of ecmult_multi_var: a scratch space (scratch_impl.h) is a   *)
(* stack of frames under a common limit, each holds a few aligned objects. *)
(* The number of points that fit decides how many batches there are, and   *)
(* which algorithm takes them; each batch takes a frame, and neither looks *)
(* at what scratch_alloc returns.  What the batches compute is in module   *)
(* Multiply.  The sizes are those of a 64-bit build, in bytes; they are    *)
(* not scaled.                                                             *)
(***************************************************************************)
EXTENDS FiniteSetsExt, Sequences

CONSTANTS
  MaxSizes,   \* sizes a scratch space is created with
  OwnFrames,  \* sizes of the frames that callers take before the call
  Counts      \* numbers of points

\* A frame of no bytes would be given without the room that its alignment takes.
ASSUME SizesAssumption ==
  MaxSizes \subseteq Nat /\ OwnFrames \subseteq Nat \ {0} /\ Counts \subseteq Nat \ {0}

VARIABLES max_size, frames, call

scratchVars == <<max_size, frames, call>>

ALIGNMENT == 16
SECP256K1_SCRATCH_MAX_FRAMES == 5

\* sizeof.
SizeOf == [ge |-> 88, gej |-> 128, fe |-> 40, scalar |-> 32, int |-> 4,
           strauss_point_state |-> 1040, pippenger_point_state |-> 16, pippenger_state |-> 16]

TABLE_SIZE_A == 8                        \* ECMULT_TABLE_SIZE(WINDOW_A)
ECMULT_PIPPENGER_THRESHOLD   == 160
ECMULT_MAX_POINTS_PER_BATCH  == 10000000
PIPPENGER_MAX_BUCKET_WINDOW  == 12
OBJECTS  == 6                            \* of both algorithms
SIZE_MAX == 100000000                    \* no count of the sources is larger

Ceiling(n, d) == (n + d - 1) \div d

ROUND_TO_ALIGN(size) == Ceiling(size, ALIGNMENT) * ALIGNMENT

-----------------------------------------------------------------------------
\* The sum over the frames, from the lowest one on.
AllocatedIn(stack) ==
  LET allocated[i \in 0 .. Len(stack)] == IF i = 0 THEN 0 ELSE allocated[i - 1] + stack[i].size
  IN allocated[Len(stack)]

Allocated == AllocatedIn(frames)

max_allocation(objects) ==
  IF max_size - Allocated <= objects * ALIGNMENT THEN 0
  ELSE max_size - Allocated - objects * ALIGNMENT

Fits(n, objects) == n <= max_allocation(objects)

allocate_frame(n, objects) ==
  Append(frames, [size |-> n + objects * ALIGNMENT, offset |-> 0])

deallocate_frame == SubSeq(frames, 1, Len(frames) - 1)

TopFrame == frames[Len(frames)]

\* What scratch_alloc needs; it returns NULL otherwise.
HasRoom(size) == frames # <<>> /\ ROUND_TO_ALIGN(size) + TopFrame.offset <= TopFrame.size

scratch_alloc(size) == [frames EXCEPT ![Len(frames)].offset = @ + ROUND_TO_ALIGN(size)]

-----------------------------------------------------------------------------
WNAF_SIZE(w) == Ceiling(256, w)

\* The most points for which a bucket window is the best one.
Optimal == <<1, 11, 45, 100, 275, 625, 1850, 3400, 9630, 17900, 32800>>

pippenger_bucket_window(n) ==
  Min({w \in DOMAIN Optimal : n <= Optimal[w]} \cup {PIPPENGER_MAX_BUCKET_WINDOW})

pippenger_bucket_window_inv(w) == IF w \in DOMAIN Optimal THEN Optimal[w] ELSE SIZE_MAX

EntrySize(w) ==
  SizeOf.ge + SizeOf.scalar + SizeOf.pippenger_point_state + (WNAF_SIZE(w + 1) + 1) * SizeOf.int

pippenger_scratch_size(n, w) ==
  2 ^ w * SizeOf.gej + SizeOf.pippenger_state + (n + 1) * EntrySize(w)

\* What is left for points, less than nothing where the buckets alone do not fit,
\* and how many points a window takes.
space_for_points(w) ==
  max_allocation(OBJECTS) - (2 ^ w * SizeOf.gej + EntrySize(w) + SizeOf.pippenger_state)

n_points(w) == Min({space_for_points(w) \div EntrySize(w), pippenger_bucket_window_inv(w)})

Windows == {w \in 1 .. PIPPENGER_MAX_BUCKET_WINDOW : space_for_points(w) >= 0}

\* Wider windows are tried even if fewer points do not fit with this one (a fault).
pippenger_max_pointsFault == Max({0} \cup {n_points(w) : w \in Windows})

\* The windows are tried one after the other, until one has no room for itself
\* or not for all points for which it is the best.
Tried(w) == \A v \in 1 .. w - 1 : v \in Windows /\ n_points(v) = pippenger_bucket_window_inv(v)

pippenger_max_points == Max({0} \cup {n_points(w) : w \in {v \in Windows : Tried(v)}})

strauss_scratch_size(n) ==
  n * ((SizeOf.ge + SizeOf.gej + SizeOf.fe) * TABLE_SIZE_A
       + SizeOf.strauss_point_state + SizeOf.gej + SizeOf.scalar)

strauss_max_points == max_allocation(OBJECTS) \div strauss_scratch_size(1)

\* The objects of a batch of n points, as they are allocated.
Objects(f, n) ==
  IF f = "strauss"
  THEN <<n * SizeOf.gej, n * SizeOf.scalar, n * TABLE_SIZE_A * SizeOf.gej,
         n * TABLE_SIZE_A * SizeOf.fe, n * TABLE_SIZE_A * SizeOf.ge,
         n * SizeOf.strauss_point_state>>
  ELSE LET w == pippenger_bucket_window(n)
       IN <<(n + 1) * SizeOf.ge, (n + 1) * SizeOf.scalar, SizeOf.pippenger_state,
            (n + 1) * SizeOf.pippenger_point_state,
            (n + 1) * WNAF_SIZE(w + 1) * SizeOf.int, 2 ^ w * SizeOf.gej>>

FrameSize(f, n) ==
  IF f = "strauss" THEN strauss_scratch_size(n)
  ELSE pippenger_scratch_size(n, pippenger_bucket_window(n))

-----------------------------------------------------------------------------
MemoryInit == max_size \in MaxSizes /\ frames = <<>> /\ call = [phase |-> "idle", own |-> 0]

\* Callers keep what they like in frames of their own below that of a batch.
TakeFrame ==
  /\ call.phase = "idle"
  /\ Len(frames) < SECP256K1_SCRATCH_MAX_FRAMES - 1
  /\ \E n \in OwnFrames : Fits(n, 1) /\ frames' = allocate_frame(n, 1)
  /\ call' = [call EXCEPT !.own = @ + 1]
  /\ UNCHANGED max_size

GiveBack ==
  /\ call.phase = "idle" /\ frames # <<>>
  /\ frames' = deallocate_frame
  /\ call' = [call EXCEPT !.own = @ - 1]
  /\ UNCHANGED max_size

\* A call that is over, or fails.
Left(phase) == [phase |-> phase, own |-> call.own]

\* n points in batches of at most max points, under the algorithm f.
Batches(f, n, max) ==
  [phase |-> "batch", own |-> call.own, f |-> f, all |-> n, left |-> n, i |-> 0, objects |-> <<>>,
   n_batches |-> Ceiling(n, max), n_batch_points |-> Ceiling(n, Ceiling(n, max))]

ecmult_multi_var ==
  /\ call.phase = "idle"
  /\ \E n \in Counts :
       LET max == Min({pippenger_max_points, ECMULT_MAX_POINTS_PER_BATCH})
           buckets == max > 0 /\ Ceiling(n, Ceiling(n, max)) >= ECMULT_PIPPENGER_THRESHOLD
       IN \/ buckets /\ call' = Batches("pippenger", n, max)
          \/ max > 0 /\ ~buckets /\ strauss_max_points > 0
             /\ call' = Batches("strauss", n, strauss_max_points)
          \/ (max = 0 \/ (~buckets /\ strauss_max_points = 0)) /\ call' = Left("no room")
  /\ UNCHANGED <<max_size, frames>>

nbp == Min({call.left, call.n_batch_points})

BeginBatch ==
  /\ call.phase = "batch" /\ call.i < call.n_batches
  /\ LET n == FrameSize(call.f, nbp)
     IN IF Fits(n, OBJECTS)
        THEN /\ frames' = allocate_frame(n, OBJECTS)
             /\ call' = [call EXCEPT !.phase = "objects", !.objects = Objects(call.f, nbp)]
        ELSE call' = Left("no frame") /\ UNCHANGED frames
  /\ UNCHANGED max_size

AllocateObject ==
  /\ call.phase = "objects" /\ call.objects # <<>>
  /\ IF HasRoom(Head(call.objects))
     THEN /\ frames' = scratch_alloc(Head(call.objects))
          /\ call' = [call EXCEPT !.objects = Tail(@)]
     ELSE call' = Left("null") /\ UNCHANGED frames
  /\ UNCHANGED max_size

\* The callback delivers a point and a scalar, or fails.
Deliver ==
  /\ call.phase = "objects" /\ call.objects = <<>>
  /\ frames' = deallocate_frame
  /\ \/ call' = Left("callback failed")
     \/ call' = [call EXCEPT !.phase = "batch", !.i = @ + 1, !.left = @ - nbp]
  /\ UNCHANGED max_size

ReturnToCaller ==
  /\ call.phase \in {"no room", "callback failed"} \/ (call.phase = "batch" /\ call.i = call.n_batches)
  /\ call' = Left("idle")
  /\ UNCHANGED <<max_size, frames>>

MemoryNext ==
  \/ TakeFrame \/ GiveBack \/ ecmult_multi_var \/ BeginBatch \/ AllocateObject
  \/ Deliver \/ ReturnToCaller

MemorySpec == MemoryInit /\ [][MemoryNext]_scratchVars

-----------------------------------------------------------------------------
(* A call that decides on batches gets the frame and the objects of each   *)
(* of them: pippenger_max_points promises as much for every smaller count, *)
(* whose buckets are fewer but whose entries are larger.  The batches take *)
(* each point once, none is empty, and every way out of a call leaves the  *)
(* frames of its caller as they were, within the limit of the space.       *)
BatchesGetTheirMemory ==
  /\ call.phase \notin {"no frame", "null"}
  /\ call.phase # "objects" => Len(frames) = call.own
  /\ call.phase = "objects" => Len(frames) = call.own + 1 /\ nbp > 0
  /\ call.phase \in {"batch", "objects"} =>
       /\ call.i < call.n_batches => call.i * call.n_batch_points = call.all - call.left
       /\ call.i = call.n_batches => call.left = 0
  /\ Allocated <= max_size
=============================================================================
