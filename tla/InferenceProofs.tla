---------------------------- MODULE InferenceProofs ----------------------------
(* Theorems about Inference, for every value of its constants.             *)
EXTENDS Inference, TLAPS, FiniteSetTheorems

-----------------------------------------------------------------------------
(* The inductive invariant.                                                *)

(* _collect_batch has jobs in hand only while it gathers or predicts.      *)
BatchOK == /\ runner = "gather" => Cardinality(batch) < BatchSize
           /\ runner \in {"get", "gone"} \/ service = "down" => batch = {}

TypeInv == TypeOK /\ BatchOK

Sorted(q) == \A k, l \in 1 .. Len(q) : k < l => q[k] < q[l]

(* A frame in a worker's queue is older than all that came later, younger  *)
(* than all that its consumer has taken, and nobody has a future for it.   *)
Ordered(c) ==
  /\ Sorted(inbox[c])
  /\ latest[c] <= sampled /\ consumer[c].frame <= sampled
  /\ consumer[c].pc = "waiting" =>
        consumer[c].frame \in Frames /\ latest[c] <= consumer[c].frame
  /\ \A f \in Range(inbox[c]) :
        /\ f <= sampled /\ future[f] = "none"
        /\ latest[c] < f /\ consumer[c].frame < f

(* No two workers have the same frame.                                     *)
Apart == \A c, d \in Cameras : c # d => Range(inbox[c]) \cap Range(inbox[d]) = {}

Unsampled == \A f \in Frames : f > sampled => future[f] = "none"

FrameInv == (\A c \in Cameras : Ordered(c)) /\ Apart /\ Unsampled

-----------------------------------------------------------------------------
(* The frame queue.                                                        *)

LEMMA RangeElements ==
  ASSUME NEW S, NEW q \in Seq(S), NEW f
  PROVE  f \in Range(q) <=> \E k \in 1 .. Len(q) : q[k] = f
BY DEF Range

LEMMA AppendRange ==
  ASSUME NEW S, NEW q \in Seq(S), NEW f \in S
  PROVE  /\ Append(q, f) \in Seq(S) /\ Len(Append(q, f)) = Len(q) + 1
         /\ Range(Append(q, f)) = Range(q) \cup {f}
<1>1. /\ Append(q, f) \in Seq(S) /\ Len(Append(q, f)) = Len(q) + 1
      /\ Len(q) \in Nat
      /\ \A k \in 1 .. Len(q) : Append(q, f)[k] = q[k]
      /\ Append(q, f)[Len(q) + 1] = f
  OBVIOUS
<1>2. ASSUME NEW g PROVE g \in Range(Append(q, f)) <=> g \in Range(q) \cup {f}
  <2>1. g \in Range(Append(q, f)) <=> \E k \in 1 .. Len(q) + 1 : Append(q, f)[k] = g
    BY <1>1 DEF Range
  <2>2. g \in Range(q) <=> \E k \in 1 .. Len(q) : q[k] = g
    BY RangeElements
  <2>3. \A k : k \in 1 .. Len(q) + 1 <=> k \in 1 .. Len(q) \/ k = Len(q) + 1
    BY <1>1
  <2> QED BY <1>1, <2>1, <2>2, <2>3
<1> QED BY <1>1, <1>2

LEMMA TailRange ==
  ASSUME NEW S, NEW q \in Seq(S), q # <<>>
  PROVE  /\ Tail(q) \in Seq(S) /\ Len(Tail(q)) = Len(q) - 1 /\ Head(q) \in S
         /\ Range(q) = {Head(q)} \cup Range(Tail(q))
<1>1. /\ Tail(q) \in Seq(S) /\ Len(Tail(q)) = Len(q) - 1
      /\ Len(q) \in Nat \ {0} /\ Head(q) = q[1] /\ Head(q) \in S
      /\ \A k \in 1 .. Len(q) - 1 : Tail(q)[k] = q[k + 1]
  OBVIOUS
<1>2. ASSUME NEW g PROVE g \in Range(q) <=> g \in {Head(q)} \cup Range(Tail(q))
  <2>1. g \in Range(Tail(q)) <=> \E k \in 1 .. Len(q) - 1 : q[k + 1] = g
    <3>1. g \in Range(Tail(q)) <=> \E k \in 1 .. Len(Tail(q)) : Tail(q)[k] = g
      BY <1>1, RangeElements
    <3> QED BY <1>1, <3>1
  <2>2. g \in Range(q) <=> \E k \in 1 .. Len(q) : q[k] = g
    BY RangeElements
  <2>3. \A k \in 1 .. Len(q) : k = 1 \/ (k - 1 \in 1 .. Len(q) - 1 /\ (k - 1) + 1 = k)
    BY <1>1
  <2>4. \A k \in 1 .. Len(q) - 1 : k + 1 \in 1 .. Len(q)
    BY <1>1
  <2>5. 1 \in 1 .. Len(q)
    BY <1>1
  <2>6. ASSUME g \in Range(q) PROVE g = Head(q) \/ g \in Range(Tail(q))
    <3>1. PICK k \in 1 .. Len(q) : q[k] = g
      BY <2>2, <2>6
    <3>2. CASE k = 1
      BY <1>1, <3>1, <3>2
    <3>3. CASE k - 1 \in 1 .. Len(q) - 1 /\ (k - 1) + 1 = k
      BY <2>1, <3>1, <3>3
    <3> QED BY <2>3, <3>2, <3>3
  <2>7. ASSUME g \in Range(Tail(q)) PROVE g \in Range(q)
    BY <2>1, <2>2, <2>4, <2>7
  <2>8. Head(q) \in Range(q)
    BY <1>1, <2>5 DEF Range
  <2> QED BY <2>6, <2>7, <2>8
<1> QED BY <1>1, <1>2

LEMMA SortedTail ==
  ASSUME NEW q \in Seq(Frames), q # <<>>, Sorted(q)
  PROVE  Sorted(Tail(q)) /\ \A f \in Range(Tail(q)) : Head(q) < f
<1>1. /\ Tail(q) \in Seq(Frames) /\ Len(Tail(q)) = Len(q) - 1
      /\ Len(q) \in Nat \ {0} /\ Head(q) = q[1]
      /\ \A k \in 1 .. Len(q) - 1 : Tail(q)[k] = q[k + 1]
  OBVIOUS
<1>2. Sorted(Tail(q))
  BY <1>1 DEF Sorted
<1>3. ASSUME NEW f \in Range(Tail(q)) PROVE Head(q) < f
  <2>1. PICK k \in 1 .. Len(Tail(q)) : Tail(q)[k] = f
    BY <1>1, <1>3, RangeElements
  <2>2. k + 1 \in 1 .. Len(q) /\ 1 \in 1 .. Len(q) /\ 1 < k + 1 /\ f = q[k + 1]
    BY <1>1, <2>1
  <2> QED BY <1>1, <2>2 DEF Sorted
<1> QED BY <1>2, <1>3

LEMMA SortedAppend ==
  ASSUME NEW q \in Seq(Frames), Sorted(q), NEW f \in Frames, \A g \in Range(q) : g < f
  PROVE  Sorted(Append(q, f))
<1>1. /\ Len(Append(q, f)) = Len(q) + 1 /\ Len(q) \in Nat
      /\ \A k \in 1 .. Len(q) : Append(q, f)[k] = q[k]
      /\ Append(q, f)[Len(q) + 1] = f
  OBVIOUS
<1>2. \A k \in 1 .. Len(q) : q[k] < f
  BY RangeElements
<1> SUFFICES ASSUME NEW k \in 1 .. Len(q) + 1, NEW l \in 1 .. Len(q) + 1, k < l
             PROVE  Append(q, f)[k] < Append(q, f)[l]
  BY <1>1 DEF Sorted
<1>3. k \in 1 .. Len(q) /\ (l \in 1 .. Len(q) \/ l = Len(q) + 1)
  BY <1>1
<1> QED BY <1>1, <1>2, <1>3 DEF Sorted

LEMMA EnqueueKeeps ==
  ASSUME NEW q \in Seq(Frames), Sorted(q), Len(q) <= InboxSize,
         NEW f \in Frames, \A g \in Range(q) : g < f
  PROVE  /\ Enqueue(q, f) \in Seq(Frames) /\ Len(Enqueue(q, f)) <= InboxSize
         /\ Sorted(Enqueue(q, f)) /\ Range(Enqueue(q, f)) \subseteq Range(q) \cup {f}
<1>0. InboxSize \in Nat \ {0} /\ Len(q) \in Nat
  BY InferenceAssumption
<1>1. CASE Len(q) = InboxSize
  <2>1. q # <<>>
    BY <1>0, <1>1
  <2>2. /\ Tail(q) \in Seq(Frames) /\ Len(Tail(q)) = Len(q) - 1
        /\ Range(Tail(q)) \subseteq Range(q) /\ Sorted(Tail(q))
    BY <2>1, TailRange, SortedTail
  <2>3. Enqueue(q, f) = Append(Tail(q), f)
    BY <1>1 DEF Enqueue
  <2> DEFINE t == Tail(q)
  <2>4. t \in Seq(Frames) /\ Len(t) + 1 = Len(q) /\ Range(t) \subseteq Range(q) /\ Sorted(t)
    BY <1>0, <2>2
  <2> HIDE DEF t
  <2>5. \A g \in Range(t) : g < f
    BY <2>4
  <2>6. /\ Append(t, f) \in Seq(Frames) /\ Len(Append(t, f)) = Len(q)
        /\ Range(Append(t, f)) = Range(t) \cup {f}
    BY <2>4, AppendRange
  <2>7. Sorted(Append(t, f))
    BY <2>4, <2>5, SortedAppend
  <2>8. Enqueue(q, f) = Append(t, f)
    BY <2>3 DEF t
  <2> QED BY <1>1, <2>4, <2>6, <2>7, <2>8
<1>2. CASE Len(q) # InboxSize
  BY <1>0, <1>2, AppendRange, SortedAppend DEF Enqueue
<1> QED BY <1>1, <1>2

-----------------------------------------------------------------------------
(* Type correctness.                                                       *)

LEMMA SubsetOfFrames ==
  ASSUME NEW S \in SUBSET Frames
  PROVE  IsFiniteSet(S) /\ Cardinality(S) \in Nat
<1>1. IsFiniteSet(Frames)
  BY InferenceAssumption, FS_Interval DEF Frames
<1> QED BY <1>1, FS_Subset, FS_CardinalityType

LEMMA SettleType ==
  ASSUME TypeOK, NEW jobs, NEW outcome \in Futures
  PROVE  Settle(jobs, outcome) \in [Frames -> Futures]
BY DEF TypeOK, Settle

LEMMA StartBatchType ==
  ASSUME TypeOK, NEW jobs \in SUBSET Frames, Cardinality(jobs) <= BatchSize, StartBatch(jobs)
  PROVE  /\ batch' \subseteq Frames /\ Cardinality(batch') <= BatchSize
         /\ runner' \in {"get", "predict"} /\ (runner' = "get" => batch' = {})
<1>1. batch' \subseteq jobs
  BY DEF StartBatch
<1>2. Cardinality(batch') <= Cardinality(jobs) /\ Cardinality(batch') \in Nat
      /\ Cardinality(jobs) \in Nat
  BY <1>1, SubsetOfFrames, FS_Subset
<1>3. BatchSize \in Nat
  BY InferenceAssumption
<1> QED BY <1>1, <1>2, <1>3 DEF StartBatch

LEMMA CameraType ==
  ASSUME TypeInv, \A c \in Cameras : Ordered(c), NEW c \in Cameras,
         Sample(c) \/ Submit(c) \/ Answered(c) \/ ReplaceWorker(c)
  PROVE  TypeInv'
<1>0. /\ TypeOK /\ BatchOK
      /\ MaxFrames \in Nat /\ MaxChanges \in Nat /\ QueueSize \in Nat
      /\ consumer \in [Cameras -> [pc : {"idle", "waiting", "over"}, frame : 0 .. MaxFrames]]
      /\ inbox \in [Cameras -> Seq(Frames)]
  BY InferenceAssumption DEF TypeInv, TypeOK
<1>1. CASE Sample(c)
  <2>1. /\ sampled + 1 \in Frames /\ sampled' \in 0 .. MaxFrames
    BY <1>0, <1>1 DEF Sample, TypeOK, Frames
  <2>2. \A g \in Range(inbox[c]) : g < sampled + 1
    <3>1. \A g \in Range(inbox[c]) : g \in Frames /\ g <= sampled
      BY <1>0, RangeElements DEF Ordered
    <3> QED BY <1>0, <3>1 DEF TypeOK, Frames
  <2> DEFINE q == Enqueue(inbox[c], sampled + 1)
  <2>3. q \in Seq(Frames) /\ Len(q) <= InboxSize
    BY <1>0, <2>1, <2>2, EnqueueKeeps DEF Ordered, TypeOK
  <2>4. inbox' = [inbox EXCEPT ![c] = q]
    BY <1>1 DEF Sample
  <2> HIDE DEF q
  <2>5. inbox' \in [Cameras -> Seq(Frames)] /\ \A d \in Cameras : Len(inbox'[d]) <= InboxSize
    BY <1>0, <2>3, <2>4 DEF TypeOK
  <2> QED BY <1>0, <1>1, <2>1, <2>5 DEF Sample, TypeInv, TypeOK, BatchOK
<1>2. CASE Submit(c)
  <2> DEFINE f == Head(inbox[c])
             q == Tail(inbox[c])
             o == [pc |-> "waiting", frame |-> f]
  <2>1. /\ q \in Seq(Frames) /\ Len(q) = Len(inbox[c]) - 1 /\ f \in Frames
        /\ Len(inbox[c]) \in Nat
    BY <1>0, <1>2, TailRange DEF Submit
  <2>2. o \in [pc : {"idle", "waiting", "over"}, frame : 0 .. MaxFrames]
    BY <1>0, <2>1 DEF Frames
  <2>3. /\ inbox' = [inbox EXCEPT ![c] = q]
        /\ \/ /\ Len(queue) < QueueSize /\ queue' = Append(queue, f)
              /\ future' = [future EXCEPT ![f] = "pending"]
              /\ consumer' = [consumer EXCEPT ![c] = o]
           \/ /\ future' = [future EXCEPT ![f] = "refused"]
              /\ UNCHANGED <<queue, consumer>>
        /\ UNCHANGED <<sampled, service, runner, batch, changes, latest, orphans>>
    BY <1>2 DEF Submit
  <2> HIDE DEF f, q, o
  <2>4. inbox' \in [Cameras -> Seq(Frames)] /\ \A d \in Cameras : Len(inbox'[d]) <= InboxSize
    <3>1. InboxSize \in Nat
      BY InferenceAssumption
    <3>2. \A d \in Cameras : inbox'[d] = IF d = c THEN q ELSE inbox[d]
      BY <1>0, <2>3
    <3>3. Len(q) <= InboxSize
      BY <1>0, <2>1, <3>1 DEF TypeOK
    <3> QED BY <1>0, <2>1, <2>3, <3>2, <3>3 DEF TypeOK
  <2>5. /\ future' \in [Frames -> Futures]
        /\ consumer' \in [Cameras -> [pc : {"idle", "waiting", "over"}, frame : 0 .. MaxFrames]]
    BY <1>0, <2>2, <2>3 DEF TypeOK, Futures
  <2>6. queue' \in Seq(Frames) /\ Len(queue') <= QueueSize
    <3>1. Append(queue, f) \in Seq(Frames) /\ Len(Append(queue, f)) = Len(queue) + 1
      BY <1>0, <2>1, AppendRange DEF TypeOK
    <3>2. CASE queue' = queue
      BY <1>0, <3>2 DEF TypeOK
    <3>3. CASE queue' = Append(queue, f) /\ Len(queue) < QueueSize
      BY <1>0, <3>1, <3>3 DEF TypeOK
    <3> QED BY <2>3, <3>2, <3>3
  <2> QED BY <1>0, <2>3, <2>4, <2>5, <2>6 DEF TypeInv, TypeOK, BatchOK
<1>3. CASE Answered(c)
  <2> DEFINE pc == IF future[consumer[c].frame] = "cancelled" THEN "over" ELSE "idle"
             o == [consumer[c] EXCEPT !.pc = pc]
  <2>1. o \in [pc : {"idle", "waiting", "over"}, frame : 0 .. MaxFrames]
    BY <1>0
  <2>2. consumer' = [consumer EXCEPT ![c] = o]
    BY <1>0, <1>3 DEF Answered
  <2> HIDE DEF o
  <2>3. consumer' \in [Cameras -> [pc : {"idle", "waiting", "over"}, frame : 0 .. MaxFrames]]
    BY <1>0, <2>1, <2>2
  <2>4. latest' \in [Cameras -> 0 .. MaxFrames]
    BY <1>0, <1>3 DEF Answered, TypeOK
  <2> QED BY <1>0, <1>3, <2>3, <2>4 DEF Answered, TypeInv, TypeOK, BatchOK
<1>4. CASE ReplaceWorker(c)
  <2>1. changes' \in 0 .. MaxChanges
    BY <1>0, <1>4 DEF ReplaceWorker, TypeOK
  <2>2. future' \in [Frames -> Futures]
    BY <1>0, <1>4 DEF ReplaceWorker, TypeOK, Futures
  <2>3. Fresh \in [pc : {"idle", "waiting", "over"}, frame : 0 .. MaxFrames]
    BY <1>0 DEF Fresh
  <2>4. consumer' \in [Cameras -> [pc : {"idle", "waiting", "over"}, frame : 0 .. MaxFrames]]
    BY <1>0, <1>4, <2>3 DEF ReplaceWorker
  <2>5. <<>> \in Seq(Frames) /\ Len(<<>>) <= InboxSize
    BY InferenceAssumption
  <2>6. inbox' = [inbox EXCEPT ![c] = <<>>]
    BY <1>4 DEF ReplaceWorker
  <2>7. inbox' \in [Cameras -> Seq(Frames)] /\ \A d \in Cameras : Len(inbox'[d]) <= InboxSize
    BY <1>0, <2>5, <2>6 DEF TypeOK
  <2> QED BY <1>0, <1>4, <2>1, <2>2, <2>4, <2>7 DEF ReplaceWorker, TypeInv, TypeOK, BatchOK
<1> QED BY <1>1, <1>2, <1>3, <1>4

LEMMA ServiceType ==
  ASSUME TypeInv, ServiceStep \/ RestartInference
  PROVE  TypeInv'
<1>0. /\ TypeOK /\ BatchOK /\ MaxChanges \in Nat /\ BatchSize \in Nat \ {0} /\ QueueSize \in Nat
      /\ batch \subseteq Frames /\ Cardinality(batch) \in Nat
      /\ Cardinality({}) = 0
  BY InferenceAssumption, SubsetOfFrames, FS_EmptySet DEF TypeInv, TypeOK
<1>1. CASE Take
  <2> DEFINE jobs == batch \cup {Head(queue)}
  <2>1. /\ Tail(queue) \in Seq(Frames) /\ Len(Tail(queue)) = Len(queue) - 1
        /\ Head(queue) \in Frames /\ Len(queue) \in Nat
    BY <1>0, <1>1, TailRange DEF Take, TypeOK
  <2>2. Cardinality(batch) < BatchSize
    <3>1. CASE runner = "gather"
      BY <1>0, <3>1 DEF BatchOK
    <3>2. CASE runner = "get"
      <4>1. batch = {}
        BY <1>0, <3>2 DEF BatchOK
      <4>2. Cardinality(batch) = 0
        BY <1>0, <4>1
      <4> QED BY <1>0, <4>2
    <3> QED BY <1>1, <3>1, <3>2 DEF Take
  <2>3. jobs \subseteq Frames /\ Cardinality(jobs) \in Nat
        /\ Cardinality(jobs) <= Cardinality(batch) + 1
    <3>1. IsFiniteSet(batch)
      BY <1>0, SubsetOfFrames
    <3>2. Cardinality(jobs) = Cardinality(batch) \/ Cardinality(jobs) = Cardinality(batch) + 1
      BY <3>1, FS_AddElement
    <3> QED BY <1>0, <2>1, <3>2
  <2>4. Cardinality(jobs) <= BatchSize
    BY <1>0, <2>2, <2>3
  <2>5. queue' = Tail(queue) /\ Collect(jobs) /\ service' = "open"
    BY <1>1 DEF Take
  <2> HIDE DEF jobs
  <2>6. /\ batch' \subseteq Frames /\ Cardinality(batch') <= BatchSize
        /\ runner' \in {"get", "gather", "predict"} /\ BatchOK'
    <3>1. CASE Cardinality(jobs) = BatchSize
      BY <1>0, <2>3, <2>4, <2>5, <3>1, StartBatchType DEF Collect, BatchOK
    <3>2. CASE Cardinality(jobs) # BatchSize
      BY <1>0, <2>3, <2>4, <2>5, <3>2 DEF Collect, BatchOK
    <3> QED BY <3>1, <3>2
  <2>7. queue' \in Seq(Frames) /\ Len(queue') <= QueueSize
    BY <1>0, <2>1, <2>5 DEF TypeOK
  <2> QED BY <1>0, <1>1, <2>6, <2>7 DEF Take, TypeInv, TypeOK
<1>2. CASE Deadline
  <2>1. /\ batch' \subseteq Frames /\ Cardinality(batch') <= BatchSize
        /\ runner' \in {"get", "predict"} /\ BatchOK'
    BY <1>0, <1>2, StartBatchType DEF Deadline, BatchOK, TypeOK
  <2> QED BY <1>0, <1>2, <2>1 DEF Deadline, TypeInv, TypeOK
<1>3. CASE Predicted
  <2>1. future' \in [Frames -> Futures]
    BY <1>0, <1>3, SettleType DEF Predicted, Futures
  <2> QED BY <1>0, <1>3, <2>1 DEF Predicted, TypeInv, TypeOK, BatchOK
<1>4. CASE ServiceStops
  <2>1. future' \in [Frames -> Futures]
    BY <1>0, <1>4, SettleType DEF ServiceStops, Futures
  <2>2. queue' \in Seq(Frames) /\ Len(queue') <= QueueSize
    <3>1. queue' = <<>>
      BY <1>4 DEF ServiceStops
    <3> QED BY <1>0, <3>1
  <2>3. /\ service' = "down" /\ runner' = "gone" /\ batch' = {}
        /\ orphans' \subseteq orphans \cup batch
        /\ UNCHANGED <<sampled, inbox, consumer, changes, latest>>
    BY <1>4 DEF ServiceStops
  <2> QED BY <1>0, <2>1, <2>2, <2>3 DEF TypeInv, TypeOK, BatchOK
<1>5. CASE ServiceStarts
  <2>1. Cardinality(batch) <= BatchSize
    BY <1>0 DEF TypeOK
  <2> QED BY <1>0, <1>5, <2>1 DEF ServiceStarts, TypeInv, TypeOK, BatchOK
<1>6. CASE RestartInference
  <2>1. changes' \in 0 .. MaxChanges
    BY <1>0, <1>6 DEF RestartInference, TypeOK
  <2> QED BY <1>0, <1>6, <2>1 DEF RestartInference, TypeInv, TypeOK, BatchOK
<1> QED BY <1>1, <1>2, <1>3, <1>4, <1>5, <1>6 DEF ServiceStep

LEMMA TypeInit == ASSUME Init PROVE TypeInv
<1>1. /\ BatchSize \in Nat /\ QueueSize \in Nat /\ InboxSize \in Nat
      /\ MaxFrames \in Nat /\ MaxChanges \in Nat
      /\ Cardinality({}) = 0
  BY InferenceAssumption, FS_EmptySet
<1>2. /\ sampled = 0 /\ service = "open" /\ queue = <<>> /\ runner = "get" /\ batch = {}
      /\ changes = 0 /\ orphans = {}
  BY DEF Init
<1>3. Fresh \in [pc : {"idle", "waiting", "over"}, frame : 0 .. MaxFrames]
  BY <1>1 DEF Fresh
<1>4. /\ consumer \in [Cameras -> [pc : {"idle", "waiting", "over"}, frame : 0 .. MaxFrames]]
      /\ future \in [Frames -> Futures]
      /\ latest \in [Cameras -> 0 .. MaxFrames]
  BY <1>1, <1>3 DEF Init, Futures
<1>5. <<>> \in Seq(Frames) /\ Len(<<>>) = 0
  OBVIOUS
<1>6. inbox \in [Cameras -> Seq(Frames)] /\ \A c \in Cameras : inbox[c] = <<>>
  BY <1>5 DEF Init
<1>7. \A c \in Cameras : Len(inbox[c]) <= InboxSize
  BY <1>1, <1>5, <1>6
<1>8. /\ sampled \in 0 .. MaxFrames /\ changes \in 0 .. MaxChanges
      /\ Len(queue) <= QueueSize /\ Cardinality(batch) <= BatchSize
  BY <1>1, <1>2, <1>5
<1> QED BY <1>2, <1>4, <1>5, <1>6, <1>7, <1>8 DEF TypeInv, TypeOK, BatchOK

LEMMA TypeStep == TypeInv /\ FrameInv /\ [Next]_vars => TypeInv'
<1> SUFFICES ASSUME TypeInv, FrameInv, [Next]_vars PROVE TypeInv'
  OBVIOUS
<1>1. CASE UNCHANGED vars
  BY <1>1 DEF vars, TypeInv, TypeOK, BatchOK
<1> QED BY <1>1, CameraType, ServiceType DEF Next, FrameInv

-----------------------------------------------------------------------------
(* The frames that wait.                                                   *)

LEMMA FrameInit == ASSUME Init PROVE FrameInv
<1>1. \A c \in Cameras : inbox[c] = <<>> /\ latest[c] = 0 /\ consumer[c] = Fresh
  BY DEF Init
<1>2. Range(<<>>) = {} /\ Sorted(<<>>)
  BY DEF Range, Sorted
<1>3. sampled = 0 /\ \A f \in Frames : future[f] = "none"
  BY DEF Init
<1>4. Fresh.frame = 0 /\ Fresh.pc = "idle"
  BY DEF Fresh
<1> QED BY <1>1, <1>2, <1>3, <1>4 DEF FrameInv, Ordered, Apart, Unsampled

LEMMA InboxFrames ==
  ASSUME TypeOK, NEW c \in Cameras, NEW f \in Range(inbox[c])
  PROVE  f \in Frames /\ f \in Nat
<1>1. inbox[c] \in Seq(Frames)
  BY DEF TypeOK
<1>2. PICK k \in 1 .. Len(inbox[c]) : inbox[c][k] = f
  BY <1>1, RangeElements
<1>3. f \in Frames
  BY <1>1, <1>2
<1> QED BY <1>3 DEF Frames

(* What a step may do to the frames a camera has in hand.                  *)
LEMMA Undisturbed ==
  ASSUME TypeOK, NEW c \in Cameras, Ordered(c),
         sampled' \in Nat, sampled' >= sampled,
         inbox'[c] = inbox[c], consumer'[c] = consumer[c], latest'[c] = latest[c],
         \A f \in Range(inbox[c]) : future'[f] = "none"
  PROVE  Ordered(c)'
<1>1. /\ sampled \in Nat /\ latest[c] \in Nat /\ consumer[c].frame \in Nat
      /\ \A f \in Range(inbox[c]) : f \in Nat
  BY InboxFrames DEF TypeOK
<1> QED BY <1>1 DEF Ordered, Sorted

LEMMA SampleFrames ==
  ASSUME TypeInv, FrameInv, NEW c \in Cameras, Sample(c)
  PROVE  FrameInv'
<1> DEFINE n == sampled + 1
           q == Enqueue(inbox[c], n)
<1>0. /\ TypeOK /\ sampled \in Nat /\ n \in Frames /\ n > sampled
      /\ inbox \in [Cameras -> Seq(Frames)]
      /\ \A d \in Cameras : \A f \in Range(inbox[d]) :
            f \in Frames /\ f \in Nat /\ f < n /\ future[f] = "none"
      /\ future[n] = "none"
  <2>1. TypeOK /\ sampled \in Nat /\ n \in Frames /\ n > sampled
    BY InferenceAssumption DEF TypeInv, TypeOK, Frames, Sample
  <2>2. inbox \in [Cameras -> Seq(Frames)]
    BY <2>1 DEF TypeOK
  <2>3. \A d \in Cameras : \A f \in Range(inbox[d]) : f \in Frames /\ f <= sampled /\ future[f] = "none"
    BY <2>2, RangeElements DEF FrameInv, Ordered
  <2> QED BY <2>1, <2>2, <2>3 DEF FrameInv, Unsampled, Frames
<1>1. /\ q \in Seq(Frames) /\ Len(q) <= InboxSize /\ Sorted(q)
      /\ Range(q) \subseteq Range(inbox[c]) \cup {n}
  BY <1>0, EnqueueKeeps DEF FrameInv, Ordered, TypeOK
<1>2. /\ sampled' = n /\ inbox' = [inbox EXCEPT ![c] = q]
      /\ UNCHANGED <<consumer, future, latest>>
  BY DEF Sample
<1> HIDE DEF n, q
<1>3. \A d \in Cameras : inbox'[d] = IF d = c THEN q ELSE inbox[d]
  BY <1>0, <1>2
<1>4. ASSUME NEW d \in Cameras PROVE Ordered(d)'
  <2>0. /\ latest[d] \in Nat /\ consumer[d].frame \in Nat
        /\ latest[d] < n /\ consumer[d].frame < n /\ n \in Nat /\ n >= sampled
        /\ latest[d] <= sampled /\ consumer[d].frame <= sampled
    BY <1>0 DEF TypeOK, FrameInv, Ordered, Frames, n
  <2>1. CASE d = c
    BY <1>0, <1>1, <1>2, <1>3, <2>0, <2>1 DEF FrameInv, Ordered
  <2>2. CASE d # c
    BY <1>0, <1>2, <1>3, <2>0, <2>2, Undisturbed DEF FrameInv
  <2> QED BY <2>1, <2>2
<1>5. Apart'
  <2> SUFFICES ASSUME NEW d \in Cameras, NEW e \in Cameras, d # e
               PROVE  Range(inbox'[d]) \cap Range(inbox'[e]) = {}
    BY DEF Apart
  <2>1. \A f \in Range(inbox[d]) \cup Range(inbox[e]) : f # n
    BY <1>0
  <2>2. Range(inbox[d]) \cap Range(inbox[e]) = {}
    BY DEF FrameInv, Apart
  <2> QED BY <1>1, <1>3, <2>1, <2>2
<1>6. Unsampled'
  BY <1>0, <1>2 DEF FrameInv, Unsampled, Frames
<1> QED BY <1>4, <1>5, <1>6 DEF FrameInv

LEMMA SubmitFrames ==
  ASSUME TypeInv, FrameInv, NEW c \in Cameras, Submit(c)
  PROVE  /\ FrameInv'
         /\ \A f \in Frames : future[f] # "none" => future'[f] = future[f]
         /\ latest' = latest
<1> DEFINE h == Head(inbox[c])
           q == Tail(inbox[c])
           o == [pc |-> "waiting", frame |-> h]
<1>0. /\ TypeOK /\ sampled \in Nat
      /\ inbox \in [Cameras -> Seq(Frames)] /\ inbox[c] # <<>>
      /\ future \in [Frames -> Futures]
      /\ consumer \in [Cameras -> [pc : {"idle", "waiting", "over"}, frame : 0 .. MaxFrames]]
      /\ \A d \in Cameras : \A f \in Range(inbox[d]) : f \in Frames /\ f \in Nat
  BY InboxFrames DEF TypeInv, TypeOK, Submit
<1>1. /\ q \in Seq(Frames) /\ h \in Frames /\ Range(inbox[c]) = {h} \cup Range(q)
      /\ Sorted(q) /\ \A f \in Range(q) : h < f
  BY <1>0, TailRange, SortedTail DEF FrameInv, Ordered
<1>2. /\ inbox' = [inbox EXCEPT ![c] = q]
      /\ UNCHANGED <<sampled, latest>>
      /\ \/ /\ future' = [future EXCEPT ![h] = "pending"]
            /\ consumer' = [consumer EXCEPT ![c] = o]
         \/ /\ future' = [future EXCEPT ![h] = "refused"]
            /\ UNCHANGED consumer
  BY DEF Submit
<1>3. o.pc = "waiting" /\ o.frame = h
  OBVIOUS
<1> HIDE DEF h, q, o
<1>4. \A d \in Cameras : inbox'[d] = IF d = c THEN q ELSE inbox[d]
  BY <1>0, <1>2
<1>5. \A f \in Frames : f # h => future'[f] = future[f]
  BY <1>0, <1>2
<1>6. consumer'[c] = consumer[c] \/ consumer'[c] = o
  BY <1>0, <1>2
<1>7. future[h] = "none" /\ h <= sampled /\ latest[c] < h
  BY <1>1 DEF FrameInv, Ordered
<1>8. ASSUME NEW d \in Cameras PROVE Ordered(d)'
  <2>1. CASE d = c
    <3>1. \A f \in Range(q) : /\ f <= sampled /\ future'[f] = "none"
                              /\ latest[c] < f /\ h < f /\ consumer[c].frame < f
      <4>1. \A f \in Range(q) : f \in Range(inbox[c]) /\ f \in Frames /\ f # h /\ h < f
        BY <1>0, <1>1 DEF Frames
      <4> QED BY <1>5, <4>1 DEF FrameInv, Ordered
    <3>2. /\ latest[c] <= h /\ latest[c] <= sampled /\ consumer[c].frame <= sampled
      <4>1. latest[c] \in Nat /\ h \in Nat
        BY <1>0, <1>1 DEF TypeOK, Frames
      <4> QED BY <1>7, <4>1 DEF FrameInv, Ordered
    <3>3. /\ consumer'[c].frame \in {h, consumer[c].frame}
          /\ consumer'[c].pc = "waiting" => consumer'[c].frame = h
      <4>1. consumer[c].pc = "idle"
        BY DEF Submit
      <4> QED BY <1>3, <1>6, <4>1
    <3>4. /\ inbox'[c] = q /\ sampled' = sampled /\ latest'[c] = latest[c]
      BY <1>2, <1>4
    <3> QED BY <1>1, <1>7, <2>1, <3>1, <3>2, <3>3, <3>4 DEF Ordered
  <2>2. CASE d # c
    <3>1. \A f \in Range(inbox[d]) : f # h /\ f \in Frames /\ future[f] = "none"
      BY <1>0, <1>1, <2>2 DEF FrameInv, Apart, Ordered
    <3>2. consumer'[d] = consumer[d]
      BY <1>0, <1>2, <2>2
    <3>3. sampled' \in Nat /\ sampled' >= sampled
      BY <1>0, <1>2
    <3> QED BY <1>0, <1>2, <1>4, <1>5, <2>2, <3>1, <3>2, <3>3, Undisturbed DEF FrameInv
  <2> QED BY <2>1, <2>2
<1>9. Apart'
  BY <1>1, <1>4 DEF FrameInv, Apart
<1>10. Unsampled'
  <2>1. h \in Nat /\ ~(h > sampled)
    BY <1>0, <1>1, <1>7 DEF Frames
  <2> QED BY <1>2, <1>5, <2>1 DEF FrameInv, Unsampled
<1> QED BY <1>2, <1>5, <1>7, <1>8, <1>9, <1>10 DEF FrameInv

LEMMA AnsweredFrames ==
  ASSUME TypeInv, FrameInv, NEW c \in Cameras, Answered(c)
  PROVE  /\ FrameInv' /\ future' = future
         /\ \A d \in Cameras : latest'[d] >= latest[d]
<1> DEFINE f == consumer[c].frame
           pc == IF future[f] = "cancelled" THEN "over" ELSE "idle"
           o == [consumer[c] EXCEPT !.pc = pc]
<1>0. /\ TypeOK /\ sampled \in Nat
      /\ consumer \in [Cameras -> [pc : {"idle", "waiting", "over"}, frame : 0 .. MaxFrames]]
      /\ latest \in [Cameras -> 0 .. MaxFrames] /\ \A d \in Cameras : latest[d] \in Nat
      /\ inbox \in [Cameras -> Seq(Frames)]
  BY DEF TypeInv, TypeOK
<1>1. /\ consumer' = [consumer EXCEPT ![c] = o]
      /\ o.pc # "waiting" /\ o.frame = f
  BY <1>0 DEF Answered
<1>2. /\ UNCHANGED <<sampled, inbox, future>>
      /\ latest' = latest \/ latest' = [latest EXCEPT ![c] = f]
      /\ f \in Frames /\ latest[c] <= f /\ f <= sampled
  BY DEF Answered, FrameInv, Ordered
<1> HIDE DEF f, o
<1>3. \A d \in Cameras : /\ consumer'[d] = IF d = c THEN o ELSE consumer[d]
                         /\ d # c => latest'[d] = latest[d]
                         /\ latest'[c] \in {latest[c], f}
  BY <1>0, <1>1, <1>2
<1>4. ASSUME NEW d \in Cameras PROVE Ordered(d)'
  <2>1. CASE d = c
    <3>1. \A g \in Range(inbox[c]) : f < g
      BY DEF FrameInv, Ordered, f
    <3>2. inbox'[c] = inbox[c] /\ consumer'[c].pc # "waiting" /\ consumer'[c].frame = f
      BY <1>1, <1>2, <1>3
    <3> QED BY <1>2, <1>3, <2>1, <3>1, <3>2 DEF FrameInv, Ordered
  <2>2. CASE d # c
    BY <1>0, <1>2, <1>3, <2>2, Undisturbed DEF FrameInv, Ordered
  <2> QED BY <2>1, <2>2
<1>5. Apart' /\ Unsampled'
  BY <1>2 DEF FrameInv, Apart, Unsampled
<1>6. \A d \in Cameras : latest'[d] >= latest[d]
  <2>1. f \in Nat
    BY <1>2 DEF Frames
  <2> QED BY <1>0, <1>2, <1>3, <2>1
<1> QED BY <1>2, <1>4, <1>5, <1>6 DEF FrameInv

LEMMA ReplaceFrames ==
  ASSUME TypeInv, FrameInv, NEW c \in Cameras, ReplaceWorker(c)
  PROVE  /\ FrameInv'
         /\ \A f \in Frames : future[f] # "pending" => future'[f] = future[f]
         /\ latest' = latest
<1>0. /\ TypeOK /\ sampled \in Nat
      /\ consumer \in [Cameras -> [pc : {"idle", "waiting", "over"}, frame : 0 .. MaxFrames]]
      /\ inbox \in [Cameras -> Seq(Frames)]
      /\ \A d \in Cameras : \A f \in Range(inbox[d]) : f \in Frames
  BY InboxFrames DEF TypeInv, TypeOK
<1>1. /\ UNCHANGED <<sampled, latest>>
      /\ consumer' = [consumer EXCEPT ![c] = Fresh]
      /\ inbox' = [inbox EXCEPT ![c] = <<>>]
      /\ \A f \in Frames : future[f] # "pending" => future'[f] = future[f]
  BY DEF ReplaceWorker
<1>2. /\ Fresh.pc = "idle" /\ Fresh.frame = 0 /\ Range(<<>>) = {} /\ Sorted(<<>>)
  BY DEF Fresh, Range, Sorted
<1>3. \A d \in Cameras : /\ consumer'[d] = IF d = c THEN Fresh ELSE consumer[d]
                         /\ inbox'[d] = IF d = c THEN <<>> ELSE inbox[d]
  BY <1>0, <1>1
<1>4. ASSUME NEW d \in Cameras PROVE Ordered(d)'
  <2>1. CASE d = c
    <3>1. /\ inbox'[d] = <<>> /\ consumer'[d] = Fresh /\ latest'[d] = latest[d]
          /\ latest[d] <= sampled /\ sampled' = sampled
      BY <1>1, <1>3, <2>1 DEF FrameInv, Ordered
    <3> QED BY <1>0, <1>2, <3>1 DEF Ordered
  <2>2. CASE d # c
    <3>1. \A f \in Range(inbox[d]) : future'[f] = "none"
      BY <1>0, <1>1 DEF FrameInv, Ordered
    <3> QED BY <1>0, <1>1, <1>3, <2>2, <3>1, Undisturbed DEF FrameInv
  <2> QED BY <2>1, <2>2
<1>5. Apart'
  BY <1>2, <1>3 DEF FrameInv, Apart
<1>6. Unsampled'
  BY <1>1 DEF FrameInv, Unsampled
<1> QED BY <1>1, <1>4, <1>5, <1>6 DEF FrameInv

LEMMA ServiceFrames ==
  ASSUME TypeInv, FrameInv, ServiceStep \/ RestartInference
  PROVE  /\ FrameInv'
         /\ \A f \in Frames : future[f] # "pending" => future'[f] = future[f]
         /\ latest' = latest
<1>1. UNCHANGED <<sampled, inbox, consumer, latest>>
  BY DEF ServiceStep, Take, Deadline, Predicted, ServiceStops, ServiceStarts, RestartInference
<1>2. \A f \in Frames : future[f] # "pending" => future'[f] = future[f]
  BY DEF ServiceStep, Take, Deadline, Predicted, ServiceStops, ServiceStarts,
         RestartInference, Settle
<1>3. TypeOK /\ sampled \in Nat
      /\ \A d \in Cameras : \A f \in Range(inbox[d]) : f \in Frames
  BY InboxFrames DEF TypeInv, TypeOK
<1>4. ASSUME NEW d \in Cameras PROVE Ordered(d)'
  <2>1. \A f \in Range(inbox[d]) : future'[f] = "none"
    BY <1>2, <1>3 DEF FrameInv, Ordered
  <2> QED BY <1>1, <1>3, <2>1, Undisturbed DEF FrameInv
<1>5. Apart' /\ Unsampled'
  BY <1>1, <1>2 DEF FrameInv, Apart, Unsampled
<1> QED BY <1>1, <1>2, <1>4, <1>5 DEF FrameInv

LEMMA FrameStep == TypeInv /\ FrameInv /\ [Next]_vars => FrameInv'
<1> SUFFICES ASSUME TypeInv, FrameInv, [Next]_vars PROVE FrameInv'
  OBVIOUS
<1>1. CASE UNCHANGED vars
  BY <1>1 DEF vars, FrameInv, Ordered, Apart, Unsampled
<1> QED BY <1>1, SampleFrames, SubmitFrames, AnsweredFrames, ReplaceFrames, ServiceFrames
       DEF Next

LEMMA Invariants == Spec => [](TypeInv /\ FrameInv)
<1> QED BY TypeInit, TypeStep, FrameInit, FrameStep, PTL DEF Spec

(* A worker's queue never exceeds its bound and the service's queue and    *)
(* batch never theirs, through any order of frames, answers, failures and  *)
(* restarts (worker.py:235, service.py:89 and :149).                       *)
THEOREM TypeCorrect == Spec => []TypeOK
<1>1. TypeInv => TypeOK
  BY DEF TypeInv
<1> QED BY <1>1, Invariants, PTL

(* What became of a job is decided once: a result, an error, a refusal or  *)
(* a cancellation is never overwritten, whoever comes second               *)
(* (service.py:107, worker.py:263).                                        *)
THEOREM JobsDecidedOnce == Spec => DecidedOnce
<1> DEFINE Kept == \A f \in Frames :
                      future[f] \in {"refused", "result", "error", "cancelled"}
                         => future'[f] = future[f]
<1>1. ASSUME TypeInv, FrameInv, [Next]_vars PROVE Kept
  <2>1. CASE UNCHANGED vars
    BY <2>1 DEF vars
  <2>2. ASSUME NEW c \in Cameras, Sample(c) PROVE Kept
    BY <2>2 DEF Sample
  <2> QED BY <1>1, <2>1, <2>2, SubmitFrames, AnsweredFrames, ReplaceFrames, ServiceFrames
         DEF Next
<1>2. TypeInv /\ FrameInv /\ [Next]_vars => [Kept]_vars
  BY <1>1
<1> QED BY <1>2, Invariants, PTL DEF Spec, DecidedOnce

(* The results of a camera reach its engine in the order of its frames,    *)
(* whatever the queue dropped, the service refused and a restart cut off   *)
(* (worker.py:235 and :263).                                               *)
THEOREM InOrder == Spec => ResultsInOrder
<1> DEFINE Rises == \A c \in Cameras : latest'[c] >= latest[c]
<1>1. ASSUME TypeInv, FrameInv, [Next]_vars PROVE Rises
  <2>0. \A c \in Cameras : latest[c] \in Nat
    BY <1>1 DEF TypeInv, TypeOK
  <2>1. CASE latest' = latest
    BY <2>0, <2>1
  <2>2. latest' = latest \/ \E c \in Cameras : Answered(c)
    BY <1>1, SubmitFrames, ReplaceFrames, ServiceFrames DEF Next, vars, Sample
  <2> QED BY <1>1, <2>1, <2>2, AnsweredFrames
<1>2. TypeInv /\ FrameInv /\ [Next]_vars => [Rises]_vars
  BY <1>1
<1> QED BY <1>2, Invariants, PTL DEF Spec, ResultsInOrder

-----------------------------------------------------------------------------
(* The jobs under way.                                                     *)

Held(f) == f \in Range(queue) \/ f \in batch \/ f \in orphans

LEMMA CamerasHold ==
  ASSUME TypeInv, FrameInv, PendingIsHeld, NEW c \in Cameras,
         Sample(c) \/ Submit(c) \/ Answered(c) \/ ReplaceWorker(c)
  PROVE  PendingIsHeld'
<1> SUFFICES ASSUME NEW f \in Frames, future'[f] = "pending" PROVE Held(f)'
  BY DEF PendingIsHeld, Held, Frames
<1>0. future[f] = "pending" => Held(f)
  BY DEF PendingIsHeld, Held
<1>1. CASE Sample(c) \/ Answered(c) \/ ReplaceWorker(c)
  BY <1>0, <1>1 DEF Sample, Answered, ReplaceWorker, Held
<1>2. CASE Submit(c)
  <2> DEFINE h == Head(inbox[c])
  <2>1. /\ inbox \in [Cameras -> Seq(Frames)] /\ inbox[c] # <<>> /\ queue \in Seq(Frames)
        /\ future \in [Frames -> Futures]
    BY <1>2 DEF Submit, TypeInv, TypeOK
  <2>2. h \in Frames
    BY <2>1, TailRange
  <2>3. /\ UNCHANGED <<batch, orphans>>
        /\ \/ queue' = Append(queue, h) /\ future' = [future EXCEPT ![h] = "pending"]
           \/ queue' = queue /\ future' = [future EXCEPT ![h] = "refused"]
    BY <1>2 DEF Submit
  <2> HIDE DEF h
  <2>4. Range(Append(queue, h)) = Range(queue) \cup {h}
    BY <2>1, <2>2, AppendRange
  <2>5. f # h => future[f] = "pending"
    BY <2>1, <2>3
  <2>6. CASE queue' = Append(queue, h)
    BY <1>0, <2>3, <2>4, <2>5, <2>6 DEF Held
  <2>7. CASE queue' = queue /\ future' = [future EXCEPT ![h] = "refused"]
    <3>1. f # h
      BY <2>1, <2>2, <2>7
    <3> QED BY <1>0, <2>3, <2>5, <2>7, <3>1 DEF Held
  <2> QED BY <2>3, <2>6, <2>7
<1> QED BY <1>1, <1>2

LEMMA ServiceHolds ==
  ASSUME TypeInv, PendingIsHeld, ServiceStep \/ RestartInference
  PROVE  PendingIsHeld'
<1> SUFFICES ASSUME NEW f \in Frames, future'[f] = "pending" PROVE Held(f)'
  BY DEF PendingIsHeld, Held, Frames
<1>1. future[f] = "pending"
  BY DEF ServiceStep, Take, Deadline, Predicted, ServiceStops, ServiceStarts,
         RestartInference, Settle
<1>2. Held(f) /\ queue \in Seq(Frames)
  BY <1>1 DEF PendingIsHeld, Held, TypeInv, TypeOK
<1>a. ASSUME NEW jobs, StartBatch(jobs), f \in jobs PROVE f \in batch'
  BY <1>1, <1>a DEF StartBatch
<1>3. CASE Take
  <2>1. Range(queue) = {Head(queue)} \cup Range(Tail(queue))
    BY <1>2, <1>3, TailRange DEF Take
  <2> DEFINE jobs == batch \cup {Head(queue)}
  <2>2. f \in jobs => f \in batch'
    <3>1. Collect(jobs)
      BY <1>3 DEF Take
    <3> HIDE DEF jobs
    <3> QED BY <1>a, <3>1 DEF Collect
  <2>3. queue' = Tail(queue) /\ orphans' = orphans
    BY <1>3 DEF Take
  <2> QED BY <1>2, <2>1, <2>2, <2>3 DEF Held
<1>4. CASE Deadline
  BY <1>2, <1>4, <1>a DEF Deadline, Held
<1>5. CASE Predicted
  <2>1. f \notin batch
    BY <1>1, <1>5 DEF Predicted, Settle
  <2> QED BY <1>2, <1>5, <2>1 DEF Predicted, Held
<1>6. CASE ServiceStops
  <2>1. f \notin Range(queue) /\ (runner = "predict" => f \notin batch)
    BY <1>1, <1>6 DEF ServiceStops, Settle
  <2>2. f \in batch => runner = "gather"
    BY <2>1 DEF TypeInv, TypeOK, BatchOK
  <2>3. orphans' = orphans \cup (IF runner = "gather" THEN batch ELSE {})
    BY <1>6 DEF ServiceStops
  <2> QED BY <1>2, <2>1, <2>2, <2>3 DEF Held
<1>7. CASE ServiceStarts \/ RestartInference
  BY <1>2, <1>7 DEF ServiceStarts, RestartInference, Held
<1> QED BY <1>3, <1>4, <1>5, <1>6, <1>7 DEF ServiceStep

(* A job whose submitter still waits is in the service's queue or batch:   *)
(* none is dropped silently, whatever fails or restarts, except those that *)
(* a stop took out of _collect_batch's hands (service.py:69 and :149).     *)
THEOREM NoJobLost == Spec => []PendingIsHeld
<1>1. Init => PendingIsHeld
  BY DEF Init, PendingIsHeld
<1>2. TypeInv /\ FrameInv /\ PendingIsHeld /\ [Next]_vars => PendingIsHeld'
  <2> SUFFICES ASSUME TypeInv, FrameInv, PendingIsHeld, [Next]_vars PROVE PendingIsHeld'
    OBVIOUS
  <2>1. CASE UNCHANGED vars
    BY <2>1 DEF vars, PendingIsHeld
  <2> QED BY <2>1, CamerasHold, ServiceHolds DEF Next
<1> QED BY <1>1, <1>2, Invariants, PTL DEF Spec

===============================================================================
