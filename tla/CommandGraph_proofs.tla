------------------------ MODULE CommandGraph_proofs ------------------------
(***************************************************************************)
(* Proofs about CommandGraph, for any number of handles, kernels and       *)
(* calls.                                                                  *)
(***************************************************************************)
EXTENDS CommandGraph, SequenceTheorems, TLAPS

\* A handle that may begin a capture has an empty modifiable graph: that is
\* what a throwing finalize() breaks.
NodesInv ==
    \A g \in Handles :
        /\ modifiable[g] = captured[g]
        /\ executable[g] # NoGraph => executable[g] = modifiable[g]
        /\ executable[g] = NoGraph /\ ~is_recording[g] => modifiable[g] = <<>>
        /\ is_recording[g] => executable[g] = NoGraph

QueueInv == OneRecorder /\ QuietCapture

\* Enqueueing is the only step that grows sequences.
LEMMA EnqueueType ==
    ASSUME TypeOK, NEW work \in Seq(Kernels), NEW meant \in Seq(Kernels),
           Enqueue(work, meant)
    PROVE  /\ queue' \in Seq(Kernels) /\ asked' \in Seq(Kernels)
           /\ modifiable' \in [Handles -> Seq(Kernels)]
           /\ captured' \in [Handles -> Seq(Kernels)]
<1> USE DEF TypeOK, Enqueue
<1>1. CASE recorder = NoGraph
  <2>1. queue \o work \in Seq(Kernels) /\ asked \o meant \in Seq(Kernels)
    BY ConcatProperties
  <2> QED
    BY <1>1, <2>1
<1>2. CASE recorder # NoGraph
  <2>1. recorder \in Handles
    BY <1>2
  <2>2. /\ modifiable[recorder] \o work \in Seq(Kernels)
        /\ captured[recorder] \o meant \in Seq(Kernels)
    BY <2>1, ConcatProperties
  <2> QED
    BY <1>2, <2>2
<1> QED
  BY <1>1, <1>2

LEMMA Associative ==
    ASSUME NEW s \in Seq(Kernels), NEW t \in Seq(Kernels), NEW u \in Seq(Kernels)
    PROVE  s \o (t \o u) = (s \o t) \o u
  BY ConcatAssociative

LEMMA Singleton == \A k \in Kernels : <<k>> \in Seq(Kernels)
  OBVIOUS

LEMMA Step ==
    ASSUME TypeOK, QueueInv, [Next]_vars
    PROVE  TypeOK' /\ QueueInv'
<1> USE GraphAssumption DEF TypeOK, QueueInv, OneRecorder, QuietCapture
<1>1. ASSUME NEW k \in Kernels, Launch(k) PROVE TypeOK' /\ QueueInv'
  <2>1. Enqueue(<<k>>, <<k>>)
        /\ UNCHANGED <<recorder, is_recording, executable, ran>>
    BY <1>1 DEF Launch
  <2>2. TypeOK'
    BY <2>1, Singleton, EnqueueType
  <2> QED
    BY <2>1, <2>2 DEF Enqueue
<1>2. ASSUME NEW g \in Handles, capture_begin(g) PROVE TypeOK' /\ QueueInv'
  BY <1>2 DEF capture_begin, MayBegin, Waited
<1>3. ASSUME NEW g \in Handles, capture_end(g) PROVE TypeOK' /\ QueueInv'
  BY <1>3 DEF capture_end
<1>4. ASSUME NEW g \in Handles, replay(g) PROVE TypeOK' /\ QueueInv'
  <2>1. /\ Enqueue(executable[g], captured[g])
        /\ executable[g] \in Seq(Kernels) /\ captured[g] \in Seq(Kernels)
        /\ UNCHANGED <<recorder, is_recording, executable, ran>>
    BY <1>4 DEF replay
  <2>2. TypeOK'
    BY <2>1, EnqueueType
  <2> QED
    BY <2>1, <2>2 DEF Enqueue
<1>5. ASSUME NEW g \in Handles, reset(g) PROVE TypeOK' /\ QueueInv'
  BY <1>5 DEF reset, Fresh, Waited
<1>6. ASSUME NEW g \in Handles, Assign(g) PROVE TypeOK' /\ QueueInv'
  BY <1>6 DEF Assign, Fresh
<1>7. CASE Run
  BY <1>7 DEF Run
<1>8. CASE UNCHANGED vars
  BY <1>8 DEF vars
<1> QED
  BY <1>1, <1>2, <1>3, <1>4, <1>5, <1>6, <1>7, <1>8 DEF Next

LEMMA QueueSafe == Spec => [](TypeOK /\ QueueInv)
<1>1. Init => TypeOK /\ QueueInv
  BY GraphAssumption DEF Init, TypeOK, QueueInv, OneRecorder, QuietCapture
<1> QED
  BY <1>1, Step, PTL DEF Spec

\* Every reachable state is well typed.
THEOREM GraphTypeCorrect == Spec => []TypeOK
  BY QueueSafe, PTL

\* The recording flags agree with the queue: at most one handle records, and
\* the queue is in recording mode exactly while one does, also when a handle
\* is replaced while it records or finalize() throws.
THEOREM GraphOneRecorder == Spec => []OneRecorder
<1>1. QueueInv => OneRecorder
  BY DEF QueueInv
<1> QED
  BY <1>1, QueueSafe, PTL

\* No capture begins before the queue has drained: nothing recorded overlaps
\* work that was under way.
THEOREM GraphQuietCapture == Spec => []QuietCapture
<1>1. QueueInv => QuietCapture
  BY DEF QueueInv
<1> QED
  BY <1>1, QueueSafe, PTL

LEMMA NodesStep ==
    ASSUME ~MayFail, TypeOK, QueueInv, NodesInv, [Next]_vars
    PROVE  NodesInv'
<1> USE GraphAssumption DEF TypeOK, QueueInv, OneRecorder, NodesInv
<1>1. ASSUME NEW k \in Kernels, Launch(k) PROVE NodesInv'
  BY <1>1, ZenonT(40) DEF Launch, Enqueue
<1>2. ASSUME NEW g \in Handles, capture_begin(g) PROVE NodesInv'
  BY <1>2 DEF capture_begin, MayBegin
<1>3. ASSUME NEW g \in Handles, capture_end(g) PROVE NodesInv'
  BY <1>3 DEF capture_end
<1>4. ASSUME NEW g \in Handles, replay(g) PROVE NodesInv'
  <2>1. /\ Enqueue(captured[g], captured[g])
        /\ UNCHANGED <<recorder, is_recording, executable, ran>>
    BY <1>4 DEF replay
  <2>2. CASE recorder = NoGraph
    BY <2>1, <2>2 DEF Enqueue
  <2>3. CASE recorder # NoGraph
    <3> DEFINE graph == modifiable[recorder] \o captured[g]
    <3>1. recorder \in Handles /\ is_recording[recorder] /\ executable[recorder] = NoGraph
      BY <2>3
    <3>2. /\ modifiable' = [modifiable EXCEPT ![recorder] = graph]
          /\ captured' = [captured EXCEPT ![recorder] = graph]
      BY <2>1, <2>3, <3>1 DEF Enqueue
    <3> HIDE DEF graph
    <3> QED
      BY <2>1, <3>1, <3>2
  <2> QED
    BY <2>2, <2>3
<1>5. ASSUME NEW g \in Handles, reset(g) PROVE NodesInv'
  BY <1>5 DEF reset, Fresh
<1>6. ASSUME NEW g \in Handles, Assign(g) PROVE NodesInv'
  BY <1>6 DEF Assign, Fresh
<1>7. CASE Run
  BY <1>7 DEF Run
<1>8. CASE UNCHANGED vars
  BY <1>8 DEF vars
<1> QED
  BY <1>1, <1>2, <1>3, <1>4, <1>5, <1>6, <1>7, <1>8 DEF Next

LEMMA AskedStep ==
    ASSUME TypeOK, NodesInv, RunsWhatWasAsked, [Next]_vars
    PROVE  RunsWhatWasAsked'
<1> USE DEF TypeOK, RunsWhatWasAsked
<1>1. ASSUME NEW work \in Seq(Kernels), Enqueue(work, work), ran' = ran
      PROVE  RunsWhatWasAsked'
  <2>1. CASE recorder = NoGraph
    <3>1. queue' = queue \o work /\ asked' = asked \o work
      BY <1>1, <2>1 DEF Enqueue
    <3>2. ran \o (queue \o work) = (ran \o queue) \o work
      BY Associative, ZenonT(40)
    <3> QED
      BY <1>1, <3>1, <3>2
  <2>2. CASE recorder # NoGraph
    BY <1>1, <2>2 DEF Enqueue
  <2> QED
    BY <2>1, <2>2
<1>2. ASSUME NEW k \in Kernels, Launch(k) PROVE RunsWhatWasAsked'
  BY <1>1, <1>2, Singleton DEF Launch
<1>3. ASSUME NEW g \in Handles, replay(g) PROVE RunsWhatWasAsked'
  <2>1. executable[g] \in Seq(Kernels) /\ captured[g] = executable[g]
    BY <1>3 DEF replay, NodesInv
  <2> QED
    BY <1>1, <1>3, <2>1 DEF replay
<1>4. CASE Run
  <2>1. queue # <<>> /\ ran' = Append(ran, Head(queue)) /\ queue' = Tail(queue)
        /\ asked' = asked
    BY <1>4 DEF Run
  <2> DEFINE h == <<Head(queue)>>
  <2>2. Head(queue) \in Kernels /\ Tail(queue) \in Seq(Kernels) /\ h \in Seq(Kernels)
    BY <2>1, HeadTailProperties, Singleton
  <2>3. h \o Tail(queue) = queue
    BY <2>1, <2>2
  <2>4. Append(ran, Head(queue)) = ran \o h
    BY <2>2, AppendIsConcat
  <2>5. (ran \o h) \o Tail(queue) = ran \o (h \o Tail(queue))
    BY <2>2, ConcatAssociative
  <2> QED
    BY <2>1, <2>3, <2>4, <2>5
<1>5. ASSUME NEW g \in Handles, capture_begin(g) \/ capture_end(g) \/ reset(g) \/ Assign(g)
      PROVE  RunsWhatWasAsked'
  BY <1>5 DEF capture_begin, capture_end, reset, Assign
<1>6. CASE UNCHANGED vars
  BY <1>6 DEF vars
<1> QED
  BY <1>2, <1>3, <1>4, <1>5, <1>6 DEF Next

LEMMA GraphInit ==
    Init => TypeOK /\ QueueInv /\ NodesInv /\ RunsWhatWasAsked
  BY GraphAssumption DEF Init, TypeOK, QueueInv, OneRecorder, QuietCapture,
     NodesInv, RunsWhatWasAsked

\* Unless finalize() throws, an executable holds its last capture only.
THEOREM GraphIsolated ==
    ASSUME ~MayFail
    PROVE  Spec => []CaptureIsolated
<1> DEFINE Inv == TypeOK /\ QueueInv /\ NodesInv
<1>1. Init => Inv
  BY GraphInit
<1>2. Inv /\ [Next]_vars => Inv'
  BY Step, NodesStep
<1>3. Inv => CaptureIsolated
  BY DEF NodesInv, CaptureIsolated
<1> QED
  BY <1>1, <1>2, <1>3, PTL DEF Spec

\* Unless finalize() throws, the device runs what the client asked for.
THEOREM GraphRunsWhatWasAsked ==
    ASSUME ~MayFail
    PROVE  Spec => []RunsWhatWasAsked
<1> DEFINE Inv == TypeOK /\ QueueInv /\ NodesInv /\ RunsWhatWasAsked
<1>1. Init => Inv
  BY GraphInit
<1>2. Inv /\ [Next]_vars => Inv'
  BY Step, NodesStep, AskedStep
<1> QED
  BY <1>1, <1>2, PTL DEF Spec
=============================================================================
