---------------------------- MODULE CommandGraph ----------------------------
(***************************************************************************)
(* quixicore::xpu::CommandGraph: capture of the work enqueued on a queue,  *)
(* and its replay.  Several handles may be made over the same in-order     *)
(* queue, as an engine does that keeps one graph per batch size.           *)
(*                                                                         *)
(* From the SYCL graph extension, as the class uses it: work enqueued on a *)
(* queue that records becomes a node of the recording graph (a replay      *)
(* becomes the nodes it would run), wait() and begin_recording() throw on  *)
(* such a queue, and a graph that goes away stops recording.  A call that  *)
(* throws before it changes anything is a call that is not enabled.        *)
(***************************************************************************)
EXTENDS Sequences, Naturals

CONSTANTS
    Handles,     \* CommandGraph objects over the one queue
    Kernels,     \* kernels the client enqueues
    NoGraph,     \* no handle; also the empty executable
    MaxAsked,    \* bound on the work a client asks for
    MaxNodes,    \* bound on the nodes of a graph
    MayFail      \* finalize() may throw

ASSUME GraphAssumption ==
    /\ NoGraph \notin Handles /\ NoGraph \notin Seq(Kernels)
    /\ MayFail \in BOOLEAN
    /\ MaxAsked \in Nat /\ MaxNodes \in Nat

VARIABLES
    recorder,     \* the handle whose graph the queue records into, or NoGraph
    is_recording, \* Impl::is_recording
    modifiable,   \* Impl::modifiable, its nodes
    executable,   \* Impl::executable, NoGraph before finalize
    queue,        \* work enqueued and not yet run
    ran,          \* (history) work that ran
    asked,        \* (history) work the client asked to run
    captured      \* (history) work the client asked for in a handle's capture

vars == <<recorder, is_recording, modifiable, executable, queue, ran, asked,
          captured>>

Init ==
    /\ recorder = NoGraph
    /\ is_recording = [g \in Handles |-> FALSE]
    /\ modifiable = [g \in Handles |-> <<>>]
    /\ executable = [g \in Handles |-> NoGraph]
    /\ queue = <<>>
    /\ ran = <<>>
    /\ asked = <<>>
    /\ captured = [g \in Handles |-> <<>>]

\* Work reaches the queue: `work` is what runs, `meant` what the client means.
Enqueue(work, meant) ==
    IF recorder = NoGraph
    THEN /\ Len(asked) + Len(meant) <= MaxAsked
         /\ queue' = queue \o work
         /\ asked' = asked \o meant
         /\ UNCHANGED <<modifiable, captured>>
    ELSE /\ Len(modifiable[recorder]) + Len(work) <= MaxNodes
         /\ modifiable' = [modifiable EXCEPT ![recorder] = @ \o work]
         /\ captured' = [captured EXCEPT ![recorder] = @ \o meant]
         /\ UNCHANGED <<queue, asked>>

\* An operation of the library with blocking = false.
Launch(k) ==
    /\ Enqueue(<<k>>, <<k>>)
    /\ UNCHANGED <<recorder, is_recording, executable, ran>>

\* queue.wait() returns: nothing is left, and the queue does not record.
Waited == recorder = NoGraph /\ queue = <<>>

\* Mutants: a second capture without reset; no wait before the capture.
MayBeginAgain(g) == ~is_recording[g] /\ Waited
MayBeginUnwaited(g) ==
    ~is_recording[g] /\ executable[g] = NoGraph /\ recorder = NoGraph

MayBegin(g) == ~is_recording[g] /\ executable[g] = NoGraph /\ Waited

capture_begin(g) ==
    /\ MayBegin(g)
    /\ recorder' = g
    /\ is_recording' = [is_recording EXCEPT ![g] = TRUE]
    /\ captured' = [captured EXCEPT ![g] = <<>>]
    /\ UNCHANGED <<modifiable, executable, queue, ran, asked>>

\* end_recording, then finalize: when that throws the capture is over and
\* there is no executable.
capture_end(g) ==
    /\ is_recording[g]
    /\ recorder' = NoGraph
    /\ is_recording' = [is_recording EXCEPT ![g] = FALSE]
    /\ \/ executable' = [executable EXCEPT ![g] = modifiable[g]]
       \/ MayFail /\ UNCHANGED executable
    /\ UNCHANGED <<modifiable, queue, ran, asked, captured>>

replay(g) ==
    /\ executable[g] # NoGraph
    /\ Enqueue(executable[g], captured[g])
    /\ UNCHANGED <<recorder, is_recording, executable, ran>>

\* Mutant: the old graphs go, and no new modifiable graph is made.
FreshNone(g) ==
    /\ modifiable' = [modifiable EXCEPT ![g] = NoGraph]
    /\ executable' = [executable EXCEPT ![g] = NoGraph]
    /\ captured' = [captured EXCEPT ![g] = <<>>]

\* A handle's graphs are replaced by a new, empty one.
Fresh(g) ==
    /\ modifiable' = [modifiable EXCEPT ![g] = <<>>]
    /\ executable' = [executable EXCEPT ![g] = NoGraph]
    /\ captured' = [captured EXCEPT ![g] = <<>>]

reset(g) ==
    /\ ~is_recording[g]
    /\ Waited
    /\ Fresh(g)
    /\ UNCHANGED <<recorder, is_recording, queue, ran, asked>>

\* Mutant: the object that replaces a recording one inherits its flag.
AssignKeepsFlag(g) ==
    /\ Fresh(g)
    /\ recorder' = IF recorder = g THEN NoGraph ELSE recorder
    /\ UNCHANGED <<is_recording, queue, ran, asked>>

\* Move assignment of a new CommandGraph: the old Impl goes away as it is.
Assign(g) ==
    /\ Fresh(g)
    /\ is_recording' = [is_recording EXCEPT ![g] = FALSE]
    /\ recorder' = IF recorder = g THEN NoGraph ELSE recorder
    /\ UNCHANGED <<queue, ran, asked>>

\* The device runs the work that is first in the queue.
Run ==
    /\ queue # <<>>
    /\ ran' = Append(ran, Head(queue))
    /\ queue' = Tail(queue)
    /\ UNCHANGED <<recorder, is_recording, modifiable, executable, asked, captured>>

Next ==
    \/ \E k \in Kernels : Launch(k)
    \/ \E g \in Handles :
          capture_begin(g) \/ capture_end(g) \/ replay(g) \/ reset(g) \/ Assign(g)
    \/ Run

Spec == Init /\ [][Next]_vars

-----------------------------------------------------------------------------
(* Properties                                                               *)

\* Type invariant.
TypeOK ==
    /\ recorder \in Handles \cup {NoGraph}
    /\ is_recording \in [Handles -> BOOLEAN]
    /\ modifiable \in [Handles -> Seq(Kernels)]
    /\ executable \in [Handles -> Seq(Kernels) \cup {NoGraph}]
    /\ queue \in Seq(Kernels) /\ ran \in Seq(Kernels) /\ asked \in Seq(Kernels)
    /\ captured \in [Handles -> Seq(Kernels)]

\* Whatever handles are captured, replayed within each other's captures,
\* reset and replaced, the device runs exactly the work the client asked
\* for, a replay standing for the work of its own last capture.
RunsWhatWasAsked == ran \o queue = asked

\* "Reset graph before starting another capture": what a finalized graph
\* holds is its last capture and nothing from a capture before.
CaptureIsolated ==
    \A g \in Handles : executable[g] # NoGraph => executable[g] = captured[g]

\* The flag of each handle tells what the queue really does, so no two
\* handles think they record and none blocks a queue that is free.
OneRecorder ==
    \A g \in Handles : is_recording[g] <=> recorder = g

\* Nothing the client enqueued before a capture runs while it records.
QuietCapture == recorder # NoGraph => queue = <<>>
=============================================================================
