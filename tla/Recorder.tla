------------------------------ MODULE Recorder ------------------------------
(***************************************************************************)
(* The recordings of the alert server, streams.c: a motion alert for a     *)
(* camera extends the camera's recording or starts one, and one thread per *)
(* recording copies the camera's video into a file until min_run_time      *)
(* seconds have passed since the last alert.                               *)
(*                                                                         *)
(* Client threads and recording threads share the list g.streams under     *)
(* g.streams_mutex.  Each statement that reads or writes the list under    *)
(* the lock is a step of its own, so that the lock is what makes them      *)
(* safe and not the atomicity of a step.                                   *)
(*                                                                         *)
(* Time is kept as age[s] = time(NULL) - s->updated, which no test tells   *)
(* from min_run_time once it has reached it.                               *)
(*                                                                         *)
(* A definition named Slip_X is X with a plausible mistake in it; nothing  *)
(* uses it.  Replacing X by it shows that a property notices the mistake.  *)
(***************************************************************************)
EXTENDS Lists

CONSTANTS
    Cameras,
    Alerts,     \* client threads whose alert is a MotionDetect
    Streams,    \* the memory a st_stream may be allocated in
    MinRunTime  \* min_run_time, of every camera

ASSUME RecorderAssumption ==
    /\ MinRunTime \in Nat
    /\ None \notin Streams \cup Alerts \cup Cameras
    /\ Streams \cap Alerts = {}

VARIABLES
    list,       \* g.streams and the prev and next of every st_stream
    live,       \* the st_stream that are allocated
    owner,      \* who holds streams_mutex, or None
    \* the fields of each st_stream
    ip, age, input, output,
    \* its thread: where it is, and its t
    spc, idle,
    \* process_stream of each client thread: where it is, the camera, and the
    \* st_stream it points to
    apc, camera, at

streamVars == <<ip, age, input, output, spc, idle>>
alertVars  == <<apc, camera, at>>
vars == <<list, live, owner, streamVars, alertVars>>

ThreadStates == {"none", "start", "openin", "openout", "look", "read", "write",
                 "bye", "unlink", "destroy", "free"}
AlertStates  == {"idle", "lock", "seek", "spawn", "unlock", "done"}

TypeOK ==
    /\ list \in ListsOver(Streams)
    /\ live \subseteq Streams
    /\ owner \in Streams \cup Alerts \cup {None}
    /\ ip \in [Streams -> Cameras \cup {None}]
    /\ age \in [Streams -> 0..MinRunTime]
    /\ idle \in [Streams -> 0..MinRunTime]
    /\ input \in [Streams -> BOOLEAN] /\ output \in [Streams -> BOOLEAN]
    /\ spc \in [Streams -> ThreadStates]
    /\ apc \in [Alerts -> AlertStates]
    /\ camera \in [Alerts -> Cameras \cup {None}]
    /\ at \in [Alerts -> Streams \cup {None}]

Init ==
    /\ list = EmptyList(Streams)
    /\ live = {} /\ owner = None
    /\ ip = [s \in Streams |-> None]
    /\ age = [s \in Streams |-> 0] /\ idle = [s \in Streams |-> 0]
    /\ input = [s \in Streams |-> FALSE]
    /\ output = [s \in Streams |-> FALSE]
    /\ spc = [s \in Streams |-> "none"]
    /\ apc = [a \in Alerts |-> "idle"]
    /\ camera = [a \in Alerts |-> None]
    /\ at = [a \in Alerts |-> None]

-----------------------------------------------------------------------------
(* A client thread in process_stream.                                      *)

\* free: what the st_stream held is not kept (NoUseAfterFree: nobody reads it).
Forget(l, s) ==
    /\ live' = live \ {s}
    /\ list' = Cleared(l, s)
    /\ ip' = [ip EXCEPT ![s] = None]
    /\ age' = [age EXCEPT ![s] = 0]
    /\ idle' = [idle EXCEPT ![s] = 0]

\* client_alert_data answered 2: a MotionDetect of camera c.
Alert(a) ==
    /\ apc[a] = "idle"
    /\ apc' = [apc EXCEPT ![a] = "lock"]
    /\ \E c \in Cameras : camera' = [camera EXCEPT ![a] = c]
    /\ UNCHANGED <<list, live, owner, streamVars, at>>

\* Lock, and start at the head of the list.
LockStreams(a) ==
    /\ apc[a] = "lock" /\ owner = None
    /\ owner' = a
    /\ apc' = [apc EXCEPT ![a] = "seek"]
    /\ at' = [at EXCEPT ![a] = list.head]
    /\ UNCHANGED <<list, live, streamVars, camera>>

\* The camera is being recorded: extend the recording.
Found(a) ==
    /\ apc[a] = "seek" /\ at[a] # None /\ ip[at[a]] = camera[a]
    /\ age' = [age EXCEPT ![at[a]] = 0]
    /\ apc' = [apc EXCEPT ![a] = "unlock"]
    /\ UNCHANGED <<list, live, owner, ip, input, output, spc, idle, camera, at>>

\* The search stops at the first element.
Slip_Advance(a) ==
    /\ apc[a] = "seek" /\ at[a] # None /\ ip[at[a]] # camera[a]
    /\ at' = [at EXCEPT ![a] = None]
    /\ UNCHANGED <<list, live, owner, streamVars, apc, camera>>

Advance(a) ==
    /\ apc[a] = "seek" /\ at[a] # None /\ ip[at[a]] # camera[a]
    /\ at' = [at EXCEPT ![a] = list.next[at[a]]]
    /\ UNCHANGED <<list, live, owner, streamVars, apc, camera>>

\* It is not: allocate a zeroed st_stream and put it first in the list.
Create(a) ==
    /\ apc[a] = "seek" /\ at[a] = None
    /\ \E s \in Block(Streams \ live) :
         /\ live' = live \cup {s}
         /\ ip' = [ip EXCEPT ![s] = camera[a]]
         /\ age' = [age EXCEPT ![s] = 0]
         /\ list' = InsertFirst(list, s)
         /\ at' = [at EXCEPT ![a] = s]
    /\ apc' = [apc EXCEPT ![a] = "spawn"]
    /\ UNCHANGED <<owner, input, output, spc, idle, camera>>

MallocFails(a) ==
    /\ apc[a] = "seek" /\ at[a] = None
    /\ apc' = [apc EXCEPT ![a] = "unlock"]
    /\ UNCHANGED <<list, live, owner, streamVars, camera, at>>

\* pthread_create starts the recording thread ...
Spawn(a) ==
    /\ apc[a] = "spawn"
    /\ spc' = [spc EXCEPT ![at[a]] = "start"]
    /\ apc' = [apc EXCEPT ![a] = "unlock"]
    /\ UNCHANGED <<list, live, owner, ip, age, input, output, idle, camera, at>>

\* ... or fails, and the st_stream is unlinked and freed at once.
SpawnFails(a) ==
    /\ apc[a] = "spawn"
    /\ Forget(Remove(list, at[a]), at[a])
    /\ at' = [at EXCEPT ![a] = None]
    /\ apc' = [apc EXCEPT ![a] = "unlock"]
    /\ UNCHANGED <<owner, input, output, spc, camera>>

UnlockStreams(a) ==
    /\ apc[a] = "unlock"
    /\ owner' = None
    /\ apc' = [apc EXCEPT ![a] = "done"]
    /\ at' = [at EXCEPT ![a] = None]
    /\ UNCHANGED <<list, live, streamVars, camera>>

AlertRuns(a) ==
    \/ LockStreams(a) \/ Found(a) \/ Advance(a)
    \/ Create(a) \/ MallocFails(a) \/ Spawn(a) \/ SpawnFails(a)
    \/ UnlockStreams(a)

-----------------------------------------------------------------------------
(* A recording thread, stream_thread.                                      *)

Goto(s, pc) == spc' = [spc EXCEPT ![s] = pc]

\* The configuration is there and the directories exist or can be made.
Configure(s) ==
    /\ spc[s] = "start" /\ Goto(s, "openin")
    /\ UNCHANGED <<list, live, owner, ip, age, input, output, idle, alertVars>>

OpenInput(s) ==
    /\ spc[s] = "openin" /\ Goto(s, "openout")
    /\ input' = [input EXCEPT ![s] = TRUE]
    /\ UNCHANGED <<list, live, owner, ip, age, output, idle, alertVars>>

OpenOutput(s) ==
    /\ spc[s] = "openout" /\ Goto(s, "look")
    /\ output' = [output EXCEPT ![s] = TRUE]
    /\ UNCHANGED <<list, live, owner, ip, age, input, idle, alertVars>>

\* The operands of the subtraction are swapped.
Slip_Look(s) ==
    /\ spc[s] = "look" /\ owner = None /\ Goto(s, "read")
    /\ idle' = [idle EXCEPT ![s] = -age[s]]
    /\ UNCHANGED <<list, live, owner, ip, age, input, output, alertVars>>

\* How long ago the last alert was, read under the lock.
Look(s) ==
    /\ spc[s] = "look" /\ owner = None /\ Goto(s, "read")
    /\ idle' = [idle EXCEPT ![s] = age[s]]
    /\ UNCHANGED <<list, live, owner, ip, age, input, output, alertVars>>

\* A video packet.
ReadVideo(s) ==
    /\ spc[s] = "read" /\ Goto(s, "write")
    /\ UNCHANGED <<list, live, owner, ip, age, input, output, idle, alertVars>>

\* The test at the end of the loop.
LoopTest(s) == Goto(s, IF idle[s] < MinRunTime THEN "look" ELSE "bye")

\* The loop goes on without its test.
Slip_ReadOther(s) ==
    /\ spc[s] = "read" /\ Goto(s, "look")
    /\ UNCHANGED <<list, live, owner, ip, age, input, output, idle, alertVars>>

\* A packet of another stream: continue, which goes to the test.
ReadOther(s) ==
    /\ spc[s] = "read" /\ LoopTest(s)
    /\ UNCHANGED <<list, live, owner, ip, age, input, output, idle, alertVars>>

WritePacket(s) ==
    /\ spc[s] = "write" /\ LoopTest(s)
    /\ UNCHANGED <<list, live, owner, ip, age, input, output, idle, alertVars>>

\* Any of the calls fails: the recording ends.
Fails(s) ==
    /\ spc[s] \in {"start", "openin", "openout", "read", "write"}
    /\ Goto(s, "bye")
    /\ UNCHANGED <<list, live, owner, ip, age, input, output, idle, alertVars>>

\* Without the lock.
Slip_LockToEnd(s) ==
    /\ spc[s] = "bye" /\ Goto(s, "unlink")
    /\ UNCHANGED <<list, live, owner, ip, age, input, output, idle, alertVars>>

LockToEnd(s) ==
    /\ spc[s] = "bye" /\ owner = None /\ Goto(s, "unlink")
    /\ owner' = s
    /\ UNCHANGED <<list, live, ip, age, input, output, idle, alertVars>>

\* free_stream, step by step, with the lock held: unlink the st_stream, ...
Unlink(s) ==
    /\ spc[s] = "unlink" /\ Goto(s, "destroy")
    /\ list' = Remove(list, s)
    /\ UNCHANGED <<live, owner, ip, age, input, output, idle, alertVars>>

\* ... close the input and the output, ...
Destroy(s) ==
    /\ spc[s] = "destroy" /\ Goto(s, "free")
    /\ input' = [input EXCEPT ![s] = FALSE]
    /\ output' = [output EXCEPT ![s] = FALSE]
    /\ UNCHANGED <<list, live, owner, ip, age, idle, alertVars>>

\* The thread ends without unlocking.
Slip_Free(s) ==
    /\ spc[s] = "free" /\ Goto(s, "none")
    /\ Forget(list, s)
    /\ UNCHANGED <<owner, input, output, alertVars>>

\* ... and free it; then unlock, and the thread ends.
Free(s) ==
    /\ spc[s] = "free" /\ Goto(s, "none")
    /\ Forget(list, s)
    /\ owner' = None
    /\ UNCHANGED <<input, output, alertVars>>

StreamRuns(s) ==
    \/ Configure(s) \/ OpenInput(s) \/ OpenOutput(s)
    \/ Look(s) \/ ReadVideo(s) \/ ReadOther(s) \/ WritePacket(s) \/ Fails(s)
    \/ LockToEnd(s) \/ Unlink(s) \/ Destroy(s) \/ Free(s)

-----------------------------------------------------------------------------

\* A second passes.
Tick ==
    /\ age' = [s \in Streams |-> IF s \in live /\ age[s] < MinRunTime
                                 THEN age[s] + 1 ELSE age[s]]
    /\ UNCHANGED <<list, live, owner, ip, input, output, spc, idle, alertVars>>

Next ==
    \/ Tick
    \/ \E a \in Alerts : Alert(a) \/ AlertRuns(a)
    \/ \E s \in Streams : StreamRuns(s)

Spec == Init /\ [][Next]_vars

\* Time passes and threads run.  A read returns: the input is opened with a
\* time-out of 10 seconds (vs_open_input).
FairSpec ==
    /\ Spec /\ WF_vars(Tick)
    /\ \A a \in Alerts : WF_vars(AlertRuns(a))
    /\ \A s \in Streams : WF_vars(StreamRuns(s))

-----------------------------------------------------------------------------
(* What must hold.                                                         *)

\* The streams in the list: from their creation until they are unlinked.
Listed == {s \in live : spc[s] \notin {"destroy", "free"}}

\* The list is never broken, whichever of its elements ends first: walking it
\* from g.streams meets every recording once, and nothing that was freed.
ListIsSound == WellFormed(list, Listed)

\* A camera is recorded by one thread at a time, so that it is connected to at
\* most once ("find or create" in process_stream, and free_stream under the
\* same lock).
OneRecorderPerCamera ==
    /\ \A s, t \in Listed : ip[s] = ip[t] => s = t
    /\ \A s, t \in live : input[s] /\ input[t] /\ ip[s] = ip[t] => s = t

\* No thread uses a st_stream that was freed: not a client thread that walks
\* the list, updates it or waits for pthread_create to store the thread's id
\* in it (the new thread may be at its end by then), and not its own thread.
NoUseAfterFree ==
    /\ \A a \in Alerts :
         apc[a] \in {"seek", "spawn", "unlock"} /\ at[a] # None => at[a] \in live
    /\ \A s \in Streams : spc[s] # "none" => s \in live

\* A client thread gets through process_stream, also while recordings end.
AlertsServed == \A a \in Alerts : apc[a] = "lock" ~> apc[a] = "done"

\* Every recording ends when its camera reports no more motion, even if the
\* camera only sends packets of other streams ("continue" in the loop).
RecordingsEnd == \A s \in Streams : spc[s] # "none" ~> spc[s] = "none"
=============================================================================
