--------------------------- MODULE RecorderProofs ---------------------------
(***************************************************************************)
(* The safety properties of Recorder, for any number of cameras, alerts    *)
(* and recordings: the list of recordings stays sound, no recording is     *)
(* used after it was freed, and a camera is recorded once.                 *)
(***************************************************************************)
EXTENDS Recorder, ListsProofs

Ending  == {"unlink", "destroy", "free"}
Running == ThreadStates \ (Ending \cup {"none"})

\* Who holds the mutex is where the code locks it.
Locks ==
    /\ \A a \in Alerts : owner = a <=> apc[a] \in {"seek", "spawn", "unlock"}
    /\ \A s \in Streams : owner = s <=> spc[s] \in Ending

\* A thread lives in a st_stream that is allocated; one without a thread is
\* the one a client thread is about to start.
Lives ==
    /\ \A s \in Streams : spc[s] # "none" => s \in live
    /\ \A s \in live : spc[s] = "none" => \E a \in Alerts : apc[a] = "spawn" /\ at[a] = s
    /\ \A a \in Alerts : apc[a] = "spawn" => at[a] \in live /\ spc[at[a]] = "none"
    /\ \A a \in Alerts : apc[a] \in {"seek", "unlock"} => at[a] \in Listed \cup {None}

\* The list is sound, and memory that is not allocated has no pointers.
Chain == WellFormed(list, Listed) /\ Blank(list, Streams, live)

\* What a client thread has seen of the list, V, leads to where it is, and is
\* not its camera.
SoughtIn(a, V) ==
    /\ list.head \in V \cup {at[a]}
    /\ \A x \in V : ip[x] # camera[a] /\ list.next[x] \in V \cup {at[a]}

Sought == \A a \in Alerts : apc[a] = "seek" => \E V \in SUBSET Listed : SoughtIn(a, V)

\* Two recordings are of two cameras, even if one of them is at its end.
Apart == \A s, t \in live : ip[s] = ip[t] => s = t

Inv == TypeOK /\ Locks /\ Lives /\ Chain /\ Sought /\ Apart

-----------------------------------------------------------------------------

\* The constants.
LEMMA Names ==
    /\ None \notin Streams /\ None \notin Alerts /\ None \notin Cameras
    /\ \A s \in Streams, a \in Alerts : s # a
    /\ MinRunTime \in Nat
  BY RecorderAssumption

LEMMA Initially == Init => Inv
<1> SUFFICES ASSUME Init PROVE Inv
  OBVIOUS
<1>1. TypeOK
  <2>1. input \in [Streams -> BOOLEAN] /\ output \in [Streams -> BOOLEAN]
    BY Zenon DEF Init
  <2>2. list \in ListsOver(Streams)
    BY EmptyKeeps DEF Init
  <2>3. QED
    BY <2>1, <2>2, Names DEF Init, TypeOK, ThreadStates, AlertStates
<1>2. Locks /\ Lives /\ Sought /\ Apart
  BY Names DEF Init, Locks, Lives, Sought, Apart, Ending
<1>3. Chain
  <2>1. Listed = {}
    BY DEF Init, Listed
  <2>2. QED
    BY <2>1, EmptyKeeps DEF Init, Chain
<1>4. QED
  BY <1>1, <1>2, <1>3 DEF Inv

\* A thread that records, s, changes what others see only when it ends.
Records(s) ==
    \/ Configure(s) \/ OpenInput(s) \/ OpenOutput(s)
    \/ Look(s) \/ ReadVideo(s) \/ ReadOther(s) \/ WritePacket(s) \/ Fails(s)

LEMMA RecordsAlone ==
    ASSUME TypeOK, NEW s \in Streams, Records(s)
    PROVE  /\ UNCHANGED <<list, live, owner, ip, alertVars>>
           /\ spc[s] \in Running
           /\ \E pc \in Running : spc' = [spc EXCEPT ![s] = pc]
           /\ Listed' = Listed
<1>1. UNCHANGED <<list, live, owner, ip, alertVars>> /\ spc[s] \in Running
  BY DEF Records, Configure, OpenInput, OpenOutput, Look, ReadVideo, ReadOther,
     WritePacket, Fails, Running, ThreadStates, Ending
<1>2. \E pc \in Running : spc' = [spc EXCEPT ![s] = pc]
  BY DEF Records, Configure, OpenInput, OpenOutput, Look, ReadVideo, ReadOther,
     WritePacket, Fails, LoopTest, Goto, Running, ThreadStates, Ending
<1>3. QED
  BY <1>1, <1>2, ZenonT(40) DEF Listed, Running, Ending, TypeOK

\* Time and an alert that has not locked yet change nothing of the list.
LEMMA Aside ==
    ASSUME TypeOK,
           \/ Tick \/ UNCHANGED vars
           \/ \E a \in Alerts : Alert(a)
    PROVE  /\ UNCHANGED <<list, live, owner, ip, spc, at>> /\ Listed' = Listed
           /\ \A a \in Alerts : \/ apc'[a] = apc[a] /\ camera'[a] = camera[a]
                                \/ apc[a] = "idle" /\ apc'[a] = "lock"
  BY DEF Tick, Alert, vars, streamVars, alertVars, Listed, TypeOK

LEMMA LocksKept == ASSUME Inv, [Next]_vars PROVE Locks'
<1> USE Names DEF Inv, Locks
<1>1. ASSUME NEW a \in Alerts, AlertRuns(a) PROVE Locks'
  <2>1. CASE LockStreams(a) \/ Found(a) \/ Advance(a) \/ Create(a) \/ MallocFails(a) \/ UnlockStreams(a)
    BY <2>1 DEF LockStreams, Found, Advance, Create, MallocFails, UnlockStreams,
         TypeOK, streamVars, Ending
  <2>2. CASE Spawn(a) \/ SpawnFails(a)
    BY <2>2 DEF Spawn, SpawnFails, Lives, TypeOK, Ending
  <2>3. QED
    BY <1>1, <2>1, <2>2 DEF AlertRuns
<1>2. ASSUME NEW s \in Streams, StreamRuns(s) PROVE Locks'
  <2>1. CASE Records(s)
    BY <2>1, RecordsAlone DEF Running, Ending, alertVars, TypeOK
  <2>2. CASE LockToEnd(s) \/ Unlink(s) \/ Destroy(s) \/ Free(s)
    BY <2>2 DEF LockToEnd, Unlink, Destroy, Free, Goto, alertVars, Ending, TypeOK
  <2>3. QED
    BY <1>2, <2>1, <2>2 DEF StreamRuns, Records
<1>3. CASE Tick \/ UNCHANGED vars \/ \E a \in Alerts : Alert(a)
  BY <1>3, Aside
<1>4. QED
  BY <1>1, <1>2, <1>3 DEF Next

\* Only the thread that holds streams_mutex touches the list and the memory.
LEMMA ChainKept == ASSUME Inv, [Next]_vars PROVE Chain' /\ list' \in ListsOver(Streams)
<1>1. /\ ListIn(list, Streams, Listed) /\ Blank(list, Streams, live)
      /\ live \subseteq Streams /\ Listed \subseteq live /\ Listed \subseteq Streams
      /\ spc \in [Streams -> ThreadStates]
  BY Names DEF Inv, Chain, TypeOK, ListIn, Listed
<1>2. ASSUME NEW a \in Alerts, Create(a) PROVE Chain' /\ list' \in ListsOver(Streams)
  <2>1. PICK s \in Streams \ live : live' = live \cup {s} /\ list' = InsertFirst(list, s)
    BY <1>2, BlockIsFree DEF Create
  <2>2. spc[s] = "none" /\ spc' = spc
    BY <1>2, <2>1 DEF Create, Inv, Lives
  <2>3. Listed' = Listed \cup {s}
    BY <2>1, <2>2 DEF Listed
  <2>4. s \in Streams /\ s \notin Listed /\ list.prev[s] = None
    BY <1>1, <2>1 DEF Blank
  <2>5. /\ ListIn(list', Streams, Listed \cup {s})
        /\ SameOn(list, list', Streams \ (Listed \cup {s}))
    BY <1>1, <2>1, <2>4, InsertKeeps
  <2>6. Blank(list', Streams, live')
    BY <1>1, <2>1, <2>5 DEF Blank, SameOn
  <2>7. QED
    BY <2>3, <2>5, <2>6 DEF Chain, ListIn
<1>3. ASSUME NEW a \in Alerts, SpawnFails(a) PROVE Chain' /\ list' \in ListsOver(Streams)
  <2> DEFINE s == at[a]
             m == Remove(list, s)
  <2>1. s \in Listed /\ spc' = spc
    BY <1>3 DEF SpawnFails, Inv, Lives, Listed
  <2>2. live' = live \ {s} /\ list' = Cleared(m, s)
    BY <1>3 DEF SpawnFails, Forget
  <2>3. Listed' = Listed \ {s}
    BY <2>1, <2>2 DEF Listed
  <2> HIDE DEF s
  <2>4. ListIn(m, Streams, Listed \ {s}) /\ SameOn(list, m, Streams \ Listed)
    BY <1>1, <2>1, RemoveKeeps
  <2> HIDE DEF m
  <2>5. s \in Streams /\ s \notin Listed \ {s}
    BY <1>1, <2>1
  <2>6. /\ ListIn(list', Streams, Listed \ {s})
        /\ SameOn(m, list', Streams \ {s})
        /\ list'.next[s] = None /\ list'.prev[s] = None
    BY <2>2, <2>4, <2>5, ClearedKeeps
  <2>7. Blank(list', Streams, live')
    BY <1>1, <2>1, <2>2, <2>4, <2>6 DEF Blank, SameOn
  <2>8. QED
    BY <2>3, <2>6, <2>7 DEF Chain, ListIn
<1>4. ASSUME NEW s \in Streams, Unlink(s) PROVE Chain' /\ list' \in ListsOver(Streams)
  <2>1. /\ spc[s] = "unlink" /\ spc' = [spc EXCEPT ![s] = "destroy"]
        /\ live' = live /\ list' = Remove(list, s)
    BY <1>4 DEF Unlink, Goto
  <2>2. s \in Listed
    BY <2>1 DEF Inv, Lives, Listed
  <2>3. Listed' = Listed \ {s}
    BY <1>1, <2>1 DEF Listed
  <2>4. /\ ListIn(list', Streams, Listed \ {s})
        /\ SameOn(list, list', Streams \ Listed)
    BY <1>1, <2>1, <2>2, RemoveKeeps
  <2>5. Blank(list', Streams, live')
    BY <1>1, <2>1, <2>4 DEF Blank, SameOn
  <2>6. QED
    BY <2>3, <2>4, <2>5 DEF Chain, ListIn
<1>5. ASSUME NEW s \in Streams, Free(s) PROVE Chain' /\ list' \in ListsOver(Streams)
  <2>1. /\ spc[s] = "free" /\ spc' = [spc EXCEPT ![s] = "none"]
        /\ live' = live \ {s} /\ list' = Cleared(list, s)
    BY <1>5 DEF Free, Forget, Goto
  <2>2. s \in Streams /\ s \notin Listed /\ Listed' = Listed
    BY <1>1, <2>1 DEF Listed
  <2>3. /\ ListIn(list', Streams, Listed) /\ SameOn(list, list', Streams \ {s})
        /\ list'.next[s] = None /\ list'.prev[s] = None
    BY <1>1, <2>1, <2>2, ClearedKeeps
  <2>4. Blank(list', Streams, live')
    BY <1>1, <2>1, <2>3 DEF Blank, SameOn
  <2>5. QED
    BY <2>2, <2>3, <2>4 DEF Chain, ListIn
<1>6. ASSUME list' = list, live' = live, Listed' = Listed
      PROVE  Chain' /\ list' \in ListsOver(Streams)
  BY <1>1, <1>6 DEF Chain, ListIn
<1>7. ASSUME NEW a \in Alerts,
             \/ LockStreams(a) \/ Found(a) \/ Advance(a) \/ MallocFails(a)
             \/ Spawn(a) \/ UnlockStreams(a)
      PROVE  Chain' /\ list' \in ListsOver(Streams)
  BY <1>1, <1>6, <1>7 DEF LockStreams, Found, Advance, MallocFails, Spawn,
     UnlockStreams, streamVars, Listed, Inv, Lives
<1>8. ASSUME NEW s \in Streams, Records(s) \/ LockToEnd(s) \/ Destroy(s)
      PROVE  Chain' /\ list' \in ListsOver(Streams)
  <2>1. CASE Records(s)
    BY <1>6, <2>1, RecordsAlone DEF Inv
  <2>2. CASE LockToEnd(s)
    BY <1>1, <1>6, <2>2 DEF LockToEnd, Goto, Listed
  <2>3. CASE Destroy(s)
    BY <1>1, <1>6, <2>3 DEF Destroy, Goto, Listed
  <2>4. QED
    BY <1>8, <2>1, <2>2, <2>3
<1>9. CASE Tick \/ UNCHANGED vars \/ \E a \in Alerts : Alert(a)
  BY <1>6, <1>9, Aside DEF Inv
<1>10. QED
  BY <1>2, <1>3, <1>4, <1>5, <1>7, <1>8, <1>9 DEF Next, AlertRuns, StreamRuns, Records

LEMMA LivesKept == ASSUME Inv, [Next]_vars PROVE Lives'
<1> USE Names DEF Inv, Lives
<1>1. ASSUME NEW a \in Alerts, LockStreams(a) \/ Found(a) \/ Advance(a) \/ MallocFails(a)
             \/ UnlockStreams(a)
      PROVE  Lives'
  <2>1. UNCHANGED <<list, live, spc>> /\ Listed' = Listed
    BY <1>1 DEF LockStreams, Found, Advance, MallocFails, UnlockStreams, streamVars, Listed
  <2>2. /\ list.head \in Listed \cup {None}
        /\ \A s \in Listed : list.next[s] \in Listed \cup {None}
    BY DEF Chain, WellFormed, Linked
  <2>3. QED
    BY <1>1, <2>1, <2>2 DEF LockStreams, Found, Advance, MallocFails, UnlockStreams, TypeOK
<1>2. ASSUME NEW a \in Alerts, Create(a) PROVE Lives'
  <2>1. PICK s \in Streams \ live : live' = live \cup {s} /\ at' = [at EXCEPT ![a] = s]
    BY <1>2, BlockIsFree DEF Create
  <2>2. QED
    BY <1>2, <2>1 DEF Create, Locks, Listed, TypeOK
<1>3. ASSUME NEW a \in Alerts, Spawn(a) PROVE Lives'
  BY <1>3 DEF Spawn, Locks, Listed, TypeOK, ThreadStates
<1>4. ASSUME NEW a \in Alerts, SpawnFails(a) PROVE Lives'
  BY <1>4 DEF SpawnFails, Forget, Locks, Listed, TypeOK
<1>5. ASSUME NEW s \in Streams, StreamRuns(s) PROVE Lives'
  <2>1. CASE Records(s)
    BY <2>1, RecordsAlone DEF Running, ThreadStates, Ending, TypeOK, alertVars
  <2>2. CASE LockToEnd(s)
    BY <2>2 DEF LockToEnd, Goto, Listed, TypeOK, alertVars
  <2>3. CASE Unlink(s) \/ Destroy(s) \/ Free(s)
    BY <2>3 DEF Unlink, Destroy, Free, Forget, Goto, Locks, Ending, Listed, TypeOK, alertVars
  <2>4. QED
    BY <1>5, <2>1, <2>2, <2>3 DEF StreamRuns, Records
<1>6. CASE Tick \/ UNCHANGED vars \/ \E a \in Alerts : Alert(a)
  BY <1>6, Aside
<1>7. QED
  BY <1>1, <1>2, <1>3, <1>4, <1>5, <1>6 DEF Next, AlertRuns

\* What a client thread has seen grows with each step of its walk.  Others who
\* change the list hold the mutex, so that no thread walks then.
LEMMA SoughtKept == ASSUME Inv, [Next]_vars PROVE Sought'
<1> USE Names DEF Inv, Sought
<1>1. ASSUME NEW a \in Alerts, LockStreams(a) PROVE Sought'
  <2>1. /\ at'[a] = list'.head
        /\ \A b \in Alerts : apc'[b] = "seek" => b = a
    BY <1>1 DEF LockStreams, Locks, TypeOK
  <2>2. SoughtIn(a, {})'
    BY <2>1 DEF SoughtIn
  <2>3. QED
    BY <2>1, <2>2
<1>2. ASSUME NEW a \in Alerts, Advance(a) PROVE Sought'
  <2>1. PICK V \in SUBSET Listed : SoughtIn(a, V)
    BY <1>2 DEF Advance
  <2>2. /\ \A b \in Alerts : apc'[b] = "seek" => b = a
        /\ at[a] \in Listed /\ ip[at[a]] # camera[a] /\ at'[a] = list.next[at[a]]
        /\ UNCHANGED <<list, ip, camera>> /\ Listed' = Listed
    BY <1>2 DEF Advance, Locks, Lives, TypeOK, streamVars, Listed
  <2>3. PICK W \in SUBSET Listed : W = V \cup {at[a]}
    BY <2>2
  <2>4. SoughtIn(a, W)'
    BY <2>1, <2>2, <2>3 DEF SoughtIn
  <2>5. QED
    BY <2>2, <2>3, <2>4
<1>3. ASSUME NEW a \in Alerts,
             Found(a) \/ Create(a) \/ MallocFails(a) \/ Spawn(a) \/ SpawnFails(a) \/ UnlockStreams(a)
      PROVE  Sought'
  <2>1. \A b \in Alerts : apc'[b] # "seek"
    BY <1>3 DEF Found, Create, MallocFails, Spawn, SpawnFails, UnlockStreams, Locks, TypeOK
  <2>2. QED
    BY <2>1
<1>4. ASSUME UNCHANGED <<list, ip, at>>, Listed' = Listed,
             \A a \in Alerts : \/ apc'[a] = apc[a] /\ camera'[a] = camera[a]
                              \/ apc'[a] # "seek"
      PROVE  Sought'
  BY <1>4 DEF SoughtIn
<1>5. ASSUME NEW s \in Streams, StreamRuns(s) PROVE Sought'
  <2>1. CASE Records(s)
    BY <1>4, <2>1, RecordsAlone DEF alertVars
  <2>2. CASE LockToEnd(s)
    BY <1>4, <2>2 DEF LockToEnd, Goto, Listed, TypeOK, alertVars
  <2>3. CASE Unlink(s) \/ Destroy(s) \/ Free(s)
    <3>1. \A b \in Alerts : apc'[b] # "seek"
      BY <2>3 DEF Unlink, Destroy, Free, Locks, Ending, alertVars
    <3>2. QED
      BY <3>1
  <2>4. QED
    BY <1>5, <2>1, <2>2, <2>3 DEF StreamRuns, Records
<1>6. CASE Tick \/ UNCHANGED vars \/ \E a \in Alerts : Alert(a)
  BY <1>4, <1>6, Aside
<1>7. QED
  BY <1>1, <1>2, <1>3, <1>5, <1>6 DEF Next, AlertRuns

\* A client thread that reaches the end of the list has seen all of it.
LEMMA NotRecorded ==
    ASSUME Inv, NEW a \in Alerts, apc[a] = "seek", at[a] = None
    PROVE  \A s \in Listed : ip[s] # camera[a]
<1>1. PICK V \in SUBSET Listed : SoughtIn(a, V)
  BY DEF Inv, Sought
<1>2. V = Listed
  BY <1>1 DEF Inv, Chain, WellFormed, Reached, SoughtIn
<1>3. QED
  BY <1>1, <1>2 DEF SoughtIn

LEMMA ApartKept == ASSUME Inv, [Next]_vars PROVE Apart'
<1> USE Names DEF Inv, Apart
<1>1. ASSUME NEW a \in Alerts, Create(a) PROVE Apart'
  <2>1. PICK s \in Streams \ live : live' = live \cup {s} /\ ip' = [ip EXCEPT ![s] = camera[a]]
    BY <1>1, BlockIsFree DEF Create
  <2>2. Listed = live
    \* No recording is at its end, as the mutex is held.
    BY <1>1 DEF Create, Locks, Ending, Listed, TypeOK
  <2>3. \A t \in live : ip[t] # camera[a]
    BY <1>1, <2>2, NotRecorded DEF Create
  <2>4. QED
    BY <2>1, <2>3 DEF TypeOK
<1>2. ASSUME live' \subseteq live, \A s \in live' : ip'[s] = ip[s] PROVE Apart'
  BY <1>2
<1>3. ASSUME NEW a \in Alerts, AlertRuns(a), ~Create(a) PROVE Apart'
  BY <1>2, <1>3 DEF AlertRuns, LockStreams, Found, Advance, MallocFails, Spawn, SpawnFails,
     Forget, UnlockStreams, TypeOK, streamVars
<1>4. ASSUME NEW s \in Streams, StreamRuns(s) PROVE Apart'
  <2>1. CASE Records(s)
    BY <1>2, <2>1, RecordsAlone
  <2>2. CASE LockToEnd(s) \/ Unlink(s) \/ Destroy(s) \/ Free(s)
    BY <1>2, <2>2 DEF LockToEnd, Unlink, Destroy, Free, Forget, TypeOK
  <2>3. QED
    BY <1>4, <2>1, <2>2 DEF StreamRuns, Records
<1>5. CASE Tick \/ UNCHANGED vars \/ \E a \in Alerts : Alert(a)
  BY <1>2, <1>5, Aside
<1>6. QED
  BY <1>1, <1>3, <1>4, <1>5 DEF Next

LEMMA TypesKept == ASSUME Inv, [Next]_vars PROVE TypeOK'
<1> USE Names DEF Inv, TypeOK
<1>1. list' \in ListsOver(Streams)
  BY ChainKept
<1>2. input' \in [Streams -> BOOLEAN] /\ output' \in [Streams -> BOOLEAN]
  BY DEF Next, Tick, Alert, AlertRuns, LockStreams, Found, Advance, Create, MallocFails,
     Spawn, SpawnFails, UnlockStreams, StreamRuns, Configure, OpenInput, OpenOutput, Look,
     ReadVideo, ReadOther, WritePacket, Fails, LockToEnd, Unlink, Destroy, Free,
     vars, streamVars
<1>3. ASSUME NEW a \in Alerts, AlertRuns(a) \/ Alert(a) PROVE TypeOK'
  <2>1. CASE Create(a)
    BY <1>1, <1>2, <2>1, BlockIsFree DEF Create, AlertStates, ThreadStates
  <2>2. CASE LockStreams(a) \/ Found(a) \/ Advance(a) \/ MallocFails(a)
    BY <1>1, <1>2, <2>2 DEF LockStreams, Found, Advance, MallocFails, ListsOver,
         AlertStates, Lives, Listed, streamVars
  <2>3. CASE Alert(a) \/ Spawn(a) \/ SpawnFails(a) \/ UnlockStreams(a)
    BY <1>1, <1>2, <2>3 DEF Alert, Spawn, SpawnFails, Forget, UnlockStreams, AlertStates,
         ThreadStates, Lives, streamVars
  <2>4. QED
    BY <1>3, <2>1, <2>2, <2>3 DEF AlertRuns
<1>4. ASSUME NEW s \in Streams, StreamRuns(s) PROVE TypeOK'
  <2>1. CASE Configure(s) \/ OpenInput(s) \/ OpenOutput(s) \/ Look(s) \/ ReadVideo(s)
             \/ ReadOther(s) \/ WritePacket(s) \/ Fails(s)
    BY <1>1, <1>2, <2>1 DEF Configure, OpenInput, OpenOutput, Look, ReadVideo, ReadOther,
         WritePacket, Fails, LoopTest, Goto, ThreadStates, alertVars
  <2>2. CASE LockToEnd(s) \/ Unlink(s) \/ Destroy(s) \/ Free(s)
    BY <1>1, <1>2, <2>2 DEF LockToEnd, Unlink, Destroy, Free, Forget, Goto, ThreadStates,
         alertVars
  <2>3. QED
    BY <1>4, <2>1, <2>2 DEF StreamRuns
<1>5. CASE Tick \/ UNCHANGED vars
  BY <1>1, <1>2, <1>5 DEF Tick, vars, streamVars, alertVars
<1>6. QED
  BY <1>3, <1>4, <1>5 DEF Next

-----------------------------------------------------------------------------

\* The inductive invariant of the recordings (streams.c).
THEOREM RecorderInvariant == Spec => []Inv
<1>1. Inv /\ [Next]_vars => Inv'
  BY LocksKept, LivesKept, ChainKept, SoughtKept, ApartKept, TypesKept DEF Inv
<1>2. QED
  BY Initially, <1>1, PTL DEF Spec

\* Every variable of the recordings keeps its type.
THEOREM TypeCorrect == Spec => []TypeOK
<1>1. Inv => TypeOK
  BY DEF Inv
<1>2. QED
  BY RecorderInvariant, <1>1, PTL

\* g.streams leads to every recording and to nothing that free_stream freed,
\* whichever recording ends first.
THEOREM StreamListSound == Spec => []ListIsSound
<1>1. Inv => ListIsSound
  BY DEF Inv, Chain, ListIsSound
<1>2. QED
  BY RecorderInvariant, <1>1, PTL

\* However alerts and ends of recordings mix, neither process_stream nor a
\* stream_thread uses a st_stream that free_stream gave back.
THEOREM NoneUsedAfterFree == Spec => []NoUseAfterFree
<1>1. Inv => NoUseAfterFree
  BY DEF Inv, Lives, NoUseAfterFree, Listed
<1>2. QED
  BY RecorderInvariant, <1>1, PTL

\* process_stream finds the recording of its camera if there is one, so that
\* a camera is recorded, and connected to, at most once.
THEOREM RecordedOnce == Spec => []OneRecorderPerCamera
<1>1. Inv => OneRecorderPerCamera
  BY DEF Inv, Apart, OneRecorderPerCamera, Listed
<1>2. QED
  BY RecorderInvariant, <1>1, PTL
=============================================================================
