# A TLA+ development of videostreamer

`videostreamer` reads one video source (an RTSP camera, say) and remuxes it
into one fragmented MP4 container per viewer, streamed over HTTP. The
repository also holds an alert server (`src/cmd/alert_server`) that records a
camera while the camera reports motion. The modules here model both, TLC checks
them on small instances, and TLAPS proves the most important properties for all
values of the constants.

1. The system
2. The modules and the code
3. What the runs check
4. What is proved
5. Where the code does not do what it says
6. What is not modelled
7. Plan

## 1. The system

### The streaming daemon, `src/videostreamer.go`

| goroutine | state | operations |
|---|---|---|
| `encoder`, one | its list `clients`, the `Input`, its place in its loops | take clients from `ClientChan`, open and close the input, read a packet, `writePacketToClients`, `cleanupClient` |
| `packetWriter`, one per client whose output was opened | the packet in hand | receive from `PacketChan`, lock client and input for reading, `vs_write_packet`, free the packet |
| `streamRequest`, one HTTP handler per viewer | the read side of a pipe | make the pipe, send a `Client` on `ClientChan`, copy from the pipe to the viewer until EOF or a failed write |

They share each `Client` (`OutPipe`, `Output`, `PacketChan`, a `RWMutex`), the
`Input` (a `RWMutex`), the unbuffered `ClientChan`, each client's buffered
`PacketChan`, and the pipe from a packetWriter to its handler.

*Hard:* goroutines that block on locks, channels and pipes at once; clients
dropped at any point (a full channel, a failed copy, the end of the input)
while their packetWriter is anywhere; an input destroyed and opened again;
descriptor numbers that outlive their file.
*Correct when:* there is at most one connection to the source; a viewer gets a
header and then consecutive packets; a slow viewer does not hold up the others;
nothing is used after it is destroyed; packet copies are freed exactly once;
goroutines end when their client is dropped.

### The remuxing library, `src/videostreamer.c`, and `src/cmd/remux_example`

Sequential functions on a `VSInput` and a `VSOutput`. Their state is
`last_dts` per output, the index of the video stream, and what
ffmpeg keeps. `remux_example` is the smallest program over them: it copies a
number of packets into a file. *Hard:* inputs whose stamps fluctuate or are
missing; two time bases; seventeen calls that can fail half way through opening,
each with its own idea of what there is to release. *Correct when:* the muxer
gets strictly increasing dts and a pts not before its dts, changed as little as
possible; every exit releases everything; a container that was begun is ended;
the packets of the first video stream are in it, in order, and no others.

### The alert server, `src/cmd/alert_server`

| part | state | operations |
|---|---|---|
| `nvr.c`, `conf.c` | the configuration, the listening socket | start up, then accept |
| `clients.c` | `g.clients` under `clients_mutex`; a socket and a buffer per client | accept, one thread per client: read header and data, parse, `process_stream`, `client_dbsync`, close |
| `jsmn.h` | the parser of one alert | `jsmn_parse` into a fixed number of tokens |
| `streams.c` | `g.streams` under `streams_mutex`; one thread per recording | find or create the camera's recording; record until idle for `min_run_time` |
| `db_mysql.c` | `g.db` under `mysql_mutex` | ping, reconnect with flood protection, query |
| `sock.c` | none | read with time-outs, listen, close |

*Hard:* client threads and recording threads create, extend and free the same
list elements; `pthread_create` returns into memory whose thread may be gone;
partial failures (malloc, `pthread_create`, a camera that does not answer);
descriptors given out again; one database handle for all threads; bytes that
come in any pieces or not at all; alerts whose members come in any order.
*Correct when:* one recording per camera; the lists are sound and nothing freed
is used; each descriptor has one owner; every recording and every client thread
ends; the handle has one user, and attempts to connect are spaced; just one
message is taken from a socket and answered by what it means.

### Interaction

The daemon and the alert server are separate programs over the same library.
A viewer's packets pass `encoder` → `PacketChan` → `packetWriter` →
`vs_write_packet` → pipe → `streamRequest`. An alert passes `accept_clients` →
`client_thread` → `client_alert_data` → `process_stream` → `stream_thread` →
`vs_write_packet`, and `client_thread` → `client_dbsync` → `db_mysql_query`.
The alert server is divided among modules at its calls. `AlertServer` has the
threads, with the whole of `Database` inside (they share the lock and the
handle); what one thread reads and decides is `AlertClient`, which no other
thread can see; what it then does to `g.streams` is `Recorder`, which shares
nothing with the client list. No code holds two of the three mutexes at once.

## 2. The modules and the code

| module | what it is |
|---|---|
| `Streamer` | the daemon: every goroutine, lock, channel and pipe |
| `StreamerProperties` | its safety and liveness properties, and the refinement of `StreamService` |
| `StreamService` | what the daemon promises, without goroutines |
| `MCStreamer` | symmetry for TLC |
| `StreamerProofs` | its types, the inductive invariant and four safety theorems, packet copies |
| `StreamerServiceProofs` | what its viewers receive, and the refinement |
| `Timestamps`, `MCTimestamps`, `TimestampsProofs` | the stamps in `vs_write_packet`; values for TLC; proofs |
| `Remux`, `RemuxProofs` | the life cycle of inputs and outputs, driven by `remux_example`; proofs |
| `Lists`, `ListsProofs` | the doubly linked lists of the alert server, as operators; lemmas about them |
| `Recorder`, `RecorderProofs` | `process_stream` and `stream_thread`; proofs |
| `AlertData` | `jsmn_parse` and `client_alert_data`, and what JSON says, for comparison |
| `AlertClient`, `AlertClientProofs` | one client thread: reading, parsing, answering (extends `AlertData`); proofs |
| `Database` | `db_mysql.c`, as steps of a calling thread |
| `AlertServer`, `AlertServerProofs` | main and the client threads (extends `Lists`, `Database`); proofs |

A definition `Slip_X` is `X` with a plausible programming mistake. No
specification uses it: it stands before `X` so that `X` can be replaced by it,
to see that a property notices the mistake (`PROJECT.json`, "mutants").

### Streamer

`epc` is where the encoder is; `todo` are the clients its current loop has yet
to handle (`cur` is the first), `kept` is `clients2` of `writePacketToClients`,
and `quitting` tells the `cleanupClients` before a return from the
`cleanupClient` of one client. `wpc[c]` and `hpc[c]` are where client `c`'s
packetWriter and handler are. Calls that can block, and writes another goroutine
can see, are separate steps. In particular:

* `client.mutex.Lock` is two steps, the request and the grant (`lock` →
  `lockwait`, `clean` → `cleanwait`, `inputlock` → `inputwait`): a waiting Go
  writer keeps new readers out. Readers are not counted: who holds a read lock
  follows from `wpc`.
* `OpenOutputFails` enters `cleanupClient` with the mutex held (`wlock`).
* A send on `ClientChan` and its receive are one step, `AcceptClient`; a handler
  waits in `sending`. The blocking receive and the polling one differ only in
  that `StartRound` requires that nobody waits.
* `cleanupClient` is `LockToClean`, `CloseOutPipe`, `DestroyOutput`,
  `CloseChan`, `DrainPacket` for each packet, `DropChan`. `DropChan` resets the
  field, which a packetWriter that has not started reads (`StartWriter`).
* The outcome of `vs_write_packet` is an action each: refused for a nil
  argument, taken by the muxer, a fragment written, the pipe broken, rejected by
  the muxer. Each frees the packet and releases both locks (`WriteReturns`).
* The muxer fragments at keyframes (`frag_keyframe`): it keeps the packets of a
  fragment (`frag`), `WritePacket` adds one, and at a keyframe it writes the
  fragment to the pipe before it takes the packet (`EndFragment`, then
  `WriteFragment`, which blocks while the pipe is full). Which packets are
  keyframes is left open at each call, for each client: this allows more
  behaviours than an input, which has them at the same places for all.
* A failed `inPipe.Read` ends the handler (`ReadFailed`), as EOF does. A request
  whose pipe cannot be made is `refused` and never known to the encoder.

Data is abstracted: a packet is its number; a pipe carries a header (0), packet
numbers, and what ends another client's container (-1), which is its last
fragment and its trailer. A pipe is full from `PipeCap` items on; a fragment is
written whole when it is not. What ends a container is lost and not modelled
when the pipe of its own client is closed; it is modelled when the descriptor
number was given to another request's new pipe (`reuse`). `MaxPackets` and
`MaxInputs` bound how often packets are read and inputs opened; `FdReuse` and
`OutputMayFail` switch the two environments in which the code misbehaves, and
`ReadMayFail` the failed reads of the handlers.

### Timestamps

One action, `WritePacket`, is one call of `vs_write_packet`; `FixDts`,
`FixedPts`, `Monotonic` and `OutStamp` are its parts. `Rescale` is
`av_rescale_q_rnd` and `MuxerAccepts` what `av_write_frame` requires, as the
comments of `vs_write_packet` quote it. The two time bases are chosen in `Init`,
as the demuxer and the muxer choose them, and need not be equal. Stamps are
integers, `NoPts` is none of them. Durations are left out.

### Remux

`pc` is the call that comes next, `held` what is allocated, open or
referenced, `file` what the muxer was told to write. Every call of
`vs_open_input` and `vs_open_output` that can fail is a stage. The failure paths
of a function differ only in whether the options dictionary is freed, which is
why there are `InputFails`, `ProbeFails`, `OutputFails` and `HeaderFails`.
Destroying a resource twice would not show in a set; that a destructor skips
what does not exist is in the code's own tests for null, and
`ContainerComplete` would see a second trailer. A stream stands for its index,
its codec parameters and its time base, so that mixing up two streams shows.
`av_read_frame` gives the next packet of any stream (`Reads`), `read` has the
stream of each, and `Wanted` is the filter of `vs_read_packet`. A frame in `file`
has the number of its packet, so that a packet left out, written twice or out of
order shows too.

### Lists and Recorder

A list is a record of its head and the `next` and `prev` of every object.
`WellFormed` is two conditions a walk depends on: pointers agree with each other
(`Linked`) and every element is reached (`Reached`). Memory is used again.
`Block` gives any one free block: free blocks hold the same cleared contents
and nothing points to them, so which one malloc returns makes no difference.
`malloc` may also fail.

In `Recorder`, `apc[a]` is where a client thread is in `process_stream`,
`spc[s]` where a recording thread is. Each access to the list under
`streams_mutex` is a step (the walk is one step per element), so the properties
depend on the lock (`owner`) and not on large steps. `at[a]` is the client
thread's pointer. `age[s]` is `time(NULL) - s->updated`, counted by `Tick` up to
`MinRunTime`, which is all the loop's test can tell; time is therefore not
bounded. `idle[s]` is the `t` the loop took before its read.

### AlertData and AlertClient

An alert is a sequence of lexemes (brackets, colon, comma, strings, primitives,
or something misspelt), because that is the grain at which `jsmn_parse` changes
its state: `Parsed` is one turn of its loop, with the token array, the superior
token and its failures (no token left, brackets that do not match). The parser
is the non-strict one without parent links, which is how `clients.c` compiles
it, and takes many texts that are not JSON. `Scan` is the loop of
`client_alert_data`; `HexTexts` are the texts `strtol` makes a number of.
`JsonAfter`, `Members`, `Meaning` and `Parts` do not model code. They say what
the JSON grammar allows and what an alert means, for `AnsweredByMeaning`.

Brackets are lexemes named by what they begin or end (`"object"`,
`"end_object"`, `"array"`, `"end_array"`).

`AlertClient` reads as `s_read_all` does: `s_select` (`Wait`, `Interrupted`,
`TimesOut`, `SelectFails`, `Ready`), then `s_read` (`ReadSome`, `ReadNothing`,
`ReadFails`), until `cnt` is `size`. `left` is what `select` leaves in the
time-out. The header counts as `HeaderSize` pieces, data as one piece per
lexeme. The peer sends or closes whenever it likes. After an error `jsmn_parse`
reads no further; `Parse` then leaves the parser as it is and takes the rest of
the lexemes only as what the data was, which `AnsweredByMeaning` refers to.

### Database and AlertServer

`Database` has an action for each step of `db_mysql_connect` and
`db_mysql_query` and each thread that may be in them. It has no lock of its own:
`LockDb` and `UnlockDb` of `AlertServer` are what makes `HandleIsExclusive`
true, and `main`, which connects and sets up the session before there are
threads, does without. `CheckPasses` is the flood protection, which keeps the time (`noted`) it
looked at; `NoOptions` leaves `db->try_t` as it was, and `Attempt` stores the time
kept and begins to connect. `tried` is the time since `db->try_t`, counted up to
`Delay`; `since` counts the real time between attempts, so that `ConnectsSpaced`
does not rest on the variable it examines. As the time is taken before the
options are set, attempts are apart by the delay less what that took (`late`).

In `AlertServer` a thread is named by the memory of its `st_client`. `mpc` and
`cur` are main's place and pointer, `cpc[c]` is where a client's thread is.
Everything another thread can see is a step. `sd`, `incoming` and `listening`
hold descriptors, and the system gives out the lowest that is free. `lost`
records those that the failure paths of `accept_clients` drop. Reading an alert
and `process_stream` are one step here; `AlertClient` and `Recorder` have them,
with the same entry and exit.

## 3. What the runs check

| run | bounds | shows |
|---|---|---|
| `stream_safety` | 2 clients, channel 2, pipe 1, 3 packets, 2 inputs; outputs may fail | `PacketsConserved`, `OneConnection`, `WritersFollowInput`, `NoStrandedHandler`, `NotDestroyedInUse`, and that the daemon implements `StreamService` |
| `stream_liveness` | 2 clients, channel 1, pipe 1, 3 packets, 1 input; `ReadMayFail` off | the encoder never stops for good while viewers read or leave; requests are admitted; handlers and packetWriters end |
| `timestamps` | stamps -2..3 or missing, 4 packets, time bases 1, 1/2 and 1/3 on either side | dts strictly increase with equal bases, and from 0 on with a finer one in the output, and change no more than the repair asks for; a well-formed packet is never refused for its pts |
| `remux` | inputs of up to 3 streams, limits 0 to 3, 4 packets read | whichever call fails: nothing leaks, the loop has what it needs, a container that was begun is ended, the first video stream is in it, packet for packet |
| `recorder` | 2 cameras, 3 alerts, 3 blocks, `min_run_time` 1 | the list is sound, one recorder per camera, no use after free; alerts are handled and recordings end |
| `alert_client` | data of 0, 2 or 15 lexemes, 7 tokens, header in 2 pieces, time-out 2, one retry | one message is taken, waiting is bounded, the token looked ahead at exists, alerts are answered by their meaning, the thread ends |
| `alert_server` | 3 connections, descriptors 3 to 6, `mysql_connect_delay` 2 | the list and the descriptors are right, one user of the handle, attempts spaced, client threads end |
| `stream_slow_viewer`, `stream_open_failure`, `stream_late_writer`, `stream_fd_reuse`, `timestamps_bases` | | section 5 |

*Why the bounds are enough.*

* Daemon: two clients give every interaction, since clients meet only through
  the encoder, which handles one at a time. With a channel of 2, a pipe of 1 and
  3 packets, a channel fills before its writer takes from it, and is drained with
  a packet in it while the writer holds one in a blocked write. Two packets can
  reach a viewer, as the third sends off the fragment they are in; that none is
  left out between two others in longer streams is the theorem
  `DaemonImplementsService`. Two inputs are what closing and
  opening again takes. In
  `stream_liveness` a channel of 1 is enough for a client to be too slow, and
  three packets for one to be dropped, or served, while its packetWriter is in a
  blocked write of a fragment with a packet in the channel: the first packet is in
  the fragment, the second in hand. Its viewers' reads do not fail, which is no
  different to the encoder from a viewer that leaves.
* `Timestamps`: whole ratios and fractions of the time bases, in both
  directions, with halves and thirds to round; stamps on both sides of 0, where
  a missing one becomes 0.
* `Remux`: three streams put the video first, in the middle and last, or more
  than once; the limits are none, one that is reached and one that is not.
* `Recorder` and `AlertServer`: three elements are needed to remove from the
  middle of a list; three alerts to create, search past another camera and
  create or find again; four descriptors are the listening one and three
  connections, which are closed and given out again. A delay of 2 tells "at the
  limit" from "before it". The time-outs inside `process_stream` and the
  database are not counted: what matters to others is that the call returns.
* `AlertClient`: up to `AnyLength` = 3 lexemes the data is arbitrary. Longer data
  is a beginning of a JSON text with brackets up to depth `MaxDepth` = 2 and the
  `Keys` given, and goes on after an error only to close its brackets: arbitrary
  data is refused or is an answer by then. 15 lexemes
  and 7 tokens hold an object of three members, an object in an object, and an
  array as a value, whose items can be more than there are tokens. (An object of
  four members takes 17 lexemes; the theorem `AnswersMean` has no such bound.)
  Sizes 0 and 2 are the empty alert and one that ends early. Two bytes at a time
  (`Burst`) make reads that return part, all, and less than what is there.

`stream_safety` has `FdReuse = FALSE`, because a foreign trailer breaks the
promise of `StreamService` (`stream_fd_reuse` shows it); the other properties do
not mention what a trailer can change, which is one more item in a pipe. The
theorems about them hold with `FdReuse` too. `CHECK_DEADLOCK` is off for the daemon, which may really stop: the encoder
returns after an input failure, and without requests nothing happens. It is off
for `Timestamps`, which stops after `MaxWrites` packets. `Remux` and
`AlertClient` end in a state of their own and have deadlock checked, like the
alert server, where time always passes.

*Fairness.*

* `Streamer!Fairness`: goroutines that can run do run (the Go scheduler); a
  viewer that was given a chunk takes it or goes away (TCP); the pipe is read
  when it has data. Requests, failing copies and a muxer that complains are
  obliged to nothing. The steps of each goroutine are one fairness condition:
  reading may yield a packet, another stream's packet or a failure, and a
  handler that can read or hand on does one of them (`Serves`).
* `Recorder!FairSpec`: time passes, threads run, and a read returns, since
  `vs_open_input` sets a time-out of 10 seconds.
* `AlertClient!FairSpec`: the thread runs and time passes. Nothing is asked of
  the peer, and a wait need not be interrupted nor `select` fail; that the
  thread ends rests on `pk_read_tout` alone.
* `AlertServer!FairSpec`: main and the client threads run. Reading ends
  (`ThreadEnds` of `AlertClient`), `process_stream` returns (`AlertsServed` of
  `Recorder`), and the calls of the database return, with time-outs set in
  `db_mysql_connect`. Nobody has to connect and the database may always fail.
* No mutex is assumed to be fair: the fairness is weak, and a thread passes
  because the others that may overtake it are finite in number (`Alerts`,
  `MaxAccepts`).

## 4. What is proved

For every set of clients, streams, descriptors, every capacity and bound. Each
theorem rests on the module's own assumption on its constants and nothing else,
save where a row says so.

| module | theorems | property |
|---|---|---|
| `StreamerProofs` | `TypeCorrect`, `HandlersKnown`, `WritersCurrent`, `SingleConnection`, `UseIsSafe`, `CopiesConserved` | `TypeOK`, `NoStrandedHandler`, `WritersFollowInput`, `OneConnection`, `NotDestroyedInUse`, `PacketsConserved` |
| `StreamerServiceProofs`, while no descriptor is reused | `DaemonImplementsService`, `OnlyReuseMixesStreams` | `ImplementsService`, `OwnStreamOnly` |
| `StreamerServiceProofs`, `FdReuse` false | `ImplementsWithoutReuse` | `ImplementsService` |
| `TimestampsProofs` | `TypeCorrect`, `DtsIncrease`, `DtsLeastChange`, `WellFormedInOrder` | `TypeOK`, `IncreasesInFineBase`, `LeastChange`, `OnlyIllFormedEnds` |
| `RemuxProofs` | `TypeCorrect`, `AllReleased`, `LoopEquipped`, `FirstVideoWritten`, `ContainersEnd` | `TypeOK`, `NothingLeaks`, `LoopIsEquipped`, `FirstVideoCopied`, `ContainerComplete` |
| `RecorderProofs` | `TypeCorrect`, `StreamListSound`, `NoneUsedAfterFree`, `RecordedOnce` | `TypeOK`, `ListIsSound`, `NoUseAfterFree`, `OneRecorderPerCamera` |
| `AlertServerProofs` | `TypeCorrect`, `ClientListSound`, `NoneUsedAfterFree`, `DescriptorsOwned`, `HandleExclusive`, `ConnectsAreSpaced` | `TypeOK`, `ClientListIsSound`, `NoUseAfterFree`, `DescriptorsAccounted`, `HandleIsExclusive`, `ConnectsSpaced` |
| `AlertClientProofs` | `TypeCorrect`, `MessageFramed`, `WaitBounded`, `LookAheadParsed`, `AnswersMean` | `TypeOK`, `MessageIsFramed`, `WaitIsBounded`, `LookAheadIsParsed`, `AnsweredByMeaning` |

So every safety property of section 3, the refinement included, is also a
theorem. The arguments, each an inductive invariant that conjoins named parts:

* *The daemon* (`StreamerProofs!Inv`): `Locks` (the write lock excludes
  the readers, and the encoder holds it just where the code does), `Admission`
  (only admitted clients are in the encoder's lists, have outputs and writers),
  `Connection` (which input is connected at each place of the encoder),
  `Listing` (a handler that waits is in the list the encoder works from at that
  place) and `WritersFollowInput`. None of the four safety theorems is inductive
  alone: `NoStrandedHandler` needs to know which of `clients`, `todo` and `kept`
  counts where, `NotDestroyedInUse` needs the locks.
* *Packet copies* (`StreamerProofs!Conserved`), on top of it: that a copy
  is freed once does not follow from the channel alone. A client must not be in
  the lists twice (`Order`), or the encoder would clone one packet twice for it;
  a client it has yet to handle in this round has no copy of the packet
  (`Fresh`); and a packetWriter is started once, so that one hand holds one
  packet (`Setup`, `CopiesOf`).
* *The service* (`StreamerServiceProofs!Served`), on top of both: an item on its
  way to a viewer is in the channel, in the packetWriter's hand, in the muxer's
  fragment, in the pipe or in the handler's chunk, and `Whole` is all of it in order. A step of a
  packetWriter or a handler moves an item from one part to the next and leaves
  `Whole` as it is, so that it has no effect the service could see until the
  viewer takes it. The encoder adds the packet it read last, which is the next
  one only if the client was given the one before: `UpTo` says which that was,
  by whether the client's turn in this round has come. Every promise is then
  about a beginning of a stream (`IsStream`). The invariant holds until a new
  pipe gets the descriptor number of an output that is being destroyed
  (`NoReuse`), after which the promise fails (section 5). The theorems say
  `Spec /\ []NoReuse`, a condition on the behaviour and not on the constants, so
  they also speak of an environment that may reuse descriptors, until it does;
  `OnlyReuseMixesStreams` shows thereby that nothing else leads to the finding
  of section 5. Where `FdReuse` is false the condition is itself an invariant
  (`ImplementsWithoutReuse`).
* *Stamps*: the invariant is that `last_dts` is the dts of the last frame, and
  that of the muxer while it accepts. The rest is about rounding: `Rescale` never
  puts a later time before an earlier one, so a pts that was not before its dts,
  and was moved with it, is not before it in the output (`OnlyIllFormedEnds`); and where a unit of the input is at
  least one of the output, the successor of a dts that is not negative is
  rescaled to something greater than it. That is `IncreasesInFineBase`, and the
  nearest true thing to what the code wants, which is false (section 5).
* *Life cycles* (`RemuxProofs!Inv`): what is held before each call (`Holdings`),
  from which the failure paths are seen to release just that; where the index and
  the codec come from (`Sources`); what was written so far (`Contents`).
* *Lists* (`ListsProofs`): inserting in front, removing, and clearing a freed
  element preserve `WellFormed`. `Reached` quantifies over sets closed under
  `next`, so these are statements about sets and need no induction.
* *Recordings* (`RecorderProofs!Inv`): `Locks`, `Lives` (a thread's memory is
  allocated), `Chain` (the list is `WellFormed`), and `Sought`: what a client
  thread has passed in its walk has another camera, and leads from the head to
  where it is. When it reaches the end, `Reached` says that what it passed is the
  whole list; so the recording it then makes is the only one of its camera
  (`Apart`).
* *Connections* (`AlertServerProofs!Inv`): `Locks`, `Lives`, `Chain` as above,
  `Handle` (whoever is inside the functions of the database is the thread that
  holds `mysql_mutex`, or main before there are threads; `try_t` and the real time
  of the last attempt agree) and `Owned` (descriptors are injective over their
  owners, and each open one has an owner or is lost).

* *Waits of a client thread* (`AlertClientProofs!CounterInv`): `MessageIsFramed`
  needs to know that a read never gets more than is missing (`Framing`).
  `WaitIsBounded` says nothing of the time-out that is running, so `Waits`
  counts what was waited and what `select` has left against a time-out for each
  byte read and one for the byte it waits for (`Budget`): a second that passes
  moves from the one to the other, a byte adds a time-out, an interruption adds
  nothing.
* *Tokens* (`ParserOK`): a token that has a part is not the last one, because the
  part is a token after it. That is `LookAheadIsParsed`, and it holds of any
  data, JSON or not.
* *Answers* (`Understood`). `Scan` goes over the tokens from the first, `Meaning`
  looks at all members of the data; they are compared lexeme by lexeme. What
  `Scan` makes of the tokens does not change but when the value of a key is
  read (`ScanSame`, `ScanTakes`), and neither does `Meaning` (`MeaningSame`,
  `MeaningTakes`): a key without a value and a bracket without a part are seen by
  neither. For that the parser must be where the grammar is: the open tokens are
  the brackets around the place (`Nest`), and the superior token is the
  innermost of them, or the key whose value comes next, or a key whose value was
  read (`Stands`). Nothing of this is true of texts that are no JSON, of which
  `AnsweredByMeaning` says nothing either. When the tokens run out there were
  more parts than tokens, and the rest of the data can only add to them. The
  theorem has no bound on the length, the depth or the keys of the data: it
  holds for every value of `AnyLength`, `MaxDepth` and `Keys`. The texts are
  those of `Strings` and `Primitives`.
* `Scan` is a recursive function, and that it has a value for each token needs
  an induction. The prover has none for operators; `Induction` is one for sets of
  numbers, derived from the well-foundedness of `<`, and `ScanExists` and
  `ScansAgree` use it.

Only model-checked: liveness (`EncoderKeepsUp`, `ViewerAdmitted`,
`AdmittedHandlersEnd`, `RangingWriterEnds`, `AlertsServed`, `RecordingsEnd`,
`ThreadEnds`, `EveryClientEnds`), like ENABLED out of the prover's reach; and the
runs that find a violation.

## 5. Where the code does not do what it says

Each is a run whose property is the code's own statement; `PROJECT.json`
quotes it.

* `stream_slow_viewer`: the encoder does wait for a slow viewer. It takes the
  client's mutex for every packet, and the packetWriter holds it while it is
  blocked on a full pipe. `stream_liveness` shows that it waits no longer than
  the viewer.
* `stream_open_failure`: when an output cannot be opened, `cleanupClient` locks
  the mutex `writePacketToClients` holds. The daemon stops.
* `stream_late_writer`: a packetWriter that first runs after `cleanupClient`
  reset `PacketChan` ranges over a nil channel for ever.
* `stream_fd_reuse`: the trailer of a dropped client can be written to another
  viewer's pipe.
* `timestamps_bases`: `last_dts` is kept in the output's time base and compared
  with stamps in the input's. Where the output's is coarser (microseconds in,
  1/90000 out), the repair can hand the muxer a dts that does not increase, and
  the viewer's stream ends. RTSP usually counts in 1/90000 on both sides.

Seen while modelling, without a run:

* A packet with a dts and no pts gets pts 0, which the muxer refuses;
  `OnlyIllFormedEnds` excepts such packets.
* After the encoder returned, requests still send on `ClientChan` and wait for
  ever.
* `vs_destroy_output` writes a trailer whenever there is a context, also when
  the header was never written; `ContainerComplete` asks nothing of containers
  that were not begun.
* An alert that arrives while a recording reads its last packet does not prolong
  it, as the idle time was computed before.
* `accept_clients` counts connected clients and does not use the counts:
  `max_clients` and `max_clients_per_ip` limit nothing.
* When malloc or `pthread_create` fails, `accept_clients` never closes the
  connection. `DescriptorsAccounted` counts these as `lost`.
* After a reconnect, the session settings `main` made are not made again.

## 6. What is not modelled

* `main` and `getArgs` of the daemon, `nvr.c` before `s_listen`, and `conf.c`:
  sequential, with no state the threads share. `clients_mutex` is
  initialised there; `streams_mutex` is zero in a global and `mysql_mutex`
  cleared by `init_db`, which is an unlocked mutex on Linux, before there are
  threads.
* `str.c` and `tools.c`: pure, short helpers.
* Code that is never called: `s_connect`, `s_write`, `s_write_all` and
  `s_read_line` of `sock.c`; the results of SELECT, UPDATE and INSERT, and the
  check of a query before it is sent, in `db_mysql.c`.
* The bytes of the container, HTTP, the insides of ffmpeg and of the MySQL
  client.
* What is inside a string or a primitive of an alert (escapes, digits): a lexeme
  is one of a few texts or is misspelt. `data_size + 1` at the largest value.
* The text of the INSERT, which is cut off at 2048 characters, and the session
  settings of the database.
* The width of stamps (64 bits), and durations.
* File names of recordings (one file per camera and second).

## 7. Plan

What would add most next:

1. File names: two recordings of a camera within a second, in `Recorder` with a
   clock.
2. One instance of `Recorder` inside `AlertServer`, for alerts and connections
   that end in the same state space.
