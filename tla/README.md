# Triton: a TLA+ verification project

Triton is the multimedia subsystem of Voyager, written in C for OS/2.  This
directory models the parts of it in which threads, processes and plugins meet:
the AudioMixer with its daemon, the message queue of the porting layer, the
core with its process tree and stream groups, the output plugins, and a
demultiplexer with its decoder.  TLC checks the models on small instances, and
TLAPS proves the safety properties for every instance.

    tlc -config AudMixMixer.cfg MCAudMixMixer.tla      # model-check a run
    tlapm AudMixPlay_proofs.tla                        # check the proofs

`PROJECT.json` lists the components, the runs, the definition each line of code
is modelled by, the hazards and the theorems.

## 1. The system

| part | source | state | operations |
|---|---|---|---|
| porting layer (TPL) | `TPL/src` | mutexes, events, counting events, message queues, threads | thin wrappers of OS/2 calls, except the counting event and the queue |
| AudioMixer library | `AudMix/AudMixer` | per client: lists of buffers, time stamps, a mutex, an event; shared: a command area; in the daemon: the list of clients, the work buffer, the hardware buffers | client calls, command thread, DART callback |
| AudioMixer programs | `AudMix/AudMixD`, `AudMixT` | none | start and stop the daemon; play a file |
| MMIO core | `MMIOCore/src/MMIOCore.c` | registered plugins, loaded plugins with reference counts, the process tree, stream groups with event queues | open and close a medium, build chains of plugins, control stream groups, report positions and events |
| MMIO memory | `MMIOCore/src/MMIOMem.c` | list of allocations | malloc and free with checks |
| output plugins | `MMIOPlugins/MPAOUT`, `MPVOUT`, `MPNulOut` | worker threads, direction, buffers | pull frames from the node above and play them |
| demultiplexers | `MPAVIDem`, `MPMP3Dem` | a file handle, per stream an index table and a position | give out the frames of a stream, seek |
| decoders | `MPMPADec`, `MPAVCOD`, `MPGBM` | decoder state, an input buffer, a clock | give out decoded data |
| media handler | `MPFile` | a file | read and seek |

**Interaction.**  A player opens a URL with the core, which builds a chain of
plugins down to terminators such as MPAOUT.  The worker thread of MPAOUT takes
empty buffers from its AudioMixer client, has the chain fill them, and puts
them back full: the decoder fetches frames from its stream of the
demultiplexer, and all streams read through one file handle.  The mixer, a
callback of the sound driver DART in the daemon process, reads the full buffers
of all clients and reports time stamps, which the reporter thread of MPAOUT
gives to the core; the core puts events into the message queue of the stream
group, from which the player reads.  Client processes and daemon share memory,
mutexes and events; clients send commands to the daemon through two shared
variables and two events.

**What is hard.**  Two processes relink the same lists.  Every lock and every
answer of the AudioMixer is waited for with a limit of five seconds, after
which the call goes on without it, while the rest of the system waits without
limits.  A mutex is held across a command to another process.  Time stamps
must be delayed by exactly as many rounds as the driver has buffers.  OS/2 has
no counting semaphore, so the queue builds one from three calls.  Opening and
closing recurse over a tree that plugins change meanwhile, and any plugin may
fail at any stage.  Terminators report events while their stream group is
changed or destroyed.  A decoder may keep a buffer and return another one.
Threads of two streams move one file pointer.

**What makes each part correct.**

- Buffers: every buffer is in one place; full buffers are played in order and
  come back; a thread that waits for one is woken.
- Mixing rounds: a hardware buffer plays what was mixed for it and nothing old;
  a reported time stamp is what is heard at that moment.
- Command channel: an answer belongs to the command; the list holds only living
  clients; a process leaves none behind; every call returns.
- Message queue: a bounded FIFO; a message in it is always announced.
- Process tree: it stays a tree at every step; references to plugins are exact,
  and nothing is left when all is closed; an open that fails leaves no trace;
  no plugin is called that is not loaded and initialized.
- Stream groups: lists and owners agree, as far as streams are only removed
  from the group they are in; main stream, capabilities and direction are those
  of the members; no event goes to a group that is gone.
- Output plugins: every buffer is accounted for; after Unlink no thread, paint or
  buffer is left; Unlink returns.
- Demultiplexer and decoder: each stream gets its own frames; the decoder is
  reset and its clock set at every jump, and at no other time.

## 2. Modules

| module | models | state and actions |
|---|---|---|
| `PointerLists` | what it means that pointers form a list | operators only, used by properties |
| `AudMixBuffers` | the buffers of one client | the fields of `audmixClient_t` and `audmixBufferDesc_t` by name; one action per API call, split where the mutex is released; `MixStart`, `MixSkip`, `MixToSourceEnd`, `MixToDestEnd` are the mixer |
| `AudMixPool` | abstract: owners of buffers and a queue | implemented by `AudMixBuffers`; its rules for owners are kept by the worker of `Outputs` |
| `AudMixMixer` | the rounds of the DART callback | work buffer, hardware buffers, delay lines, client list; a round is `DARTEventFunc`, `LockList`, per client `ReportStamp` and `MixClient` or `MixNothing`, `UnlockList`, `WriteBuffer` |
| `AudMixDaemon` | the command channel, the client list, start and stop | the shared variables by name, where each thread is in `internal_SendDaemonCommand()`, where the daemon is in `internal_ProcessCommands()`, the mixer as an owner of mutexes |
| `TplMsgQ` | the message queue over the counting event | the fields of `TPLMsgQ_t`; a receive is `Receive`, `Wake`, `Reset`, `Repost`..., `TakeFirst` |
| `MsgFifo` | abstract: a bounded FIFO | implemented by `TplMsgQ` |
| `StreamGroups` | stream groups, events and reports | lists of entries, owner fields, main stream, both mutexes; two threads of the application (one changes groups, one sets directions and reads events) and one per terminator |
| `EventTargets` | abstract: events go to existing groups only | implemented by `StreamGroups` |
| `ProcessTree` | open, close, initialize, uninitialize | the pointers of the nodes, reference counts of plugins, and the stack of the recursion; an action is one step of `MMIO_internal_OpenCore()`, `..._OpenCoreWalkTree()` or `MMIOUnlinkNode()` |
| `PluginUse` | abstract: the life of a plugin instance | implemented by `ProcessTree` |
| `Outputs` | the three output plugins | which of them is `kind`; the application's thread in Link, Unlink and SetDirection, the worker, and the second thread (reporter of MPAOUT, PM thread of MPVOUT); where each buffer is |
| `AviStreams` | MPAVIDem with MPMPADec above each stream | positions and marks by name, the file handle and its mutex, where each fetch is; `ChooseFrame`, `SeekSource`, `ReadSource` and `Decode` are the stages of a fetch |

A module `X_proofs` holds the theorems about `X` (`AudMixPlay_proofs` those about
`AudMixBuffers` and `AudMixMixer`, which together play the clients' sound), an
`MCX` the values TLC gives to its constants.  Definitions under a comment that starts with "Mutation:" are
no part of a specification: each is a version of the definition after it with a
plausible mistake, which breaks a property and so shows that the property
depends on the code.

**Atomicity.**  A step is a critical section under one mutex, or an access to
shared state outside of one.  Critical sections in which the code does
something another thread can see (it waits for a second mutex, sends a command,
calls a plugin that blocks) are split there.  In `AudMixBuffers` the mixer keeps
the client mutex (`mixing`) over several steps, since its loop runs as long as
there is room.  In `ProcessTree` a step goes from one call of a plugin or of the
recursion to the next.  In `AviStreams` the choice of a frame, the seek, and the
read with the return to the decoder are steps of their own; the position is
written after the mutex was released, but only the thread that calls for this
stream reads it.

**Abstraction.**  Sound is the set of clients in a buffer, a time stamp is an
opaque value that is `Zero` at first, and the custom mixer's progress is any
number of samples that leaves the source or the destination exhausted.  Audio
formats are reduced to whether a mixer exists for them.  Streams of a group are
audio, video or neither.  A plugin is the shape of the subtree it makes and the
node types it accepts; each of its calls may fail.  A frame is an index entry
with a size class, and what the libmpg decoder makes of it is a choice.
Time is left out of `Outputs`: a picture is shown at some moment.  History
variables are never read by an action's guard or by the variables of the code:
in `AudMixMixer` `fed`, `fedAt`, `now`, `end`, `last`, `heard`, `missed`; in `AviStreams`
`first` and `fed`; in `StreamGroups` `stray`, `chosen` and `misnamed`.

**Streams in groups.**  `MMIORemoveStreamFromGroup` does not look whether the
stream is in the group it is given.  It stops the stream and clears its owner
field (`MMIOCore.c:1601-1611`), and only then searches the list, so a stream of
another group stays listed there; it can be added again, then be in two lists,
or twice in one.  `RemoveStreamFromGroup` is therefore enabled for every stream
and group, a list holds entries and not nodes, and the history variable
`misnamed` collects the streams for which another group than their own was
named.  Adding and removing are split where list and owner field are written and
where a terminator is called: `AddStream`, `OwnStream` and `JoinStream`, and
`StopRemoved`, `DisownRemoved` and `UnlinkRemoved`.  So a report may come while a
stream is listed and has no owner.  `MembersOwned` says what is true of all streams (the group a field
names lists the node) and what only of those never misnamed (no other group
does, and none twice), and names the two moments within a call at which even
these differ (`InTransit`); `DirectionsAgree` excepts misnamed streams too.
`MainIsBest` and `CapsCombined` need no exception: they speak of the list alone,
and of moments when its mutex is free.

**Preconditions of callers.**  What the code does not check and its callers in
the repository respect:

- A thread passes to the buffer calls only buffers it got from
  `AudMixGetEmptyBuffer`.
- A client is released only when its own threads are not inside
  `AudMixGetTimestampInfo`.  Before a restart of the daemon, calls that waited for
  the old one have returned.
- Streams are added and removed by one thread, and the thread that uses a group's
  events has returned before the group is destroyed, as in `mmiotest.c`.  (With
  two threads, both could add one node: it is checked before the mutex is taken,
  `MMIOCore.c:1436`.)  Only terminators are passed to `MMIORemoveStreamFromGroup`;
  that they are in the group is not assumed, see below.
- One thread opens and closes.
- A terminator owns `hmtxUseRSNode` while it calls the decoder, so a seek or a
  change of speed happens between two fetches of the stream.
- An index table has at least three entries: with fewer, `avidemux_SetPosition`
  uses `iMiddlePos` without a value (`mpavidem.c:1589`).

The decoders in the repository never keep a buffer; `KeepBuffer` and `DecodeKept`
of `Outputs` are what the plugin interface allows and the terminators handle.

## 3. Runs

| run | instance | question and answer |
|---|---|---|
| `buffers` | 2 buffers, 2 threads, 2 samples | `ListsOK`, `HandsOK`: the lists stay well linked and partition the buffers; `PoolSpec`: the pointers implement the pool; `SourceOK`: the kept source pointer is valid; `WaiterWakes`: no post is lost between the miss and the wait |
| `mixer` | 1 client, 3 hardware buffers, 2 stamps | `SoundOK`: no old sound, no lost silence; `StampNotAhead`: neither the stamp nor what a client reads of it without the mutex is ahead of playback; `StampExact` |
| `daemon` | 2 processes, 2 clients; locks time out, answers do not | `ListedAllocated`, `AnswerTrue`, `ShutdownOnlyOnRequest` |
| `daemon_live` | 2 processes, 1 client; only the mixer gives up | `CallReturns`: the mixer's timeout breaks the cycle of waits; `ExitCleansUp` |
| `daemon_cleanup` | 2 processes, 2 clients; answers time out | violated: a late result answers the next command |
| `msgq` | 2 receivers, 3 elements, capacity 2 | `QueueOK`, `NoneUnannounced`, `FifoSpec`; `ReceiverWakes`: who waits gets what is there |
| `groups` | 1 group whose address is used again, 3 nodes (audio, video, other; one refuses a direction), a queue of 1 | `MainIsBest`, `CapsCombined`, `NobodyStuck`; `CallsReturn`: the order of the two mutexes never closes a cycle |
| `groups_two` | 2 groups that can be swapped, 2 nodes (an audio stream with two entries, and another that cannot play), no room for events | `MembersOwned`, `DirectionsAgree`: a stream is removed from a group it is not in, and all others stay right; `TargetSpec` |
| `groups_event` | 1 group, 2 nodes | violated: an event report reads an entry that is freed |
| `tree` | 12 nodes, 7 plugin instances, 4 plugins, opening to levels 5 and 6 | `TreeOK`, `RefsExact`, `RestOK`, `OldTreesKept`; `UseSpec`; `CallsReturn` |
| `outputs` | the three plugins, 3 buffers of which 2 at the start, one step of growth | `BuffersAccounted`, `NothingOutlives`; `ClientOwnerSpec`: MPAOUT keeps the rules of `AudMixPool`; `UnlinkReturns` |
| `avi` | 2 streams of 3 entries: keyframes with a short frame, and a big one that is no keyframe; a buffer that can be grown once | `OwnFrames`, `DecoderContinuous`, `ClockOfRun`, `FetchReturns` |

**Bounds.** Operations on lists touch a node and its neighbours; two buffers
give empty lists, a head that is the tail, and a head and a tail, and the
theorems of `AudMixPlay_proofs` hold for any number.  Two threads compete for a
buffer, one waits while the other acts.  Two samples per buffer let a source be
left in the middle; a destination of two lets a mix cross from one buffer to
the next.  Three hardware buffers give the delay line a first, a middle and a
last slot (the daemon program uses two).  Two processes are a sender and the
sender after it; one client suffices for the cycle of waits, as one process
owns its mutex and the other asks for the list.  `MaxPosts` (65535 in OS/2) and
`Wrap` (2^32) only need to exceed the capacity of the queue; 2 and 4 let the
wrap-around be reached.  In `groups` one group is created, destroyed and
created again at the same address, which is the worst case for what outlives
it; a queue of one is full at the second event.  `groups_two` has the second
group that a stream can be removed through or added to while the first still
lists it, and a second entry for one node, so that it can be listed twice.  It
has only the one node that can play, because of the number of states; the
theorems of `StreamGroups_proofs` hold for any nodes, entries and groups.  Its
properties are safety properties and treat all groups alike, so groups may be
swapped (`SYMMETRY`); they say nothing of the length of the queue, so it has no
room.  Twelve nodes let one URL be opened down to two outputs and a second one
behind it, with the nodes of attempts that fail.  Three buffers in `Outputs`
let a decoder keep one and return another while a third is shown.  Three index
entries let a frame be left out, by a seek or at double speed, or be too short;
the two streams are as different as the code can tell.  Every bound is a
constant of its module.

**Timeouts.**  `TimesOut` of `AudMixDaemon` names the waits that may give up though
the other side is alive and will go on; the runs choose it, since the properties
differ by it.  A wait for a dead daemon always may give up.

**Fairness.**

- `AudMixBuffers`: the mixer runs on, since DART asks for the next buffer for
  ever, and a thread inside `AudMixGetEmptyBuffer` is scheduled; no client has to
  call anything and no wait has to time out.
- `AudMixDaemon`: the threads inside calls, the command thread (time critical
  priority) and the mixer are scheduled, and a mutex that is free again and
  again is obtained at last (strong fairness), since OS/2 grants it in the order
  of requests.
- `TplMsgQ`: only the receiver inside the call is scheduled.
- `StreamGroups`: threads inside calls are scheduled and get a mutex that is free
  again and again; a report goes on.
- `ProcessTree`: the thread inside a call is scheduled.
- `Outputs`: worker, second thread and the application inside Unlink or
  SetDirection are scheduled, the decoder answers, and the time of a picture
  comes.  (`mpvout.c:695` may compute that time from a value not yet set; then
  `UnlinkReturns` holds only when it comes all the same.)
- `AviStreams`: a fetch goes on, and the mutex of the file is obtained at last.
  Nobody has to start a fetch or stop seeking.

**Deadlock** is checked except in `AudMixDaemon`, where the system stops when all
processes have ended and the daemon is not started again, in `ProcessTree`,
which ends with `MMIOUninitialize`, and in `Outputs`, which ends with Unlink.

## 4. What the violations show

1. `daemon_cleanup`: the channel has no number that ties a result to its command.
   After one wait of five seconds a late result reaches the next sender, so a
   client is freed under the mixer.  The same result overwrites the next command
   and, being 1, is read as the shutdown: with answers that time out
   `ShutdownOnlyOnRequest` fails too.
2. `groups_event`: `MMIOPsReportEvent` reads `pMainStream` of the group under the
   mutex of another object, and the entry it points to may have been freed by
   `MMIODestroyStreamGroup`.

Met while modelling, without a run of their own:

- `MMIORemoveStreamFromGroup` for a stream of another group returns
  `MMIO_NOERROR` and leaves the stream listed there with an owner field of NULL,
  which `MMIO.h:199` says means that the node is in no group.  The next
  `MMIOSetDirection` of that group makes the stream play, and it reports to
  nobody.  (`misnamed` in `StreamGroups`, section 2.)
- `AudMixGetTimestampInfo` reads stamp and time (`AudioMixer.c:1948`) without the
  mutex under which the mixer writes both, so it can return the stamp of one
  round with the time of the next, while the Programmer's Guide (3.3.14) says that
  the time is "the system time when the given timestamp was reached".  The
  reported position is then off by one buffer length.  `StampNotAhead` says what
  is true all the same: neither of the two is ahead of playback.
- `mpavidem.c:1593` and `1601` test `uchFlags & KEYFRAME == 0`, which C reads as
  `uchFlags & (KEYFRAME == 0)`: the loop under "Now find the nearest keyframe!"
  never moves, and a seek lands on any frame.  `LandOn` has it so.
- `mpavidem.c:1557`, under "Check if we're about to seek beyond last", repeats the
  test of the first end, so a seek beyond the end is handled by the search.
- `mpavidem.c:1444` computes the time stamp of a frame from the position of the one
  before it, which is -1 for the first.
- MPMPADec never passes the mark of a discontinuity on to the terminator.
- With events lost to a full queue, a subscriber learns nothing of it
  (`MMIOCore.c:2374`).
- In the AudioMixer a buffer that `AudMixPutEmptyBuffer` returns posts no event, so
  of two threads of one client one can wait although a buffer is there; MPAOUT,
  with one worker, is not affected.  `WaiterWakes` is about the buffers the mixer
  gives back.

## 5. Proofs

Each theorem holds for every value of the constants that satisfies the named
assumptions of the module.  They say only that sizes are positive, sets finite
where they are counted, and null values not in the sets; and in `ProcessTree`
that what a plugin makes of a node is of a later type (`DeeperAssumption`), which
every plugin in the repository does and without which open would not end.

| module | theorems | argument |
|---|---|---|
| `PointerLists_proofs` | lemmas | a finite set has one order that the pointers follow (by the least position at which two orders differ); appending, pushing and removing at either end give a list again |
| `AudMixPlay_proofs` on `AudMixBuffers` | `TypeCorrect`, `ListsCorrect`, `HandsCorrect`, `SourceCorrect`, `PoolCorrect` | `Inv` joins the lists, hands and source with `DataOK` (a full buffer has data left), without which a source pointer could point behind it; the refinement maps a step to the pool's step under `Inv` |
| `AudMixPlay_proofs` on `AudMixMixer` | `MixerTypeCorrect`, `SoundCorrect`, `StampNotAheadCorrect`, `StampExactCorrect` | see below |
| `AudMixDaemon_proofs` | `TypeCorrect`, `ListedCorrect`, `AnswerCorrect`, `ShutdownCorrect`, `ExitCorrect` | see below |
| `TplMsgQ_proofs` | `TypeCorrect`, `QueueCorrect`, `FifoCorrect`, `NoneUnannouncedCorrect`, `CountExactCorrect` | list and counter by the lemmas on lists; posts by counting tokens: the posts of the event and those in receivers' hands are never fewer than the messages |
| `ProcessTree_proofs` | `TypeCorrect`, `TreeCorrect`, `RefsCorrect`, `RestCorrect`, `OldTreesCorrect`, `UseCorrect` | see below |
| `StreamGroups_proofs` | `TypeCorrect`, `MembersOwnedCorrect`, `MainIsBestCorrect`, `CapsCombinedCorrect`, `DirectionsAgreeCorrect`, `NobodyStuckCorrect`, `TargetCorrect` | `ControlInv` says which thread owns which mutex where what it has still to do, and which stream and entry it has in hand; `MembersOwned` is inductive relative to it, since the call names the one stream that is between two writes; `MainStreamOK` and `CapsOK` say what of the main stream and the capabilities is true between the steps of a call; `DirectionOK` says of a group in the middle of a change which of its streams have been told; no threads wait for each other because the owner of a field waits for nothing and who waits for a group's mutex owns none |
| `Outputs_proofs` | `TypeCorrect`, `NothingOutlivesCorrect`, `BuffersAccountedCorrect`, `ClientOwnerCorrect` | `TypeInv` relates the states of the threads (`ThreadsOK`) and what the worker has in its hands (`HandOK`); the accounting is an invariant of both and gives the owners' rules of the pool |
| `AviStreams_proofs` | `TypeCorrect`, `OwnFramesCorrect`, `DecoderContinuousCorrect`, `ClockOfRunCorrect` | `MutexOK` ties the file position to the owner of the mutex; `RunOK` says that since the last mark only short frames lie between the frame fed last and the table position, unless the next frame will be marked, and that the clock is of this run or will be set |

`SoundOK` of the mixer is not inductive: nothing in it says why a hardware buffer
that is not written is already silent.  `SoundInv` ties the counter to the ring:
after `iNoMixCounter` rounds without a client that many last buffers are silent,
so all are when the work stops, and the work buffer holds what this round
mixed.  `AheadInv` says of each slot of the delay line that it holds a position
playback has reached or will have reached when the slot leaves; a round that
leaves the client out only makes it later.  `ReadInv` says the same of what a
client has read of its stamp and time, and that the mixer writes the time of
just the stamp it wrote before.  `UnbornInv` says that a client
outside the list has no history.  `ExactInv` says that slot i of the delay line
of a client that was never left out is the end of hardware buffer i, or i + 1
once the round has moved the line.

None of the properties of `ProcessTree` is inductive, and most of the work is
to say what the recursions rely on.  `Inv` has eleven parts.

- The tree: `NodesOK` says that a node that is not allocated is not linked, and
  that an allocated one is a URL below the root or was made by the plugin linked
  to its parent, as the only child there or below that plugin's own node; types
  grow downwards.  `ChainsOK` says that first child and next brothers list the
  children.  Since types grow there is a topmost node in every set of nodes,
  and that replaces induction over the tree.
- The plugins: `InstancesOK` gives each instance outside the call's hands one node
  to unlink it at, `CountsOK` a reference per instance and one in hand, `HandOK`
  says where in a call something is in hand.
- `MMIOOpen`: `WalkOK`, the nodes it has come to are a way down from a URL, and a
  plugin is tried at leaves only.
- `MMIOUnlinkNode`: `CallsOK`, each call that waits is for a node the next one hangs
  on, by first child or brother, and never for one above an earlier call;
  `DoneOK`, what a call has behind it is unlinked, so only nodes remain that go
  with their parent.  So a plugin that is unlinked has nothing of others below
  it, what it destroys is a whole branch, and no call that waits is for a node
  of it.  This is the reason why the handles that the recursion reads before
  and uses after the plugin's Unlink stay good.
- The URLs: `UrlsOK`, the root's children are the open URLs in order and the one
  at work behind them; `OldOK`, no call works on a node below an open URL.

`RestOK` follows: when no call is at work the root's children are the open URLs,
and a topmost node that is below none of them could hang nowhere.  For
`OldTreesKept` and `UseSpec` each step is mapped under `Inv`.

Proving it corrected the model in two places.  `TypeOK` allowed no more references
than instances, which fails while all instances are taken and one plugin more
is loaded and not yet initialized, and a way down of one node less than there
are types; no configuration that is small enough to check gets that far.  And
`DeeperAssumption` was tacit in the shapes of plugins that TLC is given.

The command channel is right because, at any time, at most one of three things
is true of it: a command is posted, the daemon is at work on one, or an answer
is posted; and each determines where the sender is and whose command the
shared variables hold.  This is false after a sender has given up, so
`ListedCorrect`, `AnswerCorrect` and `ShutdownCorrect` assume `"result" \notin
TimesOut`, as their runs do (and `daemon_cleanup` shows that it is needed);
`ExitCorrect` assumes that only the mixer gives up, `TimesOut \subseteq
{"client"}`.

The type invariants of `AudMixBuffers`, `AudMixDaemon`, `StreamGroups`, `ProcessTree`,
`Outputs` and `AviStreams` are proved, and are part of no run; so is `CountExact`, which says for
one receiver more than `NoneUnannounced` says for any.

**Model-checked only.**  Liveness and what rests on fairness: `WaiterWakes`,
`CallReturns`, `ReceiverWakes`, `CallsReturn`, `UnlinkReturns`, `FetchReturns`, and the
fairness part of `PoolSpec`.  TLAPS does not reason about fairness.
Of `CallsReturn` of the stream groups the safety part is proved: no cycle of waits
(`NobodyStuck`).  The two runs that find a violation have nothing to prove.

## 6. Not modelled

- Sample conversion: `internal_GenerateCustomMixer()` writes machine code for each
  pair of formats.
- File formats: the parsers of MPAVIDem and MPMP3Dem, byte by byte.  MPMP3Dem has
  one stream and one thread at a time.
- MPAVCOD and MPGBM, wrappers of ffmpeg and gbm, and the vendored code itself:
  about 56,000 of the 80,000 lines under `src/` are headers of ffmpeg, mostly
  tables, and several thousand more are gbm and mpglib; there is no behaviour of
  Triton to state in them.
- Positions and time stamps: the interpolation in `MMIOPsReportPosition`, the
  arithmetic of the decoders' clocks, the time a picture is shown.
- The registry file: read and rewritten in whole, without a lock, by single calls.
- `MMIOMem.c`, a debugging aid; TPL's wrappers of one OS/2 call each, whose meaning
  the modules use directly; the test programs and the daemon's `main()`, whose
  calls are the actions of the modules.
- Reverse playback of MPAVIDem: MPMPADec, which `AviStreams` has above it, does not
  offer it.
- Building a tree by hand (`MMIOLinkPluginToNode`, `MMIOUnlinkNode` called by the
  application), and `MMIOClose` with terminators that are still in a group: the
  test programs destroy the groups first.
- Failures of the system calls that create a semaphore or a queue.
