# Verification of PoopWorms

PoopWorms is an iPad instrument.  The player draws worms; every worm is a
recorded loop of notes that crawls over the screen, eats sounds and effects,
decays, mates and dies.  Sound is made by a scsynth server in the same process,
to which the application sends time-stamped OSC bundles over UDP.

This directory holds TLA+ modules translated from that code, the TLC
configurations that check them, and proofs checked by TLAPS.  `PROJECT.json`
maps every definition to the lines it models and lists runs, mutants, hazards
and theorems.

## The system

| Part | State it keeps | Operations | Module |
|---|---|---|---|
| `EWSequence` (`PoopWorms/EWTiming.m`) | `timeline`, `pos`, `recording`, its registration for ticks | `setLength:`, `addEvent:`, `addEvent:atTick:`, `poopEvent:`, `decay:`, `drift:`, `record`, `play`, `stop`, `reset`, `tick` | `Timeline`, `EWSequence`, `LoopTape` |
| Mating loop of `-[PWViewController tick]` | the array `worms`, `mating` and `lastDate` of every worm, the loop's cursors | one round of the inner loop, one of the outer | `MatingScan` |
| `PWViewController`, `PWWormFieldView` | `creatingWorm`, `currentWorm`, `worms`, the stop timer | touch to start a worm, touch to add a note, timer, Clear, tick, `offspringOf:and:` | `WormField` |
| `PWWorm` | `creating`, `age`, effect eaten, its sequence and synths | `tick`, `stopCreating`, `clearWorm`, `eatEffect:`, `mantleSynths`, `dismantleSynths` | `WormField`, `SynthServer` |
| `NSNotificationCenter` (external) | the observers of `tickNotification` | post, add, remove | `WormField` |
| `AKSCSynth` | `lastNodeID`, `lastGroupID` | `group`, `synthWithName:...`, `freeAllInGroup:` | `SynthServer` |
| scsynth's scheduler and node tree | bundles waiting, the tree of groups and synths | `/g_new`, `/s_new`, `/g_freeAll`, `/n_free`, a synth that frees itself | `SynthServer` |
| scsynth's queues (`MsgFifo.h`) | a ring and three heads, shared by two threads without a lock | `Write`, `Perform`, `Free` | `MsgFifo`, `FifoQueue` |
| scsynth's scheduler (`PriorityQueue.h`) | an array in heap order | `Add`, `Remove`, `Empty` | `SchedulerHeap`, `EventQueue` |
| scsynth's threads: UDP port, audio callback, non-real-time thread | who holds a packet's memory, the condition the last thread waits for | receive, perform, schedule, return, free, `/clearSched` | `PacketPath` |
| `EWTicker` | `lastTickDate`, `currentTick`, its timer | `start`, `stop`, `advance` | `EWTicker`; in `WormField` a tick may come whenever the main thread is free |
| VVBasics: `VVThreadLoop` | two flags shared with the thread it detaches | `start`, `stop`, `stopAndWaitUntilDone`, the loop | `VVThreadLoop` |
| `PWSplotchHandler`, `PWSplotch` | food and effects on the screen | place, hit, explode, kill | not modelled |
| VVOSC: `OSCInPort`, `OSCManager`, `OSCAddressSpace`, `OSCNode`; VVBasics: `MutLockArray` | ports, address tree, locks | | not modelled |

How they interact: the ticker posts `tickNotification` on the main thread; the
notification centre calls the controller, the sequences and the worms one after
the other.  A sequence fires its notes, a worm decays its sequence and may eat,
and the controller walks all worms and may make new ones, which register as
observers in the middle of the post.  Every sound becomes a bundle stamped 0.1 s
ahead.  The server performs bundles in the order of their stamps and never
answers, so the worms work with the ids they have handed out themselves.

Inside the server three threads hand a bundle on: the thread of the UDP port
copies it and puts it in a queue, the audio callback moves it from there to the
scheduler and performs it when its time has come, and a third thread frees it.

What is hard: observers that come and go while a post is going on; an array
that grows while two nested loops walk it; one creation spread over a flag, a
timer and a pointer in two objects; worms that leave the controller's list, the
observers and the server at three different times; a client that is never told
that a command was lost, overtaken or refused; rings and flags two threads
share without a lock; memory that changes hands with nothing but a pointer to
say whose it is; a clock that can be set back.

## The modules

* `Timeline` has the operators on the array of sets of events.  Tick `i` of the
  code is element `i + 1`.
* `EWSequence` is one sequence with its whole interface.  Each method is one
  action, except `drift:`, whose outer loop reads slots it has written: each
  round is one step (`DriftSlot`), and nothing else happens until it is over.
  Random numbers are nondeterministic choices.  `WormSpec` restricts the calls
  to the ones `PWWorm` makes.
* `LoopTape` is the abstract promise to a worm: a tape that gets longer while
  it is recorded and rotates while it is played.  It has no position and no
  arithmetic.  `MCEWSequence` maps a sequence to the tape read from the tick
  after `pos` round to `pos`.
* `MatingScan` is the nested loop, one step per round.  Bounding boxes are left
  out: any two worms may touch.  `lastDate` is nil, less than three seconds ago
  or older, and does not get older during a scan, which is taken to last less
  than three seconds.  `herd` and `gen` are history variables for the bound on births.
* `Removal` has the removal of objects from an array, for the controller's list
  and the notification centre's observers.
* `WormField` extends `MatingScan`, `Timeline` and `Removal`.  An action is a whole touch,
  timer call or observer call; the scan inside the controller's call goes step
  by step.  `pending` is the rest of the current post.  Touches, the timer and
  Clear need `Idle`, because all of this runs on the main thread.  `Birth` is
  the whole of `offspringOf:and:`, the ticks it gives the baby included.
  `MCWormField` bounds the worms the player draws.
* `SynthServer` has the worms' commands on one side and the server's tree on
  the other.  `queue` holds the bundles in stamp order, `tree` the children of
  every group.  `Lose` and `Overtake` are the faults of the way between them.
  Nodes carry the worm and the part they play, which only the properties read.
  `lastGroupID` starts anywhere in `GroupBases`, so that a run can begin late in
  a session, when group ids meet the ids of synths.
* `FifoQueue` is a bounded queue between two threads: what waits, and what has
  been handled and takes up room until the sender reclaims it.  `MsgFifo` is
  the ring that implements it.  Storing an item and moving a head are separate
  steps of either thread, because the other may read in between.  What
  performing a message leaves in its slot is any value the receiver likes.
* `EventQueue` is a bounded set of timed events of which the earliest leaves.
  `SchedulerHeap` implements it with the code's array; one call is one step,
  for only the audio thread uses it.  The slots behind `mSize` keep what they
  had, and slot 0 of an empty heap the time the code puts there.
* `PacketPath` composes two `FifoQueue`s, an `EventQueue` and the three threads.
  A loop over a queue takes one step per message; `Look` and `FallAsleep` are
  apart because `Signal` does not take the mutex.  `AtOnce` are messages and
  bundles stamped 0 or 1.  `freed`, `lost` and `performed` are histories.
  One callback computes one buffer, and the clock may show it any time.
* `EWTicker` counts time in steps, `Unit` of which are a tick, and keeps
  `currentTick` in the same steps.  Time passes, and the clock is set back, also
  while observers run.  Rounding of `float` is left out.
* `VVThreadLoop` has one step for each access to one of the two flags.

Definitions introduced with "Mutant of ..." are deliberate errors.  No
specification uses them; each one shows that a property would notice it.

## What the runs check

| Run | Bounds | Shows |
|---|---|---|
| `sequence_api` | 2 events, 3 ticks, 6 calls | `IndexesInRange`, `DriftConserves`, `EveryEventFires` for every order of calls and ticks |
| `worm_recording` | 2 events, 4 ticks, 5 calls | a worm's sequence implements `LoopTape` (`ReplaysRecording`) |
| `mating_scan` | scans of up to 4 worms, 11 worms in all, every combination of flags and dates | `CursorsInArray`, `BirthsBounded`, `ScanEnds` |
| `field_safety` | 2 worms drawn and 1 born, sequences of 2 ticks, 1 pitch, 1 effect | the creation stays in step, no observer is called twice, cleared worms are out, Clear misses only dead worms, at most two dismantlings, no effect after clearing |
| `field_liveness` | as above without effects, all within 3 seconds of the birth | `LoopsKeepPlaying`: drawn or born in the middle of a post, a loop is ticked for ever, which also means that every post ends; dead worms are dismantled |
| `synths_reliable` | 2 worms, 5 synths, at most 3 bundles waiting when one more command is sent, ids and limits of the code | the tree is what the worms believe, only cleared worms are refused, cleared worms fall silent and are freed |
| `synths_faults` | 2 worms, 4 synths, one bundle lost, one overtaking, room for 5 nodes; group ids that stay below those of synths, or run into them | ids stay unique, worms keep to their groups; effects stay before connectors as long as group ids stay below |
| `msg_fifo` | ring of 4, 3 messages | the heads keep their order; the ring implements `FifoQueue` (`IsBoundedQueue`) |
| `scheduler_heap` | room for 5, 6 packets, 3 times | `HeapOrdered`, `NextTimeIsEarliest`, and the heap implements `EventQueue` |
| `packet_path` | 3 packets, room for 2, 2 and 1, stamps 1 to 3 | each packet has one owner, is performed once and in order, and is performed and freed in the end unless lost |
| `ticker` | ticks of 2 steps, 8 steps, the clock set back twice by 1 or 3 | `TimeAccounted`, `OnTime`, `NeverAhead` |
| `thread_loop` (violation) | one thread | `StoppedIsDone`, which `VVThreadLoop.h` promises, does not hold |

Why the bounds are enough to be interesting: three ticks are the fewest with a
first, a middle and a last slot for `drift:` and `setLength:`; four worms give
three generations in one scan, and 11 worms leave room for more births than the
6 the property allows; three worms are two drawn and one born of them, so that a
post goes on while the array it walks and the list of observers grow.  In
`field_liveness` no more than these three can be made, and the dates, which only
matter to a second birth, stand still.  Two worms suffice for one to get into the other's group.  Five nodes are the root,
two groups and two synths, so that the server does refuse.  The lengths in
`WormField` are small because what a longer sequence does is checked in
`EWSequence`.  A ring of four holds three messages, so that it is full, wraps
round and has all three heads apart; five events are a heap of three levels
with an incomplete last one, and a sixth is refused.  Three packets fill the
queue to the engine with one to spare, and two of them the scheduler and more
than the queue back.  Eight steps are up to three ticks, and two set-backs let the
same time be passed three times.  In `synths_faults` and `scheduler_heap` TLC may exchange the worms, or the packets (`SYMMETRY`);
neither has a liveness property.

Deadlock is checked for the field, the ticker, the queue, the heap and the
threads of the server.  It is not for the sequence, the scan and
the server, which stop when the bound on calls, worms or synths is used up, and
for a worm's sequence nobody calls any more.

### Fairness

* `EWSequence!Fairness`: the ticker's timer repeats for ever, and `drift:` is a
  loop the thread is in.
* `ScanFairness`: a `for` loop is not left in the middle.
* `WormField!Fairness`: the timer posts ticks and a post goes on; a player stops
  touching for 0.7 seconds at some point, so that the stop timer fires.  Strong
  fairness of a finished worm's tick off screen says that a worm which is
  ticked for ever leaves the screen some time: it crawls straight on with a
  bounded jitter and the code that wrapped it round is commented out.
* `SynthServer!FairSpec`: the audio callback goes on.  A datagram's arrival is
  part of `Perform`; loss is the separate action `Lose`.
* `PacketPath!Fairness`: the audio callback is called for ever and runs to its
  end, the non-real-time thread gets its share of the processor, and the clock
  shows the latest stamp again and again, since it goes on.  Nothing is assumed
  of the UDP thread, which may stop at any point.

Nothing is assumed of the player's touches, Clear, births or decay.

## What is proved

`EWSequence_proofs` proves for every set of events, length and number of calls

* `TypeCorrect` and `IndexesAlwaysInRange`, together as the inductive invariant
  `SeqInv`: the type alone is not inductive, because a call that writes at
  `pos` keeps a sequence a sequence only if `pos` is one of its indexes;
* `DriftAlwaysConserves`, from the same invariant and the lemma
  `DriftedConserves` about the operator;
* `RecordingAlwaysReplayed`: the sequence of a worm implements `LoopTape`, step
  by step.  The refinement needs the invariant `WormInv`, whose point is that
  `pos` is at the last tick while the sequence records; only then is a note
  written to the end of the tape.  `RoundIs` says tick by tick what the mapping
  makes of a timeline, `RoundOfRecording` that it is the timeline itself while
  recording, and `RoundTurned` that advancing `pos` turns the tape by one tick,
  also where the position wraps to 0.

`WormField_proofs` proves of the scan alone, for every number of worms,

* `ScanTypeCorrect` and `CursorsAlwaysInArray`;
* `BirthsAlwaysBounded`.  The bound n(n-1)/2 is not inductive.  The invariant
  `ScanInv` follows the scan by generations: a worm has at most one baby in its
  own turn, because a birth leaves it mating and with a recent date (`Barren`);
  the partner of a generation's first birth is barren too and its own turn is
  still to come (`SpoiledPartner`), so g worms have at most g-1 babies
  (`OneBabyEach`).  `Descending` adds up what is left, with the arithmetic in
  `Descent`.  That no worm is listed twice (`Increasing`) is needed because the
  end of a turn resets a mating flag.

Of the whole field it proves, for any number of worms and any pitches, effects and
lengths, all the invariants of `field_safety` (`FieldTypeCorrect`,
`CreationAlwaysInStep`, `SequencesAlwaysInStep`, `AlwaysCalledOnce`,
`ClearedAlwaysStayOut`, `OnlyTheDeadEverEscape`, `NeverDismantledThrice`), the
action property `NoEffectOnceCleared` (`EffectsBeforeClearing`) and that the
cursors stay in the array inside the whole field (`FieldCursorsInArray`).  The
inductive invariant `FieldInv` adds

* `OnceEach`: nobody is twice among the registered, nor among those the post
  that is on has still to call;
* `ClearedUnregistered`: a cleared worm is in neither of the two;
* `ClearedInList`: a worm that has cleared itself and is still listed was
  dismantled once and has no notes left, so that the next tick takes it out of
  the list before the scan, and only Clear can dismantle it again;
* `Unmade`: what a worm is before it is made.

Births and rounds of the scan are steps of `MatingScan`, so its lemmas are used
again.  What is left of an array after a removal is in `Removal_proofs`.

`EWTicker_proofs` proves, for every length of a tick, every set-back of the
clock and every bound, `TimeAlwaysAccounted`, `AlwaysOnTime` and
`TicksNeverAhead`.  The inductive invariant `TickerInv` adds to the properties
that advance works only with a date taken (`Dated`), that every date has been
reached by the clock and what is not counted is not negative unless the clock
was set back during a post (`DatesReached`), and the range of `currentTick`
(`Fraction`): at most a tick between calls and, once a tick was posted, more
than nothing, which is where the strict comparison of the code comes in.

`MsgFifo_proofs` proves for every size of the ring

* `HeadsStayInOrder`, inductive with the types;
* `RingIsAQueue`, the refinement of `FifoQueue`.  The refinement mapping reads
  the messages between two heads off the ring, and the lemmas say what such a
  run of slots becomes when a head moves or a slot outside it is written.  A
  message is in the queue when the write head has moved, and out of it when it
  has been performed or freed, before the head behind it moves; the other steps
  of the two threads stutter.

`SchedulerHeap_proofs` proves for every room and every bounded set of times

* `HeapAlwaysOrdered` and `NextTimeAlwaysEarliest`;
* `HeapIsAQueue`, the refinement of `EventQueue`.

The two walks along a path of the heap get one lemma each, `ClimbKeepsOrder` and
`DescentKeepsOrder`, proved by induction over the slots: on the way up times only
become earlier and everything behind the slot is untouched, on the way down times
only become later and everything before it is untouched; this is why the other
paths stay in order.  `HeapInv` adds that the first slot of an empty queue keeps
the latest time (`FirstSlot`), without which Remove could be called on an empty
queue, and that the events held are as many as the size says (`HeldOnce`),
without which taking one out could leave it in.

`PacketPath_proofs` proves for any number of packets and any room of the queues
and the scheduler, none included,

* `AlwaysOneOwner`.  `OwnerInv` says of every packet how many owners it has, also
  of those that have not arrived, and that messages handled by the non-real-time
  thread hold no packet (`ProperlyHeld`), since the audio thread forgets them.
  The proof counts places: `PlacesAppend`, `PlacesTail`, `EventsMore`,
  `EventsLess`;
* `AlwaysInOrder`.  `OrderInv` says that the queue to the engine is in the order of
  arrival and behind all that has left it (`InTurn`), and that no bundle was
  performed which has to wait for one still scheduled (`StillOwed`).

With `RingIsAQueue` and `HeapIsAQueue` this covers the path of a packet down to
the slots of the rings and the array of the scheduler: `PacketPath` uses
`FifoQueue` and `EventQueue`, and the two refinements show that the code's
structures keep those promises.

`SynthServer_proofs` proves, for any number of worms, any bounds on ids, waiting
commands, losses and overtakings, and any size of the server, all the
invariants of `synths_reliable` and `synths_faults`.  No fact about the tree is
inductive by itself: what the server performs next was decided by a client
that is not told what became of it.  The invariants therefore speak of the tree,
the commands on their way and what the client knows, all three together, and
they are stated of any such three, so that the lemmas about one step need no
primes.

* `TreeAlwaysWellFormed`, `OwnGroupAlways`, `SignalPathAlways` and
  `ServerTypeCorrect` stand whatever is lost or overtaken.  Their invariant
  `Sound` says that every command has a form in which worms send them
  (`AllFormed`), with ids that were handed out (`IdsHandedOut`), that an id
  names the same synth whoever names it (`OneName`), that no node is made twice
  (`Once`), and that the nodes of a group are its worm's (`InOwnGroup`).  As
  long as group ids stay below those of synths, a worm puts only its first
  effect before the connector (`OneBefore`), and every group is in the order of
  the signal path (`Paths`).  `SoundWithin` shows at one stroke that a loss and
  an overtaking do no harm: the invariant is closed under taking commands out
  of the queue and changing their places.  What an operation of the server does
  to the tree is put into one relation, `Changed`, and `SoundTree` shows once
  what such a change keeps.
* `VoiceAlwaysAsBelieved`, `RefusalsAlwaysRight` and `SilenceAlways` need
  reliable delivery, as the properties themselves do.  Their invariant
  `Steady` says that the commands of a worm come in the order in which it
  sends them (`Orderly`), that the group of a cleared worm is gone and not asked
  for again, or that a command to free it is on its way (`Freed`), and that
  whatever a command needs, and whatever a living worm believes it has, is in
  the tree or made by an earlier command (`Supplied`).  `RightlyRefused` adds what
  has been refused so far.  A server that has room for every node ever made
  (`Roomy`) never runs out of it, because nodes have ids of their own and ids
  are counted (`RoomLeft`); that no id is taken is `FreshId`.

Each inductive invariant was checked by TLC on the constants of the component's
run, or smaller ones, before it was proved.

The only assumptions are those the modules make of their constants:
`SequenceAssumption` (a positive length, a natural number of calls),
`MaxWormsAssumption` (a natural number of worms), `FieldAssumption` (sequences of two
ticks or more, effects that are numbers), `TickerAssumption` (a tick takes time, bounds and
set-backs are natural numbers), `FifoAssumption` (a ring of two
slots or more, a mark that is no message),
`ServerAssumption` (finitely many worms, group ids that start below those of
synths, as in `AKSCSynth`, bounds that are natural numbers),
`HeapAssumption` (room for one event at least; times are natural numbers and one is
the last, as 64-bit numbers have it) and `PathAssumption` (what packets, stamps
and rooms are).  The bounds do not occur in the code and are arbitrary in the
theorems.

The library's induction theorems take a predicate as a parameter, which the
installed provers cannot instantiate.  Where an induction is needed it is made
with a set of numbers instead (`LeastNumber` and `SetInduction` in
`Removal_proofs`), both to show that a recursive function exists and to show what
it computes.

Every invariant, action property and refinement that a passing run checks has its
theorem.  Only model-checked, not proved, are the liveness properties, since
fairness and `ENABLED` are out of the prover's reach: `EveryEventFires`, `ScanEnds`, `DeadAreDismantled`,
`LoopsKeepPlaying`, `DismantledGetFreed` and `AcceptedRunsItsCourse`.

## What the model says about the code

The properties hold, and some of them only just:

* Precedence makes `!worm1.mating || (...)` ignore the dates of a worm that is
  not mating.  Births stay bounded within one tick all the same, because a birth
  sets both the flags and the dates.
* `clearWorm` leaves the sequence registered.  Its notes go on for ever and the
  server refuses them: `ClearedStaySilent` holds because the group itself is
  freed, not only its members.
* A worm that has cleared itself is still listed, so Clear may dismantle it a
  second time; the server refuses those commands.
* One lost bundle leaves a worm with an id for an effect that does not exist,
  and its later effects are refused.  `VoiceAsBelieved` is therefore stated for
  reliable delivery; what survives a loss are the properties of `synths_faults`.
* When group ids have counted up to those of synths, a group may be refused and
  its worm's effect end up beside other groups, in the root.  Even then no worm
  gets into the group of another.
* A packet has one owner as long as there is room.  Where there is none it is
  lost without a word: `AddEvent` drops the answer of a full scheduler, and
  `FreeInNRT` that of a full queue; `/clearSched` forgets all it clears.
  `OneOwner` says that these are the only places.
* `WaitNext` forgets signals given before it, and `Signal` can come between its
  test and its sleep.  Packets are freed all the same, because the callback
  signals again after every buffer.  Nobody signals again when the driver is
  destroyed.
* The ring is right if loads are not reordered.  There is a barrier before a
  head is moved, and none between reading a head and the item behind it.
* The ticker drops the time its observers take, so the music slows down with
  the number of worms.  A clock set back makes the ticker silent until the old
  date is reached again; set back while observers run, it makes the ticker run
  ahead.

One property fails.  `VVThreadLoop.h:42` says that `stopAndWaitUntilDone`
"doesn't return until the thread's done executing and has been closed".  Between
`start` and the first lines of the new thread `running` is still `NO`, so it
returns at once, and the thread runs for ever afterwards.

## Not modelled

* `PWSplotchHandler`, `PWSplotchWorm`, `PWSplotch`: geometry, drawing and
  animation.  The list of splotches is used by the main thread alone; a splotch
  leaves it when it is hit and is released when its animation ends.
  `WormField` lets a worm eat anything at any tick.
* `SoundFood`, the application delegate and `main.m`: tables and start-up.
* Volume, busses and signal processing: arguments the server gets and the
  application never hears of again.
* The rest of VVOSC: the application opens no input port, has no address space
  and calls `OSCManager` once, for its only output.  The encoding of packets.
* TCP, asynchronous commands and the end of the server in scsynth.  `Refuses`
  leaves out an unknown synth definition, for all the names the application uses
  are in `synthdefs`, and a failed allocation.
* The rest of SuperCollider (the language, the plug-ins, the editors, the help
  and the libraries it brings along), by far the largest part of the
  repository: third-party code the application uses as it is or not at all.

## Status

The model is complete as far as the list above allows, and everything the runs
check is proved except liveness.  What could be added is outside of it: the
list of splotches, which one thread uses, and the parts of scsynth behind
asynchronous commands.
