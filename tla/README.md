# Collabo: a verification development in TLA+

Collabo (`src/Collabo/Collabo`) is an iOS text editor whose users edit one text
together. Each client applies its own user's edits at once, broadcasts them
through the Collabrify service, receives every event (its own included) in the
order the service chose, and repairs its text when another user's event turns
out to have come first. Undo and redo are edits like any other and are broadcast
too.

This directory holds TLA+ modules of that program, TLC configurations, and
theorems checked by TLAPS. `PROJECT.json` ties every definition to the source
lines it stands for, lists the runs, the mutations each property is tried
against, the hazards of the code and the findings.

## Inventory

Paths are relative to `src/Collabo/Collabo`; *pb* stands for
`src/Collabo/Google Protocol Buffers/google/protobuf`, the copy of Protocol Buffers
2.5.0 the program is built with, which is most of the code.

| Part | State | Operations | Interacts with |
|---|---|---|---|
| **Edit events** (`textevent.pb`, `EventMessage.mm`, `applyEvent:`, `reverseEvent:`, the offset loop of `undo:`/`redo:`) | none: one message = user, type, two locations, length, text | make, apply, reverse, relocate past later events | the editor |
| **Editor** (`ViewController.mm`) | text and selection, the burst being typed and its timer, `globalStack`, undo and redo stacks of order ids, one trigger each, `latest_orderID`, button states, blocks dispatched to the main queue | text-view delegate, `broadcastEvent:`, receive handler, blocks, `undo:`, `redo:` | UIKit on the main thread, the service's callback thread |
| **Collabrify service** (binary framework) | sessions, a total order of events in each, what is pending, how far each participant has been served | create, list, join, leave, `broadcast:eventType:`, `receivedEventWithOrderID:` | every client |
| **Session entry and exit** (`MainMenu.mm`, `SessionViewController.mm`, `exitSession:`) | a navigation stack of screens, one client object per menu and its delegate, requests not yet answered | create, list, join, leave, completion handlers, segues | editor, service |
| **Event codec** (`dataForEvent:`, `parseDelimitedEventFromData:`) | a reader's buffer and limits | length-delimited encoding | editor, generated class, coded streams |
| **Generated classes** (`textevent.cpp`, *pb*`/descriptor.pb.cc`: 21 classes) | has bits, members, unknown fields, extensions, cached size | accessors, parse, two writers, `ByteSize`, merge, copy, swap, clear | wire format, repeated fields, extension sets |
| **Wire format and reflection** (*pb*`/wire_format.cc`, `reflection_ops.cc`, `generated_message_reflection.cc`, ...) | none of its own | the same operations from a descriptor alone | generated classes |
| **Coded and zero-copy streams** (*pb*`/io`) | buffer, counters, a stack of limits | read and write bytes, varints, tags; push and pop limits; give back | codec, generated classes |
| **Repeated fields, extension sets** (*pb*`/repeated_field.h`, `extension_set.cc`) | arrays, objects kept for reuse, ownership | add, remove, release, swap, merge, parse, write | generated classes |
| **Lazy initialization** (*pb*`/stubs/once.cc`, `common.cc`, `message.cc`, `descriptor.cc`) | once objects, mutexes, the generated database, pool and factory, the shutdown list | static initialization, first use, shutdown | every thread |
| **Descriptor building** (*pb*`/descriptor.cc`, `descriptor_database.cc`) | symbol, file and extension tables, checkpoints, pending and bad files, the database's index | add a file, build it, roll back, look up | lazy initialization |
| Text format, dynamic messages, tokenizer, printer, string utilities; application shell | | | |

What is hard here:

* **Two threads, no lock.** The receive handler runs on the service's thread and
  shares `globalStack`, both stacks, the triggers, the buttons and
  `latest_orderID` with the main thread. The handler changes the history at once
  but only queues the matching changes of the text.
* **Optimistic history.** A client appends its events to `globalStack` before the
  service has numbered them, and later indexes the array with the service's number.
* **Conflicts.** When another user's event has taken a place, the handler reverses
  and removes everything from there on.
* **Undo after others' edits.** An id on a stack is an index into the history; the
  event found there is shifted past everything that follows it.
* **Late locations and one flag for many messages.** A burst is located when the
  timer fires; a trigger tells the handler what the next own echo is, though several
  may be under way.
* **Late answers.** A completion handler pushes its screen over whatever the user
  has come to; the events of a session arrive before the editor is loaded; leaving
  does not wait, and the burst timer of the editor left still fires.
* **Chunks and limits.** A reader or writer holds a piece of its stream, cut at the
  closest of two limits, and gives back exactly what it did not use.
* **Code written out many times.** Each class is spelled out in seven functions and
  in tables, and the writer trusts sizes an earlier call cached.
* **Ownership by pointer.** Cleared objects are kept for reuse, released to the
  caller, adopted, swapped.
* **Locks that nest.** Building one lazy object asks for another, under once objects
  and two mutexes.
* **Building that nests.** Linking one file may build another that points into it;
  when the outer one fails both must go.

What makes each part correct is what the properties below say. The full list of
hazards, with lines, is under `hazards` in `PROJECT.json`.

## Modules

| Module | What it models |
|---|---|
| `TextEvents` | pure operators on texts (sequences of characters) and events: `ApplyEvent`, `InText` (when `NSString` does not raise), `ReverseEvent`, `ShiftPast` |
| `EditHistory` | a small machine over `TextEvents`: any edit anywhere, used to examine the offset rule by itself |
| `Collabrify` | the service within one session, external: `log`, `outbox`, `delivered`; `Broadcast`, `Order`, `Deliver` |
| `ViewController` | the editor, one instance per client, composed with `Collabrify`: 23 actions, `Spec`, `TypeOK` |
| `SharedText` | abstract: one growing log, each screen the text of a prefix of it; what watching clients implement |
| `EditingSession` | schedules (`SerialSpec`, `PoliteSpec`), fairness and the properties of the editor |
| `Session` | session entry and exit: navigation stack, client objects, delegates, requests and answers, with the service's sessions |
| `EventCodec` | `dataForEvent:` and `parseDelimitedEventFromData:` with the reader's limit arithmetic; uses `GeneratedMessage` |
| `WireData` | encoded data as a sequence of atoms |
| `ClassTables`, `EventClass`, `DescriptorClasses`, `OptionClasses` | the 21 generated classes, each function of each class as a table of its own, read off that function |
| `GeneratedMessage` | what the tables mean, and what reflection does from the descriptor alone |
| `MessageObjects` | two objects of a class under any calls of the public interface |
| `CodedInput` / `LimitedReader` | `CodedInputStream` over chunks / the flat reader it promises |
| `InputStreams` / `ByteStream` | array, copying, limiting and concatenating streams, stacked / what a `ZeroCopyInputStream` promises |
| `OutputStreams` | `CodedOutputStream` over the array, string and copying streams |
| `RepeatedPtrField`, `RepeatedField` / `ElementSequences` | the repeated fields / sequences of values |
| `ExtensionSet` / `ExtensionValues` | extension sets with entries, objects and cached sizes / the values per number |
| `OnceInit` | one once object and the threads that need it |
| `LazyInit` | static initialization, lazy descriptors, prototypes, shutdown; every once object in it refines `OnceInit` |
| `DescriptorIndex`, `DescriptorPool` | the database's index; the pool: building, linking, checkpoints, rollback, lookups |
| `MC...`, `ProtoFiles` | instances for TLC |
| `OnceInitProofs` | theorems about `OnceInit` |
| `CodedInputProofs` | the counters of `CodedInput`; the refinement of `LimitedReader` |
| `RepeatedPtrFieldProofs` | who owns the objects of repeated fields; the refinement of `ElementSequences` |
| `LazyInitProofs` | theorems about the start of the runtime; each once object refines `OnceInit` |
| `EditingSessionProofs` | theorems about `TextEvents`, and about the editor for any number of users who type at once |
| `WatchingProofs` | ... for one writer and any number of watchers; the refinement of `SharedText` |
| `PoliteProofs` | ... for users who take turns |
| `SessionProofs` | theorems about session entry and exit |

A slash separates an implementation from its abstract specification; the run checks
the refinement.

### How the editor's state and actions follow the code

Variables keep the names of the instance variables. `currentEventType` is the
type in `currentEvent`; `eventDelay` says whether a timer is armed; `mainQueue`
is what `dispatch_async` has queued; `pc`, `count` and `tempStack` are the
receive handler's program counter and locals; `reversal` is an `undo:` or `redo:`
half-way through its offset loop; `alive` turns false when an exception is raised
or nil is dereferenced; `used` counts inputs.

* **Atomicity.** A main-thread method is one action: other main-thread work cannot
  overlap it, and apart from the offset loop it touches what the handler touches in
  a single append and a single increment. `undo:` and `redo:` are a start
  (`Undo`, `Redo`), one `ShiftReversal` per turn of the loop, and `FinishReversal`,
  because the loop reads `globalStack` element by element with a length read
  before it. The handler is one action per access to shared state. Calls on one
  `NSMutableArray` are taken to be atomic; a torn array is not modelled.
* **Lost update.** `latest_orderID++` on the main thread is a read and a write, so
  during a handler it may write back the value from before line 271:
  `stale_orderID` and the choice in `IncrementOrderID`.
* **Lazy blocks.** The blocks of line 313 look up `[tempStack lastObject]` when they
  run; `RunBlock` does so, and finds nil if the handler has already removed it.
* **`shouldChangeTextInRange:`** with UIKit's change: `TypeText` (also pasting,
  of which only the first character is recorded), `DeleteText`, `RefuseBackspace`
  and `DeleteRaises`. A range longer than one is refused before anything changes.
* **Failed broadcasts.** The result -1 is ignored by the code; `BroadcastOutcomes`
  says whether it can happen.

Left out: alerts, logging, layout; `myEvents`, `cursorStart`, `orderID` and
`submissionID`, which are written and never read; `CURSORMOVE`, `UNDO` and `REDO`
events, which only commented-out code creates.

### How the other modules follow the code

* **`Session`**: one action per button, per answer of the service, per completion
  handler, per callback, and for `viewDidLoad`. What an editor does with an event is
  `ViewController`'s; here its history is the set of events it holds. `raised`
  records that the program stopped.
* **Generated classes**: the has-bit a setter uses, the order of writing, the wire
  type a parser accepts, are each taken from the function that holds them, so a
  table that differs from another is a difference in the code. `GeneratedMessage`
  interprets the tables; reflection reads the descriptor's table only.
* **Streams**: a stream is a value (`InputStreams`) whose calls answer with the new
  stream, or a machine with one action per call (`CodedInput`, `OutputStreams`);
  a read across chunks takes a step per chunk. Integers saturate or overflow at
  `IntMax` as in the code, with a small `IntMax` and a small varint base.
* **Containers**: objects have identities, `live` says what each holds and whether it
  exists, `held` what the caller owns.
* **`LazyInit`**: a thread is the sequence of steps it still has to do; a call is
  replaced by the steps of its body, a lock and an unlock are steps.
* **`DescriptorPool`**: a call holds the pool's mutex from start to end and is one
  step; the nesting of building within it is recursion, and the checks and rollbacks
  happen in the order of `BuildFile`. A symbol is the sequence of its parts.

### Assumptions about what is not in the repository

The service orders all events totally, keeps each participant's own order, numbers
from 0 (the code indexes an empty array with the number), and hands each participant
every event once, in order, one callback at a time. A client object is in one session
at a time; ending a session is the owner's. Setting the text of the view puts the
caret at its end. An exception ends the program. A file read may be short or fail for
good; a file write may fail.

## Schedules and fairness

* `Spec`: everything interleaves.
* `SerialSpec`: a receive handler does not overlap main-thread work of its client.
  Users still type at the same time; only thread races are absent.
* `PoliteSpec` (`PoliteSafety` without fairness): moreover a user acts only when
  nothing is under way and no one else has an unsent burst, and leaves caret, undo
  and redo alone until the own burst was sent. This is the use for which agreement
  can be expected: two users typing at once already break it (see Findings).
* `PatientNext` (`Session`): users who do nothing while an answer is outstanding,
  other than to a request to leave.

Fairness is weak fairness of what the platform runs by itself, and nothing is assumed
of users. In the editor (`Fairness`): the armed timer, the main queue, a method that
has begun, callbacks for ordered events, the steps of a running handler, and the
service's ordering of what a live client sent. The timer's fairness means that a user
pauses at some point; since inputs are bounded this always happens in the model. In
session entry: the service answers, completion handlers and segues run, events are
handed over. In `LazyInit`: every thread that can run does; it spins with `SchedYield`
or waits for a mutex only while another thread works.

## Runs

Components that share no state are checked in one run: the first state chooses a
component, and only that one moves. What such a run extends (`Session` both,
`RepeatedPtrField` and `CodedInput` the one, `LazyInit` the other) rests in its first state when it is not
chosen, so its properties are checked as they are; those of the others are stated
under the condition that the component was chosen.

| Run | Shows | Bounds |
|---|---|---|
| `duo_races` | `TypeOK`, `SettledHistoryKept` with conflicts, thread races and failing broadcasts | 1 key + 1 undo against 1 key + 1 move or selection |
| `watching` | `SoloHistories`: a lone writer's history is the log plus what is under way; `WatchersShareText`: a watcher refines `SharedText`, and catches up | writer: 2 keys, 1 undo, 1 redo |
| `polite` | `ClientsAgree`, `UndoFeedsRedo`, `StackIdsOwn`; under fairness `BurstIsSent`, `Converges` | 2 keys, 1 undo, 1 redo; 1 key, 1 undo; two characters |
| `careful` | one user, all interleavings, or two users typing at once without thread races: `TriggerAwaitsEcho`, `ButtonsFollowStacks`, `OwnEchoNeverConflicts`, `StepsNeverInvented` | alone: 2 keys or pastes, 1 move or selection, 2 undos, 1 redo; together: 2 keys + 1 undo against 1 key |
| `components` | session entry, the offset rule, coded input, codec, repeated fields, extension sets, output and input streams, descriptor pool | below |
| `fair_components` | the 21 classes: `RoundTrip`, `ConcatenationMerges`, `ReflectionAgrees`; start-up: `PointersAreSet`, `EverythingOnce`, `EveryCallReturns`, `ObjectsAreOnce`; session entry with users who wait: `OneEditorPerClient`, `BurstsReachTheirSession`, `JoinOpensEditor` | below |
| `conflict_loses_event`, `quick_undo`, `undone_twice`, `empty_list`, `failed_write`, `nested_symbols` | the findings below | |

A key may be a character, a paste or a backspace, so a budget of two keys covers
typing, deleting, a flush by a key of the other kind, and two separate bursts. A
conflict needs one event of each of two users; the popping loop turns twice with two
events in flight (`careful`, `conflict_loses_event`); a second trigger needs two
undos.

One branch lies beyond these bounds: the exception of the offset loop when the handler
has shortened the history under it (`ShiftReversal`) takes two keys, an undo and a key
of another user with all threads interleaving, more states than a run can visit. The
theorems, which are for every budget, include it.

Bounds of `components`:

* *Session entry*: two devices with two menus each, so that one client object is left
  and another made; one and two requests (list and join); two events in a session, so that
  an editor opens between them. Impatient users: `ScreensFit`, which is the module's
  `TypeOK` with `VisibleEditorIsMember`, and `MissesOnlyTheStart`.
* *Offset rule*: `UndoFindsItsPlace` over histories of 5 events of 1-2 characters;
  every relative position of two stretches occurs with 3.
* *Coded input*: seven bytes in chunks of up to 4, int limit 6, varints of 2 bytes, two
  nested limits, so that totals overflow, limits close inside a chunk and reads cross
  chunks; and three bytes, so that the data ends before the total limit: `Accounting`, and
  the refinement `ReadsTheData`.
* *Codec*: two frames, locations -1 and 300, texts that need one and two length bytes:
  `EventsArrive`.
* *Containers*: two fields, three objects, arrays of three, allocation from two, so that
  growing, sliding and swapping happen: `OwnedOnce`, `PointersAreSequence`,
  `NumbersAreSequence`; two extension sets, four numbers of different types, three
  calls: `EntriesOwnOnce`, `WritesItself`, `HoldsValues`.
* *Streams*: buffers of up to 4 bytes, a message and a varint across a seam, writers one
  after another: `EverythingArrives`, `BackUpIsTaken`; every stack of array, copying,
  limiting and concatenating streams over three to eight bytes: `IsByteStream`.
* *Descriptor pool*: seven files with a public import, a name that another file shadows,
  a missing import, a cycle, a second file of the same name, and an import nobody
  declared, which makes one file build another; one failed file at most is asked for
  again: `AllOrNothing`, `DescriptorsStay`.

Bounds of `fair_components`: every class empty and with every field set, two calls for
the smallest classes and one for the others, recursion limit 3; two threads with one
call each; session entry as above with patient users and one event.

Deadlock is not checked: an editor at rest, a finished caller and a program with its
inputs spent may stop. That nobody waits for ever is `EveryCallReturns`, `Converges`
and `JoinOpensEditor`.

Every passing property is tried against a plausible slip in the code (an operator
introduced as *slip* in the modules) and is violated by it.

What the properties do not claim, learnt from the runs: with thread races
`StackIdsOwn` fails (line 271 against 396); after a conflict an id may name another
user's event, and undoing it lets an own echo meet a foreign event, which is why
`OwnEchoNeverConflicts` is about sessions in which nobody undid; a user undoing a
text that another user has since deleted may crash, which is why `Converges` speaks
of sessions without a crash. With impatient users a client object may get two editors.
A concatenation of streams reads on behind one that failed, and the abstract stream
allows that loss. An extension number used by two files of one message is not
noticed: the second file is built, and its extension is not found by number.

## Findings

* **`conflict_loses_event`** A popped own event is never put back in its author's
  history or on the author's screen (line 289 says "pop off event, reapply").
* **`quick_undo`** Undo pressed again before the first echo: both undos share one
  trigger, and the second echo is filed as an undoable step.
* **`undone_twice`** Type, delete, undo, undo: the second undo is placed at -1, is
  broadcast, and then raises on this client.
* **`empty_list`** A list of no sessions is shown by reading its first entry.
* **`failed_write`** After a failed write the copying output adaptor hands out buffers
  again, although errors of a stream are promised to be permanent.
* **`nested_symbols`** The index of the descriptor database accepts a symbol that is a
  prefix of its first one, against its stated invariant: the neighbour is looked for
  one place too far.

## Theorems

Each theorem is for every value of the constants: any set of clients, alphabet,
replacements and budgets in the editor, any number of devices, menus, requests and
events in session entry. What is assumed of them is `ViewController`'s assumptions
(writers are clients, a replacement is a non-empty text, bounds are natural numbers, a
broadcast is accepted or is not), `SessionAssumption` (a device has at least one menu,
bounds are natural numbers), `PtrAssumption` (finitely many objects, `Empty` one of
their values and `Freed` none, a first allocation of at least one slot),
`InputAssumption` (the data are bytes, a chunk, a varint and the int limit have at least
one place, the default total limit is an int), `LazyAssumption` (`Main` is a thread; finitely many files, the options file among them,
none with the name of a singleton; `MaxCalls` a natural number), and the hypotheses
named with a theorem.

### The editor, whatever its users do

* `TypeCorrect`: `Spec => []TypeOK`. `TypeOK` is inductive as it stands because it
  includes `SelectionFits` and `HandlerFits`: the selection lies in the text, a
  working handler has an event in the log, the popping loop's `count` exceeds the
  order id and does not exceed the history. The last holds under interleaving only
  because the main thread never shortens the history (`HandlerFitsKept`). One lemma
  per action.
* `HistoryKept`: `Spec => SettledHistoryKept`. A step leaves a history as it is,
  appends one event, or, in the popping loop, takes off the last
  (`HistorySteps`); `HandlerFits` says that last one lies beyond the settled part.
* `ButtonsFollow`: `Spec => []ButtonsFollowStacks`, by an invariant that is the
  property itself: the handler leaves "idle" before it pushes an id, and sets both
  buttons before it is idle again.
* `StepsAreEarned`: `Spec => []StepsNeverInvented`. A press takes an id off one stack
  at once, so ids and presses together (`StepsOK`) grow only where the handler pushes,
  which it does once for each own event it has recorded (`EchoOwn`).
* `WatchersShareLog`: `Spec => Shared!Spec`, the safety part of the refinement. A
  watcher's history is a prefix of the log, and each block on its main queue applies
  the event that comes next on its screen (`WatcherOK`). Running a block maps to a step
  of `SharedText`, every other step of any client to a stutter.

### The editor, handlers not overlapping main-thread work

* `StackIdsAreOwn`: `SerialSpec => []StackIdsOwn`. The property is not inductive:
  the id pushed is `latest_orderID`, not the event's number. `StackInv` adds
  that a working handler finds in `latest_orderID` the number it received
  (`Numbered`) and that only own echoes reach the branches that push (`EchoOwn`).
* `OwnEchoFindsItsPlace`: `SerialSpec => []OwnEchoNeverConflicts`. `PlaceInv`: as long
  as a user has undone nothing, a foreign event never stands later in that user's
  history than in the log (`ForeignInPlace`), the popping loop is entered for foreign
  events only and takes off what was there when it began.

### The editor with one writer (`OneWriter`: at most one, broadcasts accepted)

* `SoloTyping`: `Spec => []SoloHistories`, every interleaving included. `SoloInv`: the
  writer's handler stays in the branches for an own event in its place, so its history
  is the log followed by its outbox; watchers have nothing to send and are as in
  `WatchInv`.
* `SoloTriggers`: `Spec => []TriggerAwaitsEcho`. `EchoInv` counts: triggers set are no
  more than own events not yet recorded, and one less where the handler has decided that
  its event was typed.

Without `Accepted` both fail: the code appends to its history, and sets a trigger, also
when the broadcast was refused.

### The editor with users who take turns (`Accepted`)

* `PoliteUndo`: `PoliteSafety => []UndoFeedsRedo`. `PoliteInv`: one client drives, in
  the sense of `EchoInv`'s writer, and the others wait with nothing half done; what a
  client has yet to record was written by the driver (`Receives`); and undos not redone
  are the ids on the redo stack and the undos under way (`RedoFed`). When nothing is
  under way anyone may become the driver.
* `PoliteAgreement`: `PoliteSafety => []ClientsAgree`, for users who select nothing and
  type one character at a time (`PlainUse`, as in the run `polite`). For a paste or a
  selection that is erased the code sends something other than it shows
  (`ViewController.mm` 236, 255), and screens do part. `PlainInv` adds that the driver's
  screen is its history with the burst applied (`DriverShows`), and a waiting one the
  events of the log it has applied (`WaiterShows`). It needs what a fold computes:
  `Replay` is defined by a `CHOOSE`n function, that one exists for every history is
  shown by a least counterexample (`LeastNumber`), and `ReplayNext` unfolds it; and that
  another key joins a burst as if it had been typed in it (`TypedBurst`,
  `ErasedBurst`).

### Session entry and exit

* `EntryFits`: `Spec => []ScreensFit`, that is `TypeOK` and `VisibleEditorIsMember`, for
  users who do not wait for answers. The inductive invariant `SessionInv` says that nobody is handed more than was logged
  (`Served`), requests and lists name sessions that exist (`Known`), the delegate is an
  editor exactly when the stack holds one and only the top may still be loading
  (`Shape`), and that a client's place in a session is claimed once (`OneClaim`): by an
  answered request to enter, by an editor that is on the screen or comes back to it, or
  by a request to leave. Without the last, a leave and a late answer could leave an
  editor of no session on the screen.
* `NoGaps`: `Spec => []MissesOnlyTheStart`. `HearingInv`: the newest editor of a client
  begins with nothing and misses no event of the others after the first it got.
* `OneEditor`: `PatientSafety => []OneEditorPerClient`, and `BurstsArrive`:
  `PatientSafety => []BurstsReachTheirSession`. `PatientInv`: a screen above an editor
  belongs to a later client (`Later`), which needs that a patient user has one wish at a
  time, made from the screen on top (`OneWish`), and that clients are no more than menus
  (`Counted`); a burst was typed in the session its client is in, if in any
  (`OwnBursts`), and every log holds what was typed in it (`OwnLogs`).

### Repeated fields

* `EveryObjectIsOwnedOnce`: `PtrSpec => []OwnedOnce`. The invariant `Kept` is about
  fields, objects and the caller's objects together: the slots of a field are distinct
  and within what it has allocated (`Sound`), no two fields share an object or own one
  of the caller's, an object exists exactly if a field or the caller owns it, and what a
  field keeps for reuse is empty. `OwnedOnce` alone says nothing about the type of the
  arrays, which every step needs. What a call does to one array (put, exchange, close
  a gap, slide) are lemmas about sequences; what it does to owners is set arithmetic.
* `FieldsAreSequences`: `PtrSpec => PointersAreSequence`, the refinement of
  `ElementSequences`, step by step. Here `Kept` is what makes it true: an object of one
  field changes without changing another's values only because no two share it, and an
  object taken for reuse reads as a new one only because it was cleared.

### Coded input

Any data, cut into chunks in any way, any limits, and any sequence of calls. A read that
crosses chunks takes a step per chunk or byte, so the invariant `CodedInv` speaks of the
middle of a read too.

* `CountersAreRight`: `CodedSpec => []Accounting`. `Counted` strengthens the property in
  two places. Bytes that were all set aside keep their place (`buffer` is right when
  `size` is 0 but `buffer_size_after_limit` is not), because lifting a limit brings them
  back; and the unused bytes are no more than was read, so that the current position is
  never negative. `Stacked` says that limits are nested (what `PopLimit` brings back is
  no narrower than what it replaces), without which popping could leave the reader behind
  the limit. The calls share four facts: what using up, refilling, failing to refill and
  recomputing the limits do to the counters (`Advanced`, `Refreshed`, `NothingMore`,
  `Recomputed`).
* `ReaderIsFlat`: `CodedSpec => ReadsTheData`, the refinement of `LimitedReader`. The
  bytes a read under way has collected are the part of the data before the place of the
  counters (`Underway`), and each of a varint's announces another, so the step that ends
  the read is the one step of the flat reader and the ones before it are stutters. How
  long the varint in the array is (`VarintLength`, a `CHOOSE`) needs a least number.

### Start-up

Any threads, any generated files, static initializers in any order, any number of
calls. The state of a thread is the list of steps it still has to do, and a call is
replaced by the steps of its body, so the invariant `LazyInv` has three layers.

* *One thread* (`Orderly`): a step that follows a pointer comes after one that sets it
  (`Met`); only the first step can be a swap or a spin (`Fresh`); a closure asks only
  for once objects of a lower level (`Nested`), which is why no thread waits
  for a closure it is itself executing; what a closure makes it also lists for shutdown,
  once, before it is done (`Within`, `Single`); a table is touched right after its mutex
  was taken (`Guarded`), and types are registered before the factory's is let go
  (`Registers`). That replacing a step by its body keeps this is shown once for any
  sequence (the `Splice` lemmas) and then body by body (`Replaces`).
* *Across threads*: an executing closure belongs to one thread, and what is done is made
  (`Objects`); a mutex is one thread's (`Exclusive`); tables hold nothing twice, and who
  is about to add a type finds it missing (`Unique`, `NewTypes`); the pool and the
  factory are listed by their own closures (`Noted`).
* *Phases*: before `main` there is one thread, and what a table lacks is still to be added
  by it (`Starting`); afterwards nothing is added by static initializers (`Started`); at
  the end nothing is made (`Finished`).

From it follow

* `NothingIsReadEarly`: `StartSpec => []PointersAreSet`;
* `TablesHoldOnce`: `StartSpec => []EverythingOnce`;
* `EachObjectIsOnce`: `StartSpec => ObjectsAreOnce`: every step of the start-up is, for
  each once object, a step of `OnceInit` or a stutter, although closures nest and are run
  under mutexes. So `ClosureRunsOnce` and `CallersFindItDone` hold of every one of them.

### Others

* `ReverseRestores`: applying an event and then its reversal gives the text back, if
  the event names the text it removes.
* `ClosureRunsOnce`, `CallersFindItDone`: for any set of threads, the closure of a once
  object runs at most once, and no caller returns before it has ended. The invariant
  ties the places of the threads to the state of the object.

Only model-checked: the liveness properties (the provers have no rule for fairness
here, so `WatchersShareText` beyond `WatchersShareLog`, `Converges`, `BurstIsSent`,
`JoinOpensEditor` and `EveryCallReturns` stay with TLC); the offset rule over whole
histories, which `EditHistory` computes by recursion; the generated classes and the
codec, whose encodings are recursive; and the properties of the output streams and
of stacked input streams, of `RepeatedField` and the extension sets, and of the
descriptor pool.

## Not modelled

* Text format, dynamic messages, gzip streams, tokenizer, printer and string utilities
  of Protocol Buffers: the program never calls them. The application shell has no
  state.
* Base files, pausing and participant notifications of the service: not used by the
  program.
* Editor: alerts, logging, layout. The inputs are bounded by budgets.
* Wire data is a sequence of atoms, not bytes: a raw value never happens to parse as a
  message, a group ends with its own number, values stay below 2^21. After a failed
  parse the object is not looked at.
* Message sets, lazily parsed extensions, `FindInitializationErrors`, the string
  variants of accessors. Extensions have one numeric type. `MergeFrom` of a field with
  itself is the caller's error.
* Streams: files that can seek (there `Skip` past the end reports success),
  `ExpectAtEnd` at the total limit, which takes a place for the end that `ReadTag` does
  not, the iostream adaptors.
* Descriptor pools over an underlay, unknown dependencies, enums, services, nested
  types, default values, and the interpretation and validation of options. A file that
  fails while another is pending stays known as bad; the runs ask for one such file.

## Plan

1. Done: the editor, its schedules and its first theorems; session entry, codec,
   generated classes, streams, containers, lazy initialization, descriptor building.
2. Done: theorems for every safety property of the editor and of session entry that a
   passing run checks, except the offset rule; for those of `RepeatedPtrField`,
   `CodedInput` and `LazyInit`, each with its refinement.
3. Proofs next: the ownership of the entries of an `ExtensionSet` (`EntriesOwnOnce`),
   along the lines of `Kept`.
4. Then: nested types and enums in `DescriptorPool`, and the interpretation of options.
