# TLA+ models and proofs for Hyperion

Hyperion drives LED installations.  A program built on the library renders or
receives frames of pixel data and sends them through *chains* to LEDs, DMX or
network nodes; a *control hub* holds what the performer controls, from web
pages, MIDI surfaces, a step sequencer and a shared tempo.  This directory
models the parts that keep state and can get out of step with each other,
checks them with TLC and proves central results with TLAPS.

Paths below are relative to `src/library/`; `…/` repeats the directory above.

## 1. Inventory

| component | state | operations | hard part | what makes it correct |
|---|---|---|---|---|
| **Control hub** `core/generation/controlHub/controlHub.hpp` | columns of slots (flag byte, flash, releaseColumn), dimmers, parameter sets, registered inputs, subscribers | buttonPressed/Released, setSlotActive, dim, setMasterDim, set*Param*, preview masks, (un)subscribe, sendCurrentStatus, set-up calls | several reasons keep one slot on; a press changes other slots; callbacks from inside operations; no locks | surfaces show what the hub holds; radio columns; forced selection |
| **Sequencer** `…/sequencer.hpp` | sequences (slot, enabled, 64 steps), step number | OnBeat, websocket messages, full status on connect | edits against beats; two sequences; pages that come and go | SEQUENCE flag = enabled and active at the step; pages show the sequences |
| **Palette column** `…/paletteColumn.hpp` | the palette of a parameter set | hub callback | reads the hub in mid-operation | palette belongs to a live slot; last one wins |
| **Controllers** `core/generation/controllers/` | modes, LEDs, what a page shows | MIDI and websocket messages to the hub | modes toggled while buttons are held; reconnects | releases match presses; lamps and pages tell the truth |
| **MIDI devices** `…/midiBridge.hpp`, `core/hyperion.hpp`, `platform/unix_common/midi-unix.hpp`, `platform/esp32/midi*-esp.hpp` | devices, controllers and clocks per device | poll, connect, disconnect, created/destroyed callbacks, bytes on a serial port | destruction order, reused addresses, threads, lost bytes | everything created is destroyed once and nobody keeps a pointer to it |
| **Tempo** `core/generation/patterns/helpers/tempo/` | sources, phrase offset, listeners; per source its count | beats of players, taps and MIDI clocks; alignment; add/remove source | which source is active; handoffs between players; threads; remainders of negatives | listeners hear the active source; offset keeps bars |
| **Timelines and fades** `…/timeline.h`, `fade.h`, `transition.h`, `triggerFade.h` | start times, last interval | FrameStart, Happened, reset, SetDuration; Calculate, isActive | unsigned and signed differences of a clock that wraps; resets between frames | no moment skipped or twice; what is over is dark |
| **Chains and run loop** `core/distribution/chain.hpp`, `core/hyperion.hpp` | list of chains | ready, process, one turn per round | back-pressure through ready() | every ready chain gets its turn |
| **Slicer, Combine, RepeatFallback, Switch, Fallback** `core/distribution/routing/` | shared buffers, ready/dirty/active flags, timers | ready, process, setReceiver | slow, hanging and silent neighbours; resizes | frames are delivered whole, in order, to whom they are for |
| **Network, DMX, LED links** `core/distribution/{inputs,outputs,processors}`, `platform/` | buffers of outputs, drivers and tasks | process/ready/write/show, interrupts, UART events | a task or the hardware reads what the loop writes; errors, losses, late interrupts | what arrives is what was sent; every link gets ready again |
| **Web server, host names** `platform/unix_common/webServer-unix.hpp`, `core/distribution/utils/hostnameCache.hpp` | sessions, clients, response queue; cache entry | connect, receive, broadcast, destroy; lookup, resolve | io thread against broadcasting threads; late and failed answers | nobody is forgotten or written to when freed; names are asked when due |
| **Splitter, analytics, monitors, input rendering, colours, pixel maps, examples, vendored code** | – | – | – | see section 8 |

How they interact.  Controllers, the sequencer and pages call the hub; the hub
calls back every subscriber from inside the operation (a `PaletteColumn` reads
the hub again there).  `Tempo::BroadcastBeat` calls `Sequencer::OnBeat`, which
calls `setSlotActive`.  MIDI devices appear and go by callbacks, on which
`Hyperion` builds and destroys controllers (subscribers of the hub) and clocks
(tempo sources).  Chains connect inputs to routing elements and these to
outputs, whose drivers end in tasks, threads, DMA or interrupts.  Threads: the
run loop (all chains), the tempo task, the MIDI thread, the io thread of the web
server, one resolver per look-up, the tasks of drivers.  The core takes no
locks; the websocket path, the DMX port and some drivers do.

Everything in this code that is hard to test is listed, at its line, under
`hazards` in `PROJECT.json`, with the properties that look for it.

## 2. Modules

| module | models | state ↔ code |
|---|---|---|
| `ControlHub` | the hub, one action per public operation, operations atomic | `activated[c][s]` is the flag byte as a set; `nColumns`, `nSlots`, `flash`, `releaseColumn`, `forced` the layout; `seen…[k]` is what subscriber `k` was told last by each callback, `Unknown` before the first |
| `Sequencer` (extends `ControlHub`) | OnBeat and every websocket message | `sequences` by index, `rows[p]` what page `p` shows (`sequencer.js:14-45`) |
| `PaletteColumn` (extends `ControlHub`) | the callback, played slot by slot inside the hub operation | `palette` is `Params::palette`, as the slot it belongs to |
| `ApcMini` (extends `ControlHub`) | the surface with its window and flash mode, beside a page and the sequencer | `columnOffset`, `flashMode`; the lamps of the grid are `seenSlot[apc]`, those of the mode keys `offsetLamp`, `flashLamp` |
| **`Controllers`** | one of the next five | `edge` says which |
| `HubThreads` | presses, releases, sets and dims on one column, every read, store and callback a step of the calling thread | `op[t]` is the operation thread `t` is in with the values it read; `held[t]` its buttons that are down; `lamp`, `fader` what the controller shows |
| `NativeMidi` (extends `DeviceOwners`) | polling of the host's ports against the registration of callbacks | what a callback built per address: a controller, a clock, and who points to them |
| `MidiPorts` | the pairing of input and output ports | ports are indices, names what each list says of them |
| `MidiBridge` (extends `DeviceOwners`) | toolbar button, bridges, their connections, the server's devices | one record per bridge for the page, one for the connection and the server |
| `ControllerPage` | controller pages that reconnect, a server that is built anew | what a page shows per slot, messages on their way, the hub |
| **`Routing`** (extends `Slicer`) | one of the next four | `element` says which |
| `FrameDelivery` | abstract: what fanning frames out promises | – |
| `Slicer` | a source chain, the slicer, a chain per slice, the run loop | frames are numbered as loaded; `frameReady` of each `BufferInput`, `turn` the position of the loop |
| `Combine` | parts and glued buffer | `region[p]` the number of the frame of part `p` in its place, 0 for zeros; `used`, `resized` record the last emission |
| `RepeatFallback` | sink, source, both chains, the loop and its sleep | `age` is `millis() - lastFrameTime`, in rounds |
| `Switch` | receivers chosen by a function, by calls or by `Fallback` | `active`, `dirty`, `from` (whose frame is in the buffer), `age` per input |
| **`Timing`** (extends `Tempo`) | one of the next four | `part` says which |
| `Tempo` | sources, active source, broadcast in three reads, phrase offset, clocks that come and go | `order` is the `std::set` in order of address; `job[t]` how far the broadcast of thread `t` is |
| `ProDjLink` | beat, status and start-up packets of players, and the local count | `master`, `lastbeat`, `beatNumber` |
| `Timeline` | position, interval of a frame, reset, SetDuration | the code's fields, modulo `Width` (2^32 there) |
| `Fades` | `Transition`, `TriggerFade` and `BeatWatcher` | the code's fields; a brightness in ms of the fade |
| **`Links`** | one of the next six | `link` says which |
| `UdpLink` | throttle and UDP output on a host, UDP input and LED output on a node | time in ticks; packets by length and time under way |
| `RmtSend` | the LED output on RMT: blocks of memory, end marks, interrupts after three bytes | `memory` is the peripheral's, byte `i` of a frame is `<<frame, i>>` |
| `DmxReceive` | UART events, the receiving task, `DMXInput` | bytes are `<<frame, channel>>`; copies go channel by channel |
| `DmxSend` | outputs on one port, swapped buffers, the sending thread | values are `<<output, frame>>` |
| `EspSend` | DMX, PWM chip and SPI outputs of the ESP32 | `back`, `front`, `line`; value = number of the frame that wrote it |
| `DinMidi` (extends `DeviceOwners`) | the serial MIDI port byte by byte, connection and silence | parser state as in `midiDevice-esp.hpp` |
| **`Web`** (extends `WebsocketServer`) | one of the next three | `part` says which |
| `WebsocketServer` | clients of a path, io thread, broadcasts, the mutex | `memory[s]` whether the session exists; `todo[t]` whom a broadcast still writes to |
| `HttpSession` | reads, queue of responses, writes, close and upgrade | requests are numbered |
| `HostnameCache` | one entry and its resolver threads | ages of `lastUpdate`, `lastAttempt`; the stores one by one |
| `MC…` | instances for TLC, where constants or constraints need definitions | – |
| `ControlHubProofs`, `ClientProofs`, `SequencerProofs` | theorems about the hub and its three clients (`ClientProofs`: palette column and APC mini) | – |
| `RoutingProofs`, `TimingProofs`, `WebProofs`, `ControllersProofs`, `LinksProofs` | theorems about the five sums and their elements | – |

Composition.  `Sequencer`, `PaletteColumn` and `ApcMini` conjoin their own
updates with the hub's actions or reuse its notifications.  `DeviceOwners` is
what `Hyperion` does for the devices of all three kinds.  `Slicer` implements
`FrameDelivery` under `loaded <- buffer`.  The five modules in bold put elements
side by side that a program uses apart from each other: a static variable says
which one is looked at, the others stay at one initial state, and the fairness
conditions are those of the elements.  So a run of the sum is a run of each.

Operators commented "Wrong on purpose" are mutants: one per checked property,
each the form a plausible bug would give to the definition after it; the
property fails with it.

Abstractions.  Names of slots, columns and parameter sets are display text and
left out.  Dimmer and parameter values are members of small sets, since they are
stored and compared only.  `setVelocity` … `setOffset` are one action over
`Fields`; `setFlash`, `setFlashColumn`, `setFlashRow` one over the set of slots
they cover.  In `Tempo` a player's packet is how far it moves the count;
`ProDjLink` has the packets.  Frames and slices are non-empty: `Chain::process`
drops empty frames, treated only at start-up (`Combine`, `RepeatFallback`).
Messages of websockets arrive in order or the connection breaks.  `millis()`
differences are ages, or numbers modulo `Width` where the wrap is the point.

## 3. Runs

All passing runs are exhaustive for their bounds.  States are distinct states.

| run | instance | shows | states |
|---|---|---|---|
| `hub` | 1 column, 2 slots with palettes, 2 levels, 2 parameter sets, 2 inputs, 1 controller, sets of SEQUENCE and PREVIEW, every layout, constraint `OneSide` | no ghost lights, radio columns, forced selection, palette live and last one wins, `FadersMirrored`, `StaysTold` | 382 000 |
| `sequencer` | 2 slots, 2 indices, 2 steps, 1 page, beats –1, 1, 2, constraint `OneHand` | rows fresh and complete (`SequencerInv`), `StaysSynced`, `BeatRepairs` | 247 000 |
| `routing` | slicer: 2 synced slices, 1 without, source in the middle; combine: 2 synced parts, 1 without, 2 sizes; repeat fallback: 3 rounds; switch: 2 inputs of each kind | refinement of `FrameDelivery`, `OneFrameEach`, `NoFrameLost`, `OnlyTheChosenSpeaks`; live: `FramesGoOn`, `LightsStayOn` | 17 700 |
| `tempo` | player, tap, 1 clock on 3 threads; bars of 2, phrases of 4, beats up to 2; 2 players on a link, 12 beats; timelines of 0, 2, 4, 5 ms and fades of 2 ms on a clock modulo 12 | `TimingInv`, `AlignStartsPhrase`, `BeatsAreNotMisplaced`, `CountFollowsMaster`, `RightAgain` | 2 750 000 |
| `links` | UDP: frames of 2–3 ticks; 2 strips with 3, 8, 9 bytes, 2 late steps; DMX universe of 2, 2 frames, 3 queued events, 1 error; 2 DMX outputs; 2 channels and 3 frames on the ESP; 1 serial device | `LinksInv`, `NoneThrownAway`, `SendsItsFrame`, `NeverBack`, `HeardAsSent`; live: `EveryLinkGoesOn` | 113 000 |
| `web` | 2 broadcasting threads, 2 sessions, 2 broadcasts; 4 pipelined requests with a queue of 2; 2 addresses, 2 resolvers | `NoWriteToFreed`, `WebInv`, `NotAskedTooOften`; live: `PagesAreServed`, `NameSettles` | 33 900 |
| `controllers` | 3 threads on 3 slots; 3 plugs on 3 addresses; ports of up to 3 a side; 2 bridges, 2 plugs, 2 addresses; 2 pages, 2 sessions, up to 2 columns | `NoStuckFlash`, `NoDangling`, `OpenIsServed`, `ServerMirrorsPage`, `InSync`; live: `DevicesSettle` | 455 000 |
| `apc_mini` | window of 1 of 2 columns, 2 slots, MK1 and MK2 | `SurfaceInv` | 1 290 000 |
| `hub_feedback` | 2 slots, sequencer | violates `LampsAgree` | – |
| `hub_forced` | 3 slots | violates `ForcedSelection` | – |
| `tempo_priority` | player and tap | violates `HighestPriorityActive` | – |
| `rmt_ends` | 2 strips of 3 and 6 bytes, 2 late steps | violates `EndInBlock` | – |

Each passing run also checks the type invariants of its modules, as part of the
invariant named after the run's subject.

Why the bounds are enough.  Hub operations touch one slot or one column and
treat the other slots of a column alike, so two slots show every relation;
forced selection needs three for its counterexample with a flash button.
Columns and controllers do not interact, and the proofs hold for any number.
Two sequences are the fewest that could fight for a slot; two steps distinguish
"this step" from "another", and beat 2 wraps.  The two constraints cut what the
properties of those runs do not depend on: `OneSide` tries the buttons while the
faders are as in the beginning and the faders while no button is on, since no
operation of the hub reads the one to write the other (`StaysTold` and the
theorems about the hub need no such constraint); `OneHand` holds one button or
preview at a time in `sequencer`.  A
slicer with one hanging, two slow outputs and a source in the middle of the loop
has every order of load and send.  Three frames per part of a `Combine` let a
fast part run ahead until sync stops it.  `MaxBeat` = 2 repeats bars of 2, and a
phrase of 4 makes an alignment differ from clearing the offset; the three
threads of `tempo` are those of the code (`TempoTask`, the MIDI thread, a page),
each of which may be between the check and the reads of a broadcast while the
others beat, lose signals, time out and move the offset.  A clock modulo 12
wraps within a few frames and has timelines that divide it (2, 4), one that does
not (5) and so breaks off at the wrap, one shorter than a slow frame (2) and one
that runs for ever (0).  Strips of 3, 8 and 9 bytes end before, in and after the last
slots of a block, with end marks that fit (`EndsFit`; `rmt_ends` is about a
length whose marks do not).  A UART queue of three events (20 in the driver)
holds a start, a break and the next start, so that a break throws away a break
and the start code behind it; `Dark` = {1} makes the first channel look like a
start code, and one error in two DMX frames can hit the start, the middle or
the break.  Two addresses are fewer than
the devices that come, so addresses are used again.  A queue of two and four
requests fill it, stop reading and start it again.

Deadlock is checked except where the system may stop: inputs end after their
last frame (`routing`), wires fall silent (`links`), connections end (`web`),
ports are paired once and pages end (`controllers`), and `hub_forced` has a
layout in which no operation changes anything.

## 4. Fairness

* Run loops (`Slicer`, `RepeatFallback`, `Switch`, `UdpLink`, `EspSend!Loop`,
  `DmxIn!InputSteps`): weak; `runTask` is `while (1)`.
* Outputs: weak for the *synced* outputs of a slicer, none for the others, since
  the comment in `slicer.hpp:18-29` is about exactly those.  `RepeatFallback` and
  `Switch` have strong fairness of a sleep after which the output is ready: an
  output comes back again and again, or no light stays on.
* Inputs: weak for the source of a slicer (packets that keep coming are the
  premise of its claim), none for the inputs of `RepeatFallback` and `Switch`.
* Drivers: weak for the DMX sending thread, the tasks and the DMA of the ESP, the
  interrupt and the peripheral of each strip, the receiving task; and for the
  sender on the DMX wire, whose frames are the premise of `OneFrameBehind`.
  `Silence` of the serial port is time passing.
* `WebsocketServer`: strong for the io thread once it is in a handler and for each
  `sendAll`: a mutex that is free again and again is got in the end.  Nothing
  makes a browser connect or leave.  Writes return, so browsers read; a browser
  that does not blocks everyone, see section 6.
* `HttpSession`: reads of a connection that has data, and writes, complete.
  `HostnameCache`: look-ups go on with the output that makes them, time passes,
  resolvers answer or fail.
* `NativeMidi`: the poll goes on and the main thread registers its callbacks.
  `MidiBridge`: the server handles what arrived (`Handles`).
* The hub, sequencer, palette, APC mini, tempo, timelines, fades and pages are
  checked for safety only.

In the sum modules these conditions are conjunctions over the part that is
looked at; those that concern different parts are merged into one disjunction.

## 5. What is proved

TLAPS proves the theorems below for *every* value of the constants that
satisfies the named assumptions of the modules (`BoundsAssumption`,
`DataAssumption`, `UnknownAssumption`, `PaletteAssumption`,
`SequencerAssumption`, `SlicerAssumption`, `RoutingAssumption`,
`TempoAssumption`, `TimingAssumption`, `ServerAssumption`, `WebAssumption`,
`ControllersAssumption`, `LinksAssumption`, `ApcAssumption`), which TLC evaluates
in the runs:
for any number of columns, slots, controllers, pages, slices, parts, inputs,
threads, sessions, sources, channels and frames.  Where a theorem needs more
than these, its premise is named in its statement and explained here.

Each theorem rests on an inductive invariant and has one step per action of
`Next`; lemmas at the head of a part say what the operators of the model do to
the parts of the invariant.  In the five sums the argument has a second half: a
step of the program is a step of the element that is looked at and a stutter of
the others, so that the invariants of all elements are preserved together.

**The hub** (`ControlHubProofs`)

* `HubTypeCorrect`: `Spec => []TypeOK`.
* `LampsHaveNoGhosts`: `Spec => [](NothingUntold /\ NoGhostLight)`.  What a
  controller shows of a slot is nothing, off, or exactly the flags the hub has.
  `NoGhostLight` alone is not inductive: a controller that is not subscribed is
  not told of a change and would keep an old light.  `NothingUntold` — whoever
  is not subscribed shows nothing — is the strengthening.  It holds because
  `unsubscribe` is only called by destructors; a controller that unsubscribed
  and lived on would break it.
* `FadersAreMirrored`: `Spec => []FadersMirrored`, from the same strengthening;
  its second half (nothing is shown about parameter sets that do not exist yet)
  is what the `AddParams` step needs, as it overwrites a set.
* `NothingIsMissed`: `Spec => StaysTold`, from the type invariant alone: every
  operation tells every subscriber what it changed.
* `RadioStaysRadio`, `ForcedStaysSelected`: `PlainCallers /\ Spec => RadioColumn`
  and `=> ForcedSelectionKept`, where `PlainCallers` says that no caller passes
  DEFAULT to `setSlotActive`.  The sequencer, the pages and the APC mini do not;
  `EspNowButtonController` does (section 6), so the theorems are not about
  installations with one.  `SelectionStep` shows that only
  `ButtonPressed` changes which slots of a column are selected.

**Its clients** (`ClientProofs`, `SequencerProofs`)

* `PaletteColumnIsAClient`: `PaletteSpec => Spec`.  The callback inside an
  operation takes nothing from the hub, so every theorem about the hub is one
  about the hub with a palette column.
* `PaletteIsLive`, `LastOneTakesOver`: `PaletteInv` and `LastOneWins`, as long as
  the column never gets longer than its palettes (`OnlyPalettes`): beyond them
  the callback does not look, and its fall back may index past the end (section
  6).  `PaletteInv` is inductive together with `Unused`: a slot that does not
  exist is not on, so that no slot is live when `ExpandTo` adds it.
* `PagesShowSequences`: `SeqSpec => []SequencerInv`.  The invariant adds that no
  two sequences own a slot (`OneOwner`) and that there are none before the start.
* `EditsKeepStep`: `SequenceIsOurs /\ SeqSpec => StaysSynced`.  The premise says
  that nobody but the sequencer passes SEQUENCE to `setSlotActive`, true of the
  code.  It rests on `OneOwner`: with two owners the update of one sequence would
  undo that of the other.
* `ABeatRepairs`: `SeqSpec => BeatRepairs`, from the same invariant.
* `SurfaceIsTrue`: `ApcSpec => []SurfaceInv`, for any grid and both makes, while
  anybody else calls the hub as well.  The invariant (`ApcSafe`) keeps what
  `SurfaceInv` needs: the surface is subscribed and lit slots exist (`ApcHub`), the
  mouse is down on one slot at most (`OnePointer`), and whatever flashes, but for
  what slipped away at a change of mode, is held by something whose release will
  end it (`FlashEnds`, `WillEnd`): the button of a flash slot, or a key of the
  flash mode while that mode lasts.

**Routing** (`RoutingProofs`)

* `SlicerTypeCorrect`, and `SlicesReadyWhenBehind`: `Spec => []ReadyMeansBehind`:
  the ready flag of a slice is exactly "its output is behind the buffer".
* `SlicerImplementsDelivery`: `Spec => DeliverySpec`, the refinement: a
  `LoadFrame` is an abstract `Load` because `SlicerReady` and
  `ReadyMeansBehind` put every synced output level with the buffer, a
  `SendSlice` is a `Deliver`, everything else stutters.
* `NothingOldComesBack`, `CombineTakesOneEach`, `CombineIsSteady`: the three
  claims about `Combine`.  The invariant says that a part has delivered one frame
  more than was emitted exactly when it is dirty, that a part without a size is
  clean (so that a frame the chain drops takes nothing away), and that a dirty
  part has its newest frame in the buffer unless the buffer was replaced.
* `RoutingIsSafe`, `RoutingDelivers`, `RoutingCombines`: `RoutingInv`,
  `DeliverySpec` and `OneFrameEach` of the program of all four elements.
* `RepeatLosesNothing`: `NoFrameLost`.  The output is level with the input when
  there is no new frame and exactly one frame behind when there is
  (`OneBehindWhenReady`): a repeat never runs ahead of a new frame.
* `SwitchIsObeyed`: `OnlyTheChosenSpeaks`.  Once somebody has chosen, exactly the
  receivers of that choice are active (`ActiveIsDue`).

**Tempo and time** (`TimingProofs`)

* `TimeIsKept`: `TimingSpec => []TimingInv`.  For the offset: the remainders in
  `AlignPhrase`, of numbers that may be negative, leave a whole number of bars
  for every bar that divides a phrase.  For the fades the invariant ties the
  signed phases of `fade.h` to the time since the switch, within half of the
  range of the clock; `FadesAssumption` says that the delays are shorter than
  that.
* `NoMomentIsMissed`: `TimingSpec => []RightAgain`, for every width of the clock,
  every duration and every length of a frame.  The invariant (`EndIsPassed`):
  while nothing disturbed the loop, the end of the last interval and the
  positions since then are those of one walk of less than a loop.
* `BarsStartPhrases`: `AlignStartsPhrase`, by arithmetic on the offset.
* `MasterIsFollowed`: `CountFollowsMaster`; nothing has been counted of a master
  that was not heard.
* `NoBeatIsMisplaced`: `TimingSpec => BeatsAreNotMisplaced`, for three threads
  that interleave between the check and the two reads of `BroadcastBeat`.  A name
  or number that is read belongs to the source that beat or to one before it in
  the set with a signal; that it is always its own is false (section 6).  Beats
  that `TempoTask` makes of tapping are left out, since a page may stop the
  tapping meanwhile.  The invariant, `OnTheAir`: a source whose beat is under way
  stays in the set, and after the check it keeps its signal until the beat is out,
  because the only thread that could take it away is the one that broadcasts.

**Threads in the hub, devices, pages** (`ControllersProofs`)

* `FlashesAreFreed`: `Spec => []NoStuckFlash`, for any number of threads with
  every read and store a step.  The claim is about slots that one thread writes
  (`Unshared`) and a fader that one thread moves, with all the others doing what
  they like to the rest of the column.  The invariant is about what is under way:
  FLASH is there for a button that is down or about to be released
  (`FlashIsHeld`); a button that is down has its FLASH or is about to store it
  (`HeldHasFlash`), unless a forced selection refused the press; a fader that is
  behind is about to be told (`FaderFollows`).
* `OpenDevicesAreServed`: `Spec => []OpenIsServed`, for any number of plugs,
  addresses and ports.  For the ports the invariant (`PortsSafe`) says that every
  port is either in the list still to be paired or in one device, and in no two.
* `NothingDangles`: `Spec => []NoDangling`.  `NativeSafe` and `BridgeSafe`: the
  clock, the controllers and the map of devices hold exactly the addresses of
  what is open, and two open devices never have one address, so a device that
  gets the address of an old one finds nothing of it.
* `ServersMirrorPages`: `Spec => []ServerMirrorsPage`.  What the server has of a
  page, followed by the messages under way, is what the page has
  (`BridgeMirrored`); a message that refers to an id finds it as the page left it.
* `PagesAreInSync`: `~OtherThread` implies `Spec => []InSync`.  The invariant
  reads the messages under way to a page in order (`PageHears`): each slot is
  shown as it is, or the last message about it says how it is, and no message
  is about a column the page has not been told of.  The premise is that nobody
  presses while the status is sent; with another thread it is false (section 6).

**Web server and host names** (`WebProofs`)

* `NobodyWritesToFreed`: a broadcast under way has the mutex and writes to
  clients only; a client was not freed; the io thread takes a session out of the
  clients, for which it needs the mutex, before it frees it.
* `WebIsSafe`: `WebSpec => []WebInv`.  *Order of broadcasts*: each has its own
  number, one that waits for the mutex has reached nobody, the one that has it
  has reached some as their last message and does not reach them again.  *HTTP*:
  a request is in the queue, being written or answered, and in one of them only;
  a full queue has no read under way.  *Cache*: attempts that do not overlap
  store their own answer.
* `ResolverIsAsked`: `NotAskedTooOften`; the ages of the entry follow those of
  the attempts, and `CacheAssumption` has the refresh time not below the retry
  time, as the constants of the code do.

**Links** (`LinksProofs`)

* `MessagesAreHeardAsSent`: `Spec => HeardAsSent`, for any data bytes.  The
  parser is where the sender is whenever all bytes so far have come
  (`PortFollows`).
* `ChannelsNeverGoBack`: `Spec => NeverBack`, for any number of queued events.
  Time goes forward along the way: no channel of the frame made is newer than
  that of `dmx_rx_buffer`, this one not than that of `dmx_data`, this one not
  than any queued byte, and the queue is in order (`OnlyForward`).
* `LinksAreSafe`: `Spec => [](IsProved => LinksInv)`.  `IsProved` names the
  links, two of them with a premise: UDP and RMT with those of the next two
  theorems; DMX both ways, the outputs of the ESP32 and serial MIDI without one.
  *Outputs*: what was sent so far is what was written (`LineFollows`,
  `EspFollows`), with transfers that fail and transactions that are refused.
  *Serial MIDI*: whoever registers before the sender is heard may get two clocks,
  never more, and nothing points to what is gone (`DinSafe`).  *DMX in*, for any
  `QueueLength`: the events in the queue are the bytes of the wire in their order,
  each at its place (`QueueFits`), except that a break throws away what is queued
  behind it.  The history variables `late` and `cut` name the frames that lost
  something to a break or to an error; `DmxInSafe` says that only a frame in
  `late` is out of place (`InPlace`) and that only a frame in either is mixed with
  an older one (`Filled`).
* `NoFrameIsThrownAway`: `Udp!Steady` implies `Spec => []NoneThrownAway`, for all
  lengths of frames and frame rates, with packets that get lost.  `Steady`: all
  packets take the same time, and the interval of the throttle or every frame is
  at least two ticks long.  With packets that differ in time the claim is false
  (section 6).  The invariant, `UdpSafe`: one frame waits on the node at
  most (`OneWaits`), packets under way are as far apart as the frame before them
  lasts (`Spaced`), and whatever comes in so many ticks, first of all the next
  packet that the throttle lets go, finds the LEDs free in the tick after at the
  latest (`InTime`).
* `StripsGetTheirFrames`: `Rmt!EndsFit` implies `Spec => []SendsItsFrame`, for any
  number of channels, when an interrupt is handled before three more bytes went out.
  The invariant, `RmtSafe`, counts the fills a channel has had, two at the start
  and one for each interrupt handled, and says what position and write pointer
  are after so many (`Reach`, `Pointer`), that each byte filled and not sent is
  in its cell, and that an end mark stands behind the last.  A fill stays in its
  own block by `FillOnce`, for which the end marks have to fit: with lengths that
  break `EndsFit`, `rmt_ends` shows a mark in the neighbour's block.

*Only model-checked.*  Liveness (`FramesGoOn`, `LightsStayOn`, `PagesAreServed`,
`NameSettles`, `EveryLinkGoesOn`, `DevicesSettle`) is out of the prover's reach.
Every other property of the passing runs is stated by a theorem; where the
theorem has a premise (`PlainCallers`, `OnlyPalettes`, `SequenceIsOurs`,
`~OtherThread`, `Steady`, `EndsFit`), the run's instance or constraint meets it, and section 6 says what
happens without it.  The properties of the four violation runs are false.

## 6. Where code and documentation disagree

Shown by the runs that expect a violation:

* **Lamps** (`controlHub.hpp:127`, `:103`).  A release announces "off" though the
  slot may stay on by DEFAULT, SEQUENCE or PREVIEW.  `src/readme.md:110-112`
  promises a single source of truth and good visual feedback.
* **Forced selection** (`controlHub.hpp:81`).  The count is taken before the
  release loop, so with two selected slots a releasing press can empty the
  column.  `ForcedSelectionKept` is what does hold.
* **Tempo priority** (`hyperion.hpp:186`).  "first has highest priority", but the
  sources are a `std::set` of pointers, in order of address.
* **End marks** (`neoPixels-esp-legacyRMT.cpp:92-96`).  "We are at least 8 pulses
  from the end of the buffer", so no wrap is checked there; but after the data
  every fill writes its mark one further, and for some lengths (6 bytes in a
  block of 8) one comes to lie behind the block, where the next channel has its
  bytes.

Noticed while modelling, not the subject of a run.  Where a property excludes
one of these by its premise, the hazard says so.

*Hub, sequencer, surfaces*

* `sequencer.hpp:132-136`: removing a lit sequence sets SEQUENCE again and then
  forgets the sequence; the flag stays.
* `sequencer.hpp:76`: the beat of MIDI stop (–1) reads `active[-1]`, in practice
  `enabled`, so every enabled sequence lights up on stop, against the comment in
  `midiClockTempo.h:46`.
* `paletteColumn.hpp:44`: a preview of an inactive slot can move the palette.
  `:45-60`: in a column with more slots than palettes the fall back may pick a
  live slot that has no palette and index `palettes` past its end, which is why
  the palette theorems assume `OnlyPalettes`.
* `controlHub.hpp:142`, `:166-169`: two threads that write one slot or one dimmer
  lose updates and can leave a fader wrong.  `:274`: a press of another thread
  while the status is sent leaves a page with the old state.
* `espNowButtonController.hpp:92` sets DEFAULT by the default argument of
  `setSlotActive`, which takes no account of columns (`controlHub.hpp:132-135`): a
  second slot of a radio column can be selected, a forced one lost.
* `korgNanoKontrol2.hpp:98` is off by one.

*Devices*

* `midi-unix.hpp:114`: the names of inputs and outputs are both read from the
  input side; `:79`: one device that goes while another comes is not noticed.
* `midi-esp.hpp:41`: a callback that is registered is called at once for a device
  that is not connected yet, and again when the sender is heard, so the serial
  port gets two clocks.  `Hyperion` registers at start-up (`hyperion.hpp:226`), so
  this is the usual case.  `insert` keeps the first clock in the map
  (`hyperion.hpp:202`); the second is never destroyed and stays a tempo source.
* ESP web server: connection handlers are given a file descriptor as the client,
  message handlers a pointer, so a `MidiBridge` keyed by client never forgets; a
  connection lost without CLOSE leaves a client whose descriptor is used again.

*Routing and links*

* `combine.hpp:31-35`: a part of another size blanks the parts that were already
  new, against `combine.hpp:59-60`.
* `repeatFallback.hpp:64-67`: repeats do not restart the timer, so they come as
  fast as the output allows, not every `fallbackTimeout` (`:14-16`).
* `switch.hpp:42`, `:99`: receivers start with an uninitialised `active`, and the
  function is asked only when a frame is delivered: with no active receiver a
  switch never starts.  `fallback.hpp:20`: `index` is never counted up.
* `splitter.hpp:26`: inputs are built on the buffer pointer before there is a
  buffer.
* `throttle.hpp:32`: the frame interval is rounded down.  `udpInput.hpp:29`: with
  jitter, frames are dropped on the node.
* `dmxOutput.hpp:35`: several outputs of a port are not combined into one frame;
  on an ESP32 the second one starves, as `ready()` is asked by the chain and
  again in `process`.  `dmx-esp.hpp:119`: a frame may be half of one and half of
  the next.  `dmx-esp.hpp:224`: the length is cleared after the copy, so a frame
  written meanwhile may be cut.
* `dmx-esp.hpp:116-122`: a break clears what the driver has queued behind it, so
  a task that is late loses the start code, and a first channel that is 0 is
  taken for it: the frame is shifted.  This happens in `links`, whose claims are
  about the other frames: only one that lost something to a break can be shifted.
* `spi-esp32.hpp:67-75`: `sendFinished` is cleared before `spi_device_queue_trans`,
  whose error (invalid length, no DMA memory) is only logged.  No callback comes
  then and `ready()` is false for good: no frame gets out until a restart.
  `EspSend!Queue` has this outcome, and `GetsReady` names it (`Refused`) as the
  only one in which an output of the ESP32 does not get ready again.
* `pwmDriver-esp.hpp:171`: a table of 12 entries, up to 16 channels.
* `websocketInput.hpp:57-60`: the acknowledgement is sent before the flag is
  cleared; a frame that answers it at once is forgotten, and its sender waits for
  ever.  `:41`: `bufferSize` stays 0.

*Tempo, time*

* `tempo.cpp:12-18`: with beats on several threads a beat can pass the check and
  go out under the name and the number of another source, one before its own in
  the set that got its signal meanwhile, or the name of one and the number of the
  other.  A beat that `TempoTask` makes of tapping can go out with no name and the
  number -1 when a page stops the tapping meanwhile (`tapTempo.h:24-29`); the
  sequencer takes that for MIDI stop.
* `proDJLinkTempo.h:80`: which number is remembered as the last beat decides which
  packets count as repetitions; `hyperion.hpp:240`, `:275`: comments that say
  something else than the code does.
* `timeline.h:51-78`: the frame after a reset or a change of the duration sees
  moments of an interval that never was, and so does the frame in which
  `millis()` wraps unless the duration divides 2^32 (`Fits` in `Timeline`).  A
  frame that is longer than the loop misses moments.
* `fade.h:76`: phases are signed, so that a pattern that is held for 24.8 days
  goes dark for as long.  `transition.h`: the fade out runs from construction, so
  a transition asks for frames at start-up, and a pixel may get brighter after a
  release that comes before its fade in is over.

*Web*

* `webServer-unix.hpp:691`: a pipelined request after an upgrade is not answered.
  `:1257`: a browser that does not read stops every sender and the io thread.
* `analytics.hpp`: frames are counted on one thread and reset on another.

## 7. Plan

Done: hub, sequencer, palette, APC mini, hub under threads; routing in one run
loop each with an abstract specification; tempo, players, timelines, fades;
devices of three kinds; controller pages; the links; web server and host names;
a theorem for every property of the passing runs that is not liveness.  Next:

1. `Combine` → `RepeatFallback` → `Slicer` in one loop, end to end.
2. Sequencer and tempo composed, with both threads interleaved.
3. The acknowledged websocket input with its page.

## 8. Not modelled, and why

* *Splitter*: a slicer over a buffer of its own; as written its inputs point to no
  buffer (section 6), so there is no working behaviour beyond `Slicer`.
* *Input rendering, patterns, LFOs, colours, palettes, lookup tables, pixel and
  index maps*: floating-point arithmetic on pixels without a protocol.  The
  preview flag and mask of an input are in `ControlHub`.
* *Monitors, websocket output, analytics*: display.  A monitor is the output
  without sync of the `routing` run; what it broadcasts is in `WebsocketServer`.
* *Surfaces other than the APC mini*: each forwards one message to one call of the
  hub.
* *Sockets, TLS, files, logging, the ESP web server, start-up code*: I/O of the
  platforms; it enters as arrivals, readiness and the threads that call the core.
* *Memory-level races* (a vector that grows while another thread iterates over
  it) are listed as hazards; they are undefined behaviour of the whole program
  and not a state of these models.
* *Vendored code*: the mdns service (about 7 200 lines), RtMidi (3 900) and cJSON
  (4 600) are more than a third of the implementation lines; with colours,
  patterns and page styling they are the reason why the share of lines that the
  models cover is small: 7 % of all, most of what keeps state in the core.

## 9. Running

    tlc -config MCHub.cfg MCPaletteColumn            # any run: cfg and module in PROJECT.json
    tlapm ControlHubProofs.tla                       # and the other seven *Proofs modules
