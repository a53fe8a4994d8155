# A TLA+ model of hidpp

hidpp talks to Logitech devices over HID++ 1.0 and 2.0: a library
(`src/src/libhidpp`) and command line tools (`src/src/tools`). This directory
holds TLA+ specifications of the parts of it that have state, order or
concurrency, the TLC configurations that check them and TLAPS proofs about the
central one.

Contents: [the system](#1-the-system), [the modules](#2-modules-and-the-code),
[the runs](#3-runs-bounds-and-what-they-show),
[fairness](#4-fairness), [the proofs](#5-proofs),
[disagreements with the code's own words](#6-where-the-code-and-its-words-differ),
[what is not modelled](#7-what-is-not-modelled), [the plan](#8-plan).

## 1. The system

Paths are relative to `src/src/libhidpp` unless they begin with `tools`.

### Requests and answers

| Component | State | Operations | Hard behaviour |
|---|---|---|---|
| `hid/RawDevice_linux.cpp` | hidraw fd, pipe of `interruptRead` | `writeReport`, `readReport` (select on both fds, with or without timeout), `interruptRead`, copy | the device has priority over the pipe; a byte stays in the pipe until some read takes it; unplugging makes reads and writes throw |
| `hidpp/DispatcherThread.cpp` | `_commands`, `_notifications`, `_listeners`, their two mutexes, `_stopped`, `_exception` | `run`, `stop`, `sendCommand`, `getNotification`, `get`, `get (timeout)`, handler registry | callers on any thread; answers matched by (index, sub ID, address) only; timeouts racing answers; calls submitted while `run` ends; handlers removed while an event is delivered |
| `hidpp/SimpleDispatcher.cpp` | device, `_listeners` | the same interface on one thread: `get` reads reports until its own comes; `listen`, `stop` | reports of others are dropped or given to handlers while waiting; a `stop` with no reader is found by the next read |
| `hidpp/Dispatcher.cpp` | `_listeners`, the reports the device has | handler registry, `processEvent`, `checkReportDescriptor` | handler lists |
| `hidpp/Report.cpp` | one report's bytes | constructors, field access, error decoding | lengths and error codes of two protocols |
| `hidpp/Device.cpp`, `hidpp10/Device.cpp`, `hidpp20/Device.cpp` | index, version | protocol detection by ping, register access, `sendDataPacket`, `callFunction` | an acknowledgement is a notification: it must be waited for before the packet is sent |
| `hidpp10/I*.cpp`, `hidpp20/I*.cpp` | none, or a few cached values | one request and its answer each; some read, modify and write | two processes that write one register, or take each other's answers |

### The memory of a device

| Component | State | Operations | Hard behaviour |
|---|---|---|---|
| `hidpp10/IMemory.cpp` | none in the process; page, sequence number, cursor in the device | `readMem`, `writeMem`, `writePage`, `fillPage`, `resetSequenceNumber` | a numbered, acknowledged stream over an erased page; refusals in the middle; a process that ends in the middle, and the next one |
| `hidpp20/IOnboardProfiles.cpp` | mode, current profile | `memoryAddrWrite` / `memoryWrite` / `memoryWriteEnd`, `memoryRead` | the same, without sequence numbers |
| `hidpp/AbstractMemoryMapping.cpp`, `hidpp10/MemoryMapping.cpp`, `hidpp20/MemoryMapping.cpp` | map of pages, their modified flags | `getReadOnlyPage`, `getWritablePage`, `sync`, `computeOffset` | a read or write that throws leaves state behind; CRC of the pages; never invalidated |
| `hidpp/Macro.cpp` with `hidpp10/MacroFormat.cpp`, `hidpp20/MacroFormat.cpp` | list of items with jump iterators | parse, write, simplify, isLoop, buildLoop | macros that do not fit in a page; jumps within and between pages; alignment |
| profile formats and directories | none | read, write | bit fields, sentinel entries |
| `hidpp/Setting.cpp`, `Enum.cpp`, `Field.h`, `hidpp10/Sensor.cpp` | none | check, convert | ranges, rounding |

### Discovery, events, tools

| Component | State | Operations | Hard behaviour |
|---|---|---|---|
| `hid/DeviceMonitor_linux.cpp` | udev monitor, pipe | `enumerate`, `run`, `stop` | devices added or removed during enumeration |
| `hid/ReportDescriptor.cpp` | parser state | `fromRawData` | global and local items |
| `misc/EventQueue.h` | queue, mutex, condition, `_interrupted` | `push`, `pop`, `try_pop`, `interrupt`, `resetInterruption` | wake-ups; a signal handler that interrupts |
| `tools/hidpp20-raw-touchpad-driver.cpp` | nodes, drivers, wireless touchpads, a task queue | the monitor thread makes and destroys drivers, the main thread runs tasks, dispatcher threads deliver events | tasks of drivers that are gone; raw mode and its handler; a driver built twice |
| `tools/hidpp20-mouse-event-test.cpp` | handlers, which take the mouse over | two kinds of listeners, SIGINT | a signal in the middle of a command; what is left in the mouse |
| `tools/hidpp-persistent-profiles.cpp`, `hidpp10-load-temp-profile.cpp`, `profile/*.cpp` | a document, page address of the next macro | read, lay out, sync, dump | a sync that is cut; a dump that cannot be written back |
| the other tools | none | a sequence of calls each | errors in the middle; another tool on the same mouse |

### Who calls whom

```
 tools ── Profile/Directory formats ── Macro ── MacroFormat
   │                │                    │
   │                └──── AbstractMemoryMapping  (page cache, CRC, sync)
   │                             │ readPage / writePage
   │                   IMemory (1.0)   IOnboardProfiles (2.0)
   │                             │ sendCommand, getNotification
   └──── registers / features ── HIDPP10/20::Device
                                 │
        DispatcherThread (run() on a thread of its own)  or  SimpleDispatcher
                                 │ readReport / writeReport / interruptRead
                              RawDevice ── kernel ── device
```

Threads exist above and below the dispatcher only: everything from the mappings
up to the formats is sequential code, whose difficulty is failure in the middle,
the order of device writes and arithmetic at page boundaries.

### What makes each part correct

* Dispatcher: a future that is not ready can still become ready, and is when
  `run` ends; a promise is set once; a timeout never loses an answer that has
  come; an answer goes to its own command; no handler is called after it was
  unregistered; `stop` ends `run` and with it every wait.
* IMemory: a write that returned is on the device and stays there, whatever
  processes were killed before; a read returns the page asked for, byte for byte;
  calls end.
* Memory mapping: after `sync` the device has what the cache has, whatever
  failed before; an unmodified cached page is the device's; pages have their CRC;
  what nobody changed does not change.
* Macro: written and parsed back it is the same program, across pages; page
  ends and CRC bytes are left alone; the parser ends.
* Formats, settings, sensors, reports: reading what was written gives it back,
  or the nearest value that can be written.
* EventQueue: a `pop` that waits is woken by every `push` and `interrupt`.
* Profile tools: what was written is read back, a dump restores what it was read
  from, and a sync that is cut leaves no entry for a page that has no profile.
* Touchpad driver: a touchpad in raw mode has somebody who hears it; when things
  settle every touchpad works; what uinput shows follows the fingers; it ends.
* Other tools: whatever runs at the same time, fails or is interrupted, the mouse
  has in the end the settings the tools were told to make, one after the other;
  what they list is all there is; they end.

## 2. Modules and the code

| Module | Of | What it is |
|---|---|---|
| `AsyncCalls` | `Dispatcher.h` | contract of `sendCommand`/`getNotification`: a call is opened or refused, then fulfilled, expired or aborted, once |
| `DispatcherThread` | `DispatcherThread.cpp`, `RawDevice_linux.cpp` (read, interrupt), handler registry | the threads, the lists, the device |
| `DispatcherThreadProofs`, `DispatcherAnswerProofs` | | theorems about `DispatcherThread`: promises and lists; whose answer goes where |
| `QueueFacts` | | lemmas about queues, and induction over numbers, that several proofs use |
| `MCDispatcherThread` | | small instance: actors, keys, symmetry |
| `SimpleDispatcher`, `MCSimpleDispatcher`, `SimpleDispatcherProofs` | `SimpleDispatcher.cpp`, `RawDevice_linux.cpp` (read, interrupt), handler registry | one thread that reads for whatever it waits for, another that may stop it |
| `PageStore` | what the mappings rely on | contract of a page write: anything may happen to a page until a write of it returns; then it has its data and keeps it |
| `IMemory`, `MCIMemory`, `IMemoryProofs` | `hidpp10/IMemory.cpp`, `hidpp10/Device.cpp` | page writes and reads over a FIFO of requests and a FIFO of replies |
| `MemoryMapping`, `MCMemoryMapping`, `MemoryMappingProofs` | `AbstractMemoryMapping.cpp`, `hidpp10/` and `hidpp20/MemoryMapping.cpp` | page cache over `PageStore` |
| `Macro`, `MCMacro`, `MacroProofs` | `Macro.cpp`, the lengths and addresses of the formats, `computeOffset` | write, parse, what simplify removes |
| `MacroText` | `tools/profile/MacroText.cpp`, names of `hid/UsageStrings.cpp` | items and the text of a macro, both ways |
| `MacroCode`, `MCMacroCode` | `Macro.cpp` (build, recognize, simplify), `hidpp10/` and `hidpp20/MacroFormat.cpp`, `tools/profile/ProfileXML.cpp` (macros) | what becomes of a macro between two profile files, through a device's byte code, and what the device plays |
| `Sensor` | `hidpp10/Sensor.cpp` | resolutions and what stands for them |
| `ProfileFormat` | `hidpp10/ProfileFormat*.cpp`, `hidpp20/ProfileFormat.cpp`, both `ProfileDirectoryFormat.cpp`, `hidpp/Setting*.cpp`, `Enum.cpp`, `Field.h` | the bytes of a profile, both ways |
| `PersistentProfiles`, `MCPersistentProfiles` | `tools/hidpp-persistent-profiles.cpp`, `hidpp10-load-temp-profile.cpp`, `profile/ProfileXML.cpp` | runs of the profile tools on one mouse |
| `EventQueue` | `misc/EventQueue.h`, `tools/common/EventQueue.h` | the queue, its mutex and condition variable |
| `TouchpadDriver`, `MCTouchpadDriver`, `TouchpadProofs` | `tools/hidpp20-raw-touchpad-driver.cpp`, `hid/DeviceMonitor_linux.cpp`, `hidpp20/ITouchpadRawXY.cpp` | the driver with its threads |
| `ReportDescriptor` | `hid/ReportDescriptor.cpp`, `Dispatcher::checkReportDescriptor` | which HID++ reports a device has |
| `ToolCalls` | the register and feature interfaces, the other tools | the calls each tool makes |
| `DeviceTools`, `MCDeviceTools` | the same, `hidpp/Device.cpp`, `hidpp20-mouse-event-test.cpp` | two runs of them on one mouse |

`IMemory` is checked to implement `PageStore`, and `MemoryMapping` uses
`PageStore` as its device: the two runs together say that a mapping over real
data packets behaves as the mapping module says. Likewise `DispatcherThread`
implements `AsyncCalls`, which is what `HIDPP10::Device` relies on when it waits
for an answer; `IMemory` uses the single-threaded form of that, a `get` that
takes the first report with its key and skips the others. `TouchpadDriver` EXTENDS
`EventQueue` and makes its steps part of the main thread's; `PersistentProfiles`
uses `ProfileFormat`, and that `Sensor`, for its pages; `DeviceTools` composes
`ToolCalls` and `ReportDescriptor` with a device and two programs. The pages of
`PersistentProfiles` are written whole, which is what `MemoryMapping` promises, and
its macros are an instruction and an `End`, because longer ones are `Macro`'s.

### DispatcherThread

Every call of `sendCommand` or `getNotification` is an actor with a program
counter: `idle` → `locked` (holds the command mutex) → `written` → `pending`
(has the `AsyncReport`) → `blocking` in `get` or `timed` in `get (timeout)` →
`returned` or `timedout`; `refused` when `_stopped` was set, `failed` when the
write threw. The thread in `run` has its own: `loop` (tests `_stopped`),
`reading` (in `readReport`), `processing` and `event` (in `processReport`),
`delivering` (inside `processEvent`, holding the listener mutex, one handler per
step), `leaving`, the two sweeps that fail what is left, `done`. `stop` is two
steps, because the flag and the byte in the pipe are.

A critical section that does not block is one action. Two sections do block, the
command write and the delivery of an event: there the mutex is held while the
program counter says so. The two mutexes are therefore predicates
(`CommandMutexFree`, `ListenerMutexFree`) and not variables.

`response` is the promise; `notifications` and `listeners` are sets, because
nothing depends on their order; `commands` is the list, because the first match
of a key is taken. A report is a record of a kind, a key and, for the
properties only, the command that caused it (`origin`). The device answers
requests of one key in order, others in any order; it may lose a request, send
events and reports of other protocols, and be unplugged at any time.
`sendCommandWithoutResponse` writes without taking a lock and keeps no state, so
it is the device answering nothing. A handler may return false (it is then
removed) or be unregistered by its owner; what it calls on the dispatcher is not
modelled (calling it back under its own mutex is a self-deadlock that the
comments leave to the user).

### SimpleDispatcher

Everything happens in the thread that calls. `waiting` is the call in progress: a
`get` for a command or a notification, with or without a timeout, or `listen`.
`Read` takes one report and does what `getReport` and its caller do with it: end
the wait, or give it to the handlers and go on, or ignore it. The pipe holds one
byte for each `stop`; `ReadInterrupted` takes one when the device has nothing.
Requests are named, so that a report can be traced to the call that caused it
(`OwnAnswer`, `AnswerKept`), which the code cannot do. That no event has the key of a
request (`RequestAssumption`, here and in `DispatcherThread`) is what the software ID and
the sub IDs of requests are for. SimpleDispatcher.h:27-39
asks that nothing else is in progress while a command is: `NoneInProgress` is that
precondition, and the guard of the calls.

### IMemory

A byte of data is the pair of the write it belongs to and its index, so that a
mixed, shifted or stale page is visible. A process opens the device (ping),
writes pages (erase, reset of the sequence number, packets with
acknowledgements), reads, and may be killed at any point with its requests and
replies still queued; up to `MaxSessions` processes follow each other. The device
handles requests in order and may refuse any but the ping. `greeted` and
`exposed` are history: whether the answer to the ping was to this process's own,
and which pages have a write that did not return.

`ImplementsPageStore` is the refinement. It, and `ReadsWhatIsStored`, speak of
processes that were `greeted`: answers carry only sub ID and address, so that when two
processes are killed before their answers, the third can take the ping answer of the
second for its own, and from then on every answer and acknowledgement one request too
early. Such a process's reads, and its writes that return, promise nothing; the next
process that gets its own ping answer is right again, and `exposed` keeps the pages that
the others may still change. Sequence numbers are bytes: a page is at most 256 packets
(`SizeAssumption`; the code's pages of 512 bytes take 33), so that they do not come round.

### MemoryMapping

`cached`, `data` and `modified` are the map of pages. `Emplace` and `ReadPage`
are separate because the code makes the entry before it reads; `ReadPageFails`
leaves it. `sync` writes modified pages in address order, adding the CRC, and
clears a flag after its write; `WriteFails` throws out of it. A process may end
anywhere and another start. `unread`, `spoiled`, `touched` and `inherited` are
history variables: a page whose read failed, or met a page half written, is
exempt from what `CacheIsStored` and `OthersKept` say.

### Macro

An item is `[op, len, dest]`, a byte in memory tells which byte of which item it
is. Macros are written one after another from the address the last write
returned, as `tools/hidpp-persistent-profiles.cpp` does, then parsed. The
look-ahead of `write` (does the item fit with a jump and a CRC after it; if not,
does the rest of the macro fit in the page), the padding of jump destinations to
addressable positions, the move to the next page with its jump, and the parser's
stack of jump destinations with its map of parsed addresses are as in the code.
`Wild` is an address computed from iterators of two different pages, which is
undefined; the assertion on line 355 is a choice, since release builds have none.
`ProgramAssumption` says what the format's items are: none is empty, jumps lead to items
of their own macro, an item, a jump and the CRC fit in a page, and `End` with its padding
is no longer than a jump.

### MacroCode

`element` is a `<macro>` of a profile file: a text, or the three texts and the
delay of a loop. `ReadMacro` turns it into a list of items with `TextToMacro` and
`buildSimple` or `buildLoop` (or refuses it), with each item's parameters; code is a
list of bytes, a jump's destination is an index into the list of items. One
behaviour writes the items one by one (`WriteItem`, with the padding of
destinations), fills in the addresses, parses byte by byte, simplifies, and then
plays the macro as `Macro.h:58-190` describes the instructions, with the button
released at any moment. `Encoded` and `ParseItem` are the two formats' `writeItem`
and `parseItem`; where HID++ 1.0 splits an item with modifiers and a key into two,
or HID++ 2.0 joins what the macro has apart, the macro that is parsed differs
from the one that was written, and the properties compare effects, not items.
`PartsKept` also prints the parsed macro (`PrintedElement`) and reads it again.

In a text, keys, controls and numbers have one value for all their spellings and a
list separated by `+` is a set of bits, because what can go wrong is the list and
the label, not the table of names.

### ProfileFormat and PersistentProfiles

A page is a function from offsets to bytes. A format's `write` is the sequence of
its pieces in the order of the code, so that a field that overlaps another (the
color, `unknown0` and first mode of a G9) is overwritten as it is in the mouse;
`read` is a record. `Lookup` is `SettingLookup::get`: a missing or invalid setting has
its default. `Reread` and `HasText` say what `ProfileXML` makes of the text of a
value; the text itself is not there.

A run of the tool reads a document (`Start`, which refuses it where `readSetting` or
`readButton` throws), lays out one profile and its macros per step (`LayOut`, with
`macro_address` going on from one to the next), then the directory, and syncs page
by page in the order of addresses. It may be killed between any two of these, an
exception ends it in the middle (`threw`), and what is undefined behaviour ends it
(`died`) or goes on with junk. `Dump` reads the mouse, and `WriteDump` runs the
tool on what was printed. `LoadTemporary` is the other tool, which puts a profile
and its macros in page 0 of RAM.

### EventQueue and TouchpadDriver

`popping` says where the popping thread is: it holds the mutex between its test and
its wait (`tested`), and only there from one step to the next. `Interrupt` and
`Notify` are the two steps of `interrupt`, neither of which takes the mutex.

The monitor thread enumerates the nodes that are there and then takes the events
of udev, which queues them from before the enumeration; either makes
(`AddNode`) or destroys (`EraseNode`) the driver of a node. What a constructor or
destructor of a driver does is a list of steps in `work` of its thread: `probe` (the
queries that fail if there is no touchpad), `listen`, `enable`, `disable`,
`unlisten`, `emplace`, `adopt`, ... in the order of the code, with the exceptions that
unwind it (`Fail`). Between two steps anything else may happen. The handler of a
receiver's connection events queues tasks, which the main thread turns into
`work` of its own, on a driver that may be gone by then: that is a step to
`Undefined`, after which the program has crashed or goes on. `MultiTouch` is a report of
two points: a finger that stays keeps its tracking id, one that comes gets `next_id`.
`since` counts, for each contact, the ids given from its own on (history). Nodes and wireless
touchpads come and go, and fingers move. A link that comes or goes and its
notification are one step.

### ReportDescriptor

`FromRawData` folds `ParseItem` over the items of a sequence of bytes: the stack of
global contexts, the local context that ends with each main item, delimiters,
nested collections, and the places where the parser throws.
`CheckReportDescriptor` takes the result through the two schemes of collections.

### ToolCalls and DeviceTools

A tool is a script of calls. Each call has what the program does about an error
of the device (it ends in an exception, ends with an error code, or skips as many
calls) and what it does with the answer (nothing, keep it, write it back, list
it, take it for a version, ...). `DeviceTools` runs two of them on one mouse. A run
sends a request (`Send`), the device processes requests in order (`Process`) and
puts each answer in the inbox of every run that has the node open, because that is
what hidraw does; `Receive` takes the first report that could be the answer, by
device index and feature and function or register (`Matching`), since all processes have
the same software ID. A run on a wireless device first makes an `HIDPP10::Device` of
its receiver, which pings it with a time-out of its own and must have protocol version
1.0 (`ReceiverPing`), then asks it for the pairing information, and pings the device last. `misled` remembers a run that took an answer unlike its own, `stale` a value
that was written back after another run had changed it.

hidpp20-mouse-event-test has its handlers, whose constructors take over the mouse
and whose destructors put it back by commands of their own, its two listeners, and
SIGINT: a byte in the pipe of `SimpleListener`, or an interrupted event queue of
`ThreadListener`. A run may be killed, a ping may time out, the mouse may be
unplugged.

## 3. Runs, bounds and what they show

| Run | Module | Bounds | Properties |
|---|---|---|---|
| `dispatcher_commands` | MCDispatcherThread | 3 commands, two of one key; no notification or handler | `TypeOK`, `NoOrphan`, `NoneLeftBehind`, `TimeoutLosesNothing`, `OwnAnswer`, `ResolvedOnce` |
| `dispatcher_events` | MCDispatcherThread | 1 command, 1 notification, 1 handler, 1 unsolicited report | `LateAnswersOnly`, `NoCallAfterUnregister`, `ImplementsContract`, `StopEndsRun`, `StopReleasesCallers` |
| `simple` | MCSimpleDispatcher | 2 commands of one key, 1 notification, 1 handler, 1 unsolicited report, 2 calls of `stop` | `OwnAnswer`, `AnswerKept`, `EventsReachHandlers`, `StopEndsWait` |
| `memory` | MCIMemory | 2 pages, 1 content, 6-byte pages in packets of 4 (the first has 2 bytes of data), 5 processes | `ReadsWhatIsStored`, `ImplementsPageStore`, `CallsEnd` |
| `mapping` | MCMemoryMapping | 2 pages of 2 fields, 2 values, 2 processes | `CacheIsStored`, `OthersKept` |
| `macro` | MCMacro | all macros of at most 4 items followed by a looping one, all even positions in a 14-byte page, 4 pages, HID++1.0 alignment | `CrcKept`, `ReadsBack`, `ParseBounded`, `SimplifySafe` |
| `macro_code` | MCMacroCode | both formats; each item alone and repeated, with the values where bytes, signs and roundings change; loops whose three parts are empty, one item or two, without and with a delay; three advanced macros; the button is held for at most 9 effects | `LengthExact`, `PartsKept`, `PlaysItsParts` |
| `loop_without_epilogue` | MCMacroCode | the same | violation of `PartsMayBeEmpty`, see 6 |
| `profiles` | MCPersistentProfiles | 6 mice: G9, G500, G700, and three HID++2.0 ones with different capabilities; 4 documents for HID++1.0 and 3 for HID++2.0; 7 pages; 4 runs | `ReadsBack`, `DumpRestores`, `NamedProfilesStored` |
| `touchpad` | MCTouchpadDriver | a receiver with one touchpad, a touchpad of its own, a node of neither kind; six budgets of what may happen | `RawIsHeard`, `SettledPadsWork`, `TouchesShown`, `QuietRunIsDefined`, `InterruptEnds` |
| `lost_wakeup` | MCTouchpadDriver | one SIGINT | violation of `InterruptEndsPop`, see 6 |
| `tools` | MCDeviceTools | 33 situations: a mouse, two runs of tools, and how many signals, presses, kills, unpluggings and time-outs there may be | `OneAfterTheOther`, `OneSignalIsSafe`, `ListsThemAll`, `ButtonShown`, `RunsEnd` |

What the properties say:

* Dispatchers. `NoOrphan`, `NoneLeftBehind`, `ResolvedOnce`: a promise is listed until
  it is set, set once, and by the end of `run` at last. `TimeoutLosesNothing`,
  `AnswerKept`: giving up loses no answer. `OwnAnswer`: an answer goes to its own
  command unless an earlier one of its key was given up. `LateAnswersOnly`: what
  handlers hear besides events are answers that came too late.
  `NoCallAfterUnregister`, `EventsReachHandlers`: a handler hears every event while
  it is registered and none after. `StopEndsRun`, `StopReleasesCallers`,
  `StopEndsWait`: no stop is lost. `ImplementsContract`: all of it is a behaviour of
  `AsyncCalls`.
* Memory. `ImplementsPageStore`: whatever was killed or refused before, a page write
  that returned is on the device. `CacheIsStored`, `OthersKept`: the cache agrees with
  the device after any number of failed calls of `sync`, and changes nothing else.
* Macros. `CrcKept`, `ReadsBack`, `ParseBounded`, `SimplifySafe` as section 1 says;
  `LengthExact`, `PartsKept`, `PlaysItsParts`: the code is as long as it was taken to
  be, the parts are found again, and the device plays them, however long the button
  is held.
* Profiles. `ReadsBack` (what `Shown` lists as different is what the formats do
  change), `DumpRestores`, `NamedProfilesStored`.
* Touchpads. `RawIsHeard`, `SettledPadsWork`, `TouchesShown` (each report of two
  points in any order leaves uinput with the right contacts, tool and touch buttons, and two
  contacts with two ids, unless one of them has stayed while 2^16 others came),
  `QuietRunIsDefined` (undefined behaviour takes a device that goes away, a node that
  comes before the enumeration, or one announced while its receiver's driver is built), `InterruptEnds`.
* Tools. `OneAfterTheOther`: the settings in the mouse are those of some order of the
  runs, unless a value written back was stale or a run was misled.
  `OneSignalIsSafe`: a test ends in an exception only if the device failed it or a
  signal came before it listened, or twice. `ListsThemAll`: features, page lines,
  reports and device indices are complete. `ButtonShown`: the last state shown is that of the button.
  `RunsEnd`.

Why these bounds are enough to be worth checking:

* Three commands are what `OwnAnswer` needs: one disturbed, one of the same key
  behind it and one of another key that is matched in between. A notification, a
  command and a handler are the three kinds of thing a report can be given to.
  The theorems of section 5 hold for any number of all of them.
* Two commands of one key are the case where a dropped or timed out command can
  leave an answer to the next one; a second `stop` is the one nobody waits for.
* Two pages, of which one is being written when the process is killed; two packets per
  page, the first of which has a header; five processes, so that two that are killed
  leave a third that is not greeted, whose write returns too early and is seen by a
  fourth that is greeted and a fifth after it. Theorems of section 5 hold for any
  number of pages, packets and processes.
* Two fields, one of which is changed; two processes, so that one reads what
  the other left half written.
* Pages of 14 bytes hold two or three items, so that macros of four items cross
  pages with and without a conditional jump at each distance from the end.
* The parts of loops have items of one, two and four bytes of code in HID++ 1.0, so
  that each jump destination falls on odd and even positions; holding the button
  for 9 effects repeats every loop at least twice. The advanced macros have jumps
  in both directions, a label given twice, and one that is missing.
* Profiles: pages are 96 bytes for HID++1.0 (the largest profile has 78) and 256 for
  HID++2.0. The documents give all settings, a few, or none; no modes, one, two, or
  six (the limit is five); no buttons, fewer or more than there are; macros that
  stay in a page and some that must move to the next; limits and values between two
  steps of a sensor. Four runs are a document, another that is cut, a dump and its
  way back. An undefined search comes to one index in the list (`Junk`) or the end
  of the tool.
* Touchpads: what may happen at once is in `MCBudgets`, each with the number of times
  a node, a link, a finger, a signal and a spurious wake-up may come; together they
  have nodes that come and go twice or thrice with and without wireless touchpads,
  links before, during and after the enumeration, and every succession of four reports. `IdRange` is 2 instead of 2^16, so that the tracking ids come round within
  a budget: without the exception `TouchesShown` makes for it the run has a counterexample.
* Tools: each of them is in one situation at least, most that change something beside
  another that changes the same thing. A page has 2 lines of 16, hidpp-list-devices
  tries 2 wireless indices of 6, hidpp-list-features 4 registers of 256, because each
  index, line and register is tried on its own. The nine report descriptors have both
  schemes, all three reports, and what the parser passes over or throws at.

Deadlock is not checked: in every module a user may simply stop calling, and the
programs end for good.

Bounded by a guard: `MaxUnsolicited` (reports the device sends on its own),
`MaxStops` (calls of `stop`), `MaxSessions`, `MaxProcesses` (processes),
`PageCount`, `LastPage` (pages of a device), `MaxPlayed` (effects while the button is
held), `MaxRuns` (runs of the profile tools), `left` in `TouchpadDriver` and
`DeviceTools` (what may still come from outside).

## 4. Fairness

`DispatcherThread!Fairness`: the thread in `run` is scheduled; so is a caller
that holds the command mutex, is inside `stop`, or waits in `get` for something
that has come; a timeout expires. Each is a step of a running thread that waits
for nobody else. Nothing makes a user call anything or a device answer: the three
liveness properties hold although the device may stay silent.

`SimpleDispatcher`: the thread that reads is scheduled (weak fairness of `Read`). The device's reports go before the pipe, so that
`StopEndsWait` rests on `MaxUnsolicited`: a device that never pauses keeps `listen`
and `get (timeout)` from returning, as SimpleDispatcher.h:38 says of the timeout.

`IMemory!FairSpec`: the device handles the requests it received and the process
reads what has come. The second is the loop of `get`; the first is an assumption
about the device that the code makes too: `sendDataPacket` and the register
accesses wait without a timeout, so without it nothing ends.

`TouchpadDriver!FairSpec`: the main thread, the monitor thread and the thread that runs
the signal handler between its two steps are scheduled. Nothing makes a device or a
finger do anything. `main` waits without a step of its own while the queue is empty,
so that this is fairness of the scheduler, not of wake-ups: a notification that came
before the wait is lost, and `InterruptEnds` says so (`missed`).

`DeviceTools!FairSpec`: one weak fairness of all programs and the device together
(`Works`). It is enough because each run has finitely many steps between two events
from outside, and weaker than fairness of each: the device answers what it receives
unless it is unplugged, and a program that has something to read reads it. The calls
of the tools wait without a timeout, so a device that is silent would keep them.

## 5. Proofs

TLAPS checks the theorems below for every value of the constants that satisfies the
named assumptions of the modules, which TLC evaluates on the instances. "Inv" is the
inductive invariant of its module: initial states satisfy it, each action keeps it, and
the safety properties follow from it without a further step.

| Module | Theorem | Says |
|---|---|---|
| `DispatcherThreadProofs` | `TypeCorrect` | `Spec => []TypeOK` |
| | `PromisesKept` | `Spec => []PromiseInv`, its Inv |
| | `NoFutureIsOrphan`, `NoFutureIsLeftBehind`, `NoAnswerLostToTimeout`, `HandlersNotCalledLate` | `NoOrphan`, `NoneLeftBehind`, `TimeoutLosesNothing`, `NoCallAfterUnregister` always hold |
| | `PromiseSetOnce` | `Spec => ResolvedOnce` |
| | `ContractImplemented` | `Spec => ImplementsContract` |
| `DispatcherAnswerProofs` | `AnswersInOrder` | Inv of the answers |
| | `OwnAnswerGiven`, `HandlersHearLateAnswers` | `OwnAnswer`, `LateAnswersOnly` always hold |
| `SimpleDispatcherProofs` | `DispatcherCorrect` | `Spec => []Inv` |
| | `OwnAnswerTaken`, `AnswerNotThrownAway`, `HandlersMissNothing` | `OwnAnswer`, `AnswerKept`, `EventsReachHandlers` always hold |
| `IMemoryProofs` | `MemoryCorrect` | `Spec => []Inv` |
| | `ReadsAreRight` | `ReadsWhatIsStored` always holds |
| | `MemoryImplementsPageStore` | `Spec => ImplementsPageStore` |
| `MemoryMappingProofs` | `ProcessCorrect` | `Spec => []Inv` |
| | `CacheCoherent`, `OtherFieldsKept` | `CacheIsStored`, `OthersKept` always hold |
| `MacroProofs` | `WriterHasRoom` | `Spec => []Inv` |
| | `CrcIsKept` | `CrcKept` always holds |
| | `PathsAreKept` | `Spec => [](PathsInv /\ NothingParsed)`, its Inv for the parser |
| | `MacroReadsBack`, `ParserIsBounded`, `SimplifyIsSafe` | `ReadsBack`, `ParseBounded`, `SimplifySafe` always hold |
| `TouchpadProofs` | `TouchStateRight` | `Spec => []TouchInv` |
| | `FingersShown` | `TouchesShown` always holds |
| | `DriversAccounted` | `Spec => []RawInv`: the account of the handlers |
| | `RawPadsHeard` | `RawIsHeard` always holds |
| | `QuietRunsKept` | `Spec => []QuietInv` |
| | `QuietRunsDefined` | `QuietRunIsDefined` always holds |

The device of `MemoryMapping` is made of the actions of `PageStore`, which
`MemoryImplementsPageStore` shows `IMemory` to implement: what a mapping
is proved to keep over the contract, it keeps over the packets of `IMemory`. All the
properties of the runs `dispatcher_commands`, `dispatcher_events`, `simple`, `memory`,
`mapping` and `macro` but the liveness ones are theorems, and so are three of the four
safety properties of `touchpad`.

### Promises and lists (DispatcherThread)

`NoOrphan` alone is not inductive. That an unresolved future is
listed survives the sweeps only because `_stopped` is set before them under no
lock, while `sendCommand` tests it under the command mutex: a command that passed
the test holds the mutex until it is in the list, so the sweep, which takes the
same mutex, sees it. `PromiseInv` says so: after the sweep of the commands no
command is between its test and its insertion (`CommandInv`), whatever is listed
has a caller that can still be answered, a listed promise is unset until the
sweep of its own list, a notification is in its list exactly when its handler is
registered (`NotificationInv`), a call that did not return has an unset promise
(`CallInv`), and the sweeps happen under `_stopped` (`RunInv`). `ResolvedOnce` and the
refinement then go action by action with the invariant as a hypothesis.

### Whose answer (DispatcherThread, SimpleDispatcher)

In `DispatcherThread` the order of the requests carries the argument. A command is
written and listed under one mutex, so the list has the order of the writes
(`WrittenInv`); the device deals with the requests of a key in order (`FateInv`), and
its reports come in that order (`InputInv`). The first entry of the list that matches a
reply is then its own command or, if that one has timed out or an older reply was lost,
a younger one with an equal request, and the reply that such a command misses is the
next one's (`ReplyInv`). `LateAnswersOnly` needs the converse, that a reply nobody in the list
matches has a command of its key that timed out: as many commands of a key as have a
reply are set or were given up, which is a pigeonhole argument on the order. Both
use `RequestAssumption`: no event looks like an answer.

`SimpleDispatcher` has one wait at a time (`WaitInv`), so there its own reply is the only
one with its origin in the queue (`InputInv`), and it is there while the command waits
(`KeptInv`). `EventsReachHandlers` is an equation of counters: events sent since a
handler was registered are those it was called with and those still queued
(`EventInv`), and `QueueFacts` has what `Append` and `Tail` do to such a count.

### Pages (IMemory, MemoryMapping)

A greeted process and the device take turns (`LockStep`): there is one request or one
reply, of the kind the process waits for, and it says how far the job is. It is greeted
only if its own ping came back, and the ping comes after everything the processes before
it left (`PingInv`). What is left of others may change only pages that are exposed
(`Harmless`), and the device, once it took a page's last packet, expects a sequence
number that no packet of a page has (`CursorInv`), which is where the 256 packets
come in. For the refinement, a return from a write of a greeted process is
`PageStore`'s commit, its other steps stutter or damage an exposed page.

A mapping adds its cache: where a page is not the device's, it is modified
(`CacheIsStored`), or its write never ended and it is still modified or of an earlier
process (`ExposedInv`); a field that was never changed has its origin in the cache and on
the device alike (`OriginInv`); and `sync` is past the pages below its own (`ProcessInv`).

### Room in a page (Macro)

While `check_end_of_page_jump` holds, each item leaves room for a jump and the CRC
after it; once it is given up, all the items that follow were found to fit, each with
its padding (`RoomInv`, `Fits`). The look-ahead is a recursive function of the position,
and the proof is by induction over the items, as a fact about sets of numbers
(`SetInduction` in `QueueFacts`), because the library's theorem of induction takes an operator. That `End` and its
padding are no longer than a jump is used where the last item is not checked
(`Macro.cpp:339`).

### Paths through the pages (Macro)

That a macro is read back is a statement about memory, which the parser does not
change, and one about its list. In memory every item has one first byte
(`ItemsInv`), and whoever reads where it ends `Reaches` the next item: it is there, or
behind one byte of padding, or where a jump between pages leads (`ChainInv`); jumps
lead to the first byte of their destination unless their address was computed across
pages (`JumpsInv`). Each item that is written is `Added` behind the frontier, beyond
which everything is free, so that nothing that was written changes (`FirstKept`); the
next item is put where the last one ended, or a jump to it is (`PathInv`). At the end of
a macro only the addresses in jumps change (`ResolvedCells`).

The parser is described by two functions that it does not keep: `loc`, where each
item of its list was, and `first`, where the run of items began in which it was read
(`ListInv`). Every run begins at the start or where a jump of the list leads, at an
address that was not parsed before, and goes forward in one page. So the item that
follows in the list is the one that follows in memory (`ReadPath`), which with `ChainInv`
is `ReadsBack`. And one run passes an item at most once, so that `first` is an injection
of its occurrences into the start and the addresses of jumps: `ParseBounded`. What is
left of the stack is a recursive function of it, and so is what is executed at an
entry; `UnparsedFacts` and `ExecutedFacts` give their values by `SetInduction`.

`WrittenInv`, `ReadInv`, `ListInv`, `RunInv` and `ReadPath` were also checked by TLC on the
instance of the run `macro`, with `loc` and `first` as history variables.

### Fingers and ids (TouchpadDriver)

The id of a contact is `since` behind `next_id`, modulo their number, and no two contacts
are as far behind; so their ids differ while neither is further than all ids (`IdInv`).
`Shown` is what the slots, the count and the buttons are for each pair of points.

### A touchpad in raw mode is heard (TouchpadDriver)

`RawIsHeard` relates what a device was told to what the program has, while two threads
are in the middle of constructors and destructors, so the invariant has to know what
either has still to do. `ListInv` gives the form of these lists (`Shape`): a
constructor or destructor of an object is there whole from its present step on
(`Chained`, `Paired`), nothing that is being built is undone by a later step of the same
list (`Ordered`), a driver is adopted by the last step of what builds it and no step on it follows
the one after which it is gone (`AdoptLast`, `GoneLast`), and no step is there twice
(`Distinct`). It also says which thread may have which steps: only the main thread
erases, only the monitor thread adopts, and the drivers that are left are destroyed
after it has ended.

`Owned` is the account that each driver keeps per touchpad: the objects it has (`Has`)
and those that a thread is about to add or has begun to remove (`Claims`, of both
threads) are no more than its handlers (`heard`) that are not down to `~Driver` (`dying`).
So the step that removes one takes none that somebody else counts on. `Heard` is the
property itself, strengthened: some driver has more such handlers for a touchpad in raw mode than
there are constructors that listen to it but did not switch raw mode on yet (`Switches`). Without
this the step `enable` that fails, whose handler is then removed, might take the last one. `RawInv` is all this
together with `NodeInv` (the entries of `_nodes` are drivers that are not gone, and not those
being built) as long as nothing undefined was done. Touchpads that `~TouchpadDriver` failed to reach are
`unreached`, which is the exemption of `RawIsHeard`.

The proof goes by what a step does to the lists: it is taken from its own list (`Taken`),
fails and is replaced by what unwinds its object (`Replaced`), or new steps are put
before the rest (`Joins`); the account is then settled for each kind of step.

### Quiet runs are defined (TouchpadDriver)

`QuietRunIsDefined` says that undefined behaviour takes one of the happenings named by
`disturbed`. `QuietInv` says what holds while there was none. A node gets one driver and is not enumerated again
(`OnceInv`): the monitor thread has the path of a node from `found` or from `udev`, and never both. So the monitor
thread works on the last driver, which is not live yet, the main thread on live ones,
until the monitor thread has ended and the main thread destroys them all (`StateInv`): no
step of one is on a driver of the other, and none is on a driver that is gone. A driver has touchpads of its own node only, and those that answered are still in reach
(`PadInv`), so that no destructor fails half-way; hence the object that is down to
`~Driver` is the one whose handler is removed next, and the touchpad has left raw mode, so
that no event finds it (`DyingInv`). The invariant is proved relative to `RawInv`.

These theorems need two assumptions beyond those on paths: nodes and touchpads are
finitely many (`FiniteAssumption`; the tasks for the touchpads of a receiver are a
sequence of them), and what is plugged in at the start are nodes (`BudgetAssumption`).
They hold for any number of receivers, touchpads and other nodes and for any budget of
events, where the run has six. `RawInv` and `QuietInv` were first checked by TLC on the instance
of the run `touchpad` and with larger budgets.

### Not proved

* The liveness properties (`StopEndsRun`, `StopReleasesCallers`, `StopEndsWait`,
  `CallsEnd`, `InterruptEnds`, `RunsEnd`): fairness and ENABLED are out of the prover's reach.
* `DeviceTools`: it uses `ReportDescriptor`, which has a recursive operator, and the prover
  loses its arithmetic in such a module.
* `MacroCode`, `PersistentProfiles`: their properties compare two long computations on
  given documents, so that a proof would be one of each format's tables.
* `SettledPadsWork`: it follows a task from the announcement of a touchpad to its
  driver, over the lists of both threads, the queue and the nodes still to be
  enumerated; its invariant would say of every touchpad in reach who has still to
  find it. `RawIsHeard`, which is proved, is about the other direction.

## 6. Where the code and its words differ

Two are runs that TLC ends with a counterexample:

* `lost_wakeup`: `EventQueue.h:91-95` says that after `interrupt` "the current and future
  calls to pop() return immediately". `interrupt` takes no mutex (it is called from a
  signal handler): between the test and the wait of `pop` its notification is lost,
  and the driver waits until the next task (`EventQueue.h:99`).
* `loop_without_epilogue`: a delayed loop with an empty epilogue gets a jump to
  `list::end ()`, which is written as address zero (`Macro.cpp:627`, `631`);
  `Macro.h:401` says that any part may be empty.

Others were met while modelling. The modules have the code's behaviour, and the
properties name it as what they exempt:

* `buttonMask` goes on from the `+` it has found (`UsageStrings.cpp:535`), so that the
  second button of a list is an empty number and an exception; profile_format.md
  calls a list of buttons separated by `+` valid. `PartsKept` and `DumpRestores` exempt
  what is refused for that reason.
* A HID++2.0 answer that comes after its command timed out has an index below 0x80
  and is delivered to handlers (`DispatcherThread.cpp:250`); `Dispatcher.h:108` says they
  are for events (`LateAnswersOnly`).
* `getPage` makes the map entry before `readPage`; when that throws, the next `getPage`
  returns zeros that were never read (`AbstractMemoryMapping.cpp:64-67`; `unread`).
* The address of a jump destination that is moved to the next page is computed from
  the page that was left (`Macro.cpp:323`, `376`; `WildJumps`), and the assertion at
  `Macro.cpp:355` demands more room than the check at 332 leaves (`AssertFails`).
* `ListSensor::fromDPI` takes resolutions for indices (`Sensor.cpp:55`): every resolution
  inside the list of a G9 is undefined behaviour (`FromDPIDefined`).
* The G500 and G700 formats write `angle_snapping` inverted
  (`ProfileFormatG500.cpp:167`), and `insertButton` prints one byte of a consumer
  control: a dump does not restore either (`Again`). HID++2.0 `write` throws on a
  device that has no DPI shift, and reads buttons the profile
  does not have (`Throws20`, `Write20Defined`).
* The touchpad driver builds a second driver before it destroys one of the two, whose
  destructor then switches raw mode off for both (`twice`).
* Tools write back what they read some calls before, and all processes use one
  software ID, so that two tools may take each other's answers (`stale`, `misled`).

Three things that are as the code has it but are not promised otherwise: the last
item of a macro is not checked against the end of the page, so `CrcKept` and
`ReadsBack` are about macros of more than one item that end with `End`;
`simplify` redirects copies of the jumps, so `SimplifySafe` says only that padding
and jumps between pages can be removed; and when `SimpleDispatcher::stop` is called
twice, the second byte ends the next wait, so that a later `get ()` throws
`TimeoutError` although it has no timeout.

## 7. What is not modelled

* Calls and exceptions of user handlers, and the thrown value of `_exception`
  (read and written without a common lock).
* The Windows port, errors of single system calls (opening devices, udev, uinput),
  copies of `RawDevice`, the Linux kernel's limit on queued reports.
* Payloads that are only printed: device information, feature flags, control tables,
  the contents of `Log`. `IBatteryLevelStatus`, profile and resolution selection of
  `IOnboardProfiles`, `try_pop` and `resetInterruption` have no caller.
* Options, output, the syntax of XML, the spelling of names and numbers, the tables
  of names, the polynomial of the CRC (two constant bytes, or a flag).
* Macros: the copy constructor; parameters that do not fit their field (a delay of
  2^16 ms or more, a wheel outside 8 bits), which the code truncates silently; items
  without effect (NoOp), which `simplify` could remove from under a jump; a line of
  text with too few parameters (undefined behaviour).
* Profiles: what a dump makes of a mouse whose sync was cut; special actions without a
  name; macros of odd length in HID++1.0; reading pages on demand (the mapping's copy
  of the pages is taken at the start, as nobody else writes then). Several buttons
  in one mask are refused, which ends the run.
* Touchpads: positions and pressures; a uinput that cannot be created.
* Tools: `hidpp10-dump-page` and `hidpp10-write-page` on their own (one call of `IMemory`
  each); data that is no multiple of 16 bytes, resolutions of 65536 or more, failures of
  standard input; the profile events of the mouse event test; the raw-XY flag of
  hidpp20-reprog-controls; `hidpp20-led-control` only parses a state it is told to set,
  and so it does here. The device's part is what the tools rely on: unknown flags are
  not stored, a resolution of 0 leaves the old one, a page write goes to the pointer of
  the last `memoryAddrWrite` of any process, is refused after its last line, and
  `memoryWriteEnd` changes nothing; when it is refused, that is a hardware error, which
  hidpp20-write-page lets pass.
* Report descriptors that pop more contexts than they push or have a field before
  their first collection are undefined behaviour of the parser and no inputs.
* HID++2.0 page writes of the memory mapping are represented by the `PageStore` contract
  only; line by line they are in `DeviceTools`.

## 8. Plan

1. Theorems: `SettledPadsWork`; the queue of `EventQueue`; lemmas of `Sensor` (limits, the nearest resolution).
2. `IOnboardProfiles` lines as a second implementation of `PageStore`.
3. The values of `_exception`, and handlers that call the dispatcher.
