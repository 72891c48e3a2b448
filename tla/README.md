# A specification of SomethingsWrong

SomethingsWrong watches a build server, a web service and the clock, and lights
a lamp and plays a sound when something is wrong. A C# program polls its
*monitors*; its *alerts* play a file or run a small *controller* program that
sends a USB request to a *device*, an AVR with a lamp on pin PB0. The hard parts
are concurrent: the lamp is switched by two kinds of threads and by processes
that may hang, fail, or outlive the program that started them; the firmware
shares its buffers with an interrupt handler without a lock; and the benchmark
program that comes along with libusb keeps a ring of transfers in flight.

This directory holds TLA+ modules for the repository's own logic, instances of
them for TLC, and proofs that TLAPS checks.

    tlc -config MCFlashLight.cfg MCFlashLight.tla       a run
    tlapm FlashLightProofs.tla                          the proofs of a module

## 1. Inventory

| Component | Source | State | Operations | Hard behaviour | What makes it correct |
|---|---|---|---|---|---|
| Light alarm | `SomethingsWrong/Hardware/FlashLightAction.cs`, `SomethingsWrong.Lib/AlertAction.cs` | static `_isRunning`, `StatusLockingObj`, `_alarmThread`; one timeout thread for each alarm; the controller process being waited for | `Start`, `Stop`, `IsRunning`, `StopAlarmAtGivenTime`, `Exec` | timeout against `Stop`; `Abort` does not wait; `Exec` holds the lock for up to a minute; processes that outlive `WaitForExit` | the lamp follows the status; every alarm ends, at its time or on request; no thread of an old alarm ends a new one; calls return |
| Detector | `SomethingsWrong.Lib/WrongnessDetector.cs`, `MonitorAction.cs` | `MarkedAsFailing` of each monitor; the places of its loops | `CheckAll`, `PerformMonitorAction`, `StartAlerts`, `StopRunningAlerts` | an alert that throws ends the round; question and answer of `IsRunning` before `Stop` | one announcement for each failure; alerts stop only when all pass; no monitor is starved |
| Standup check | `SomethingsWrong.Lib/TimeCheckAction.cs` | `_nextAlarmNoEarlierThan` | `GetStatus` | three reads of the clock with time between them; calls that come late | once a day, and every day |
| Calendar | `SomethingsWrong.Lib/Calendar.cs` (tests: `CalendarTests.cs`) | none | `IsHoliday`, `TimeIsInsideWorkingHours` | bounds; a list of one year | agrees with the public holidays and hours |
| Program loop | `SomethingsWrong/Program.cs`, `App.config` | the lists, the sleep | the loop of `Main` | exceptions of a round; a date read before a slow round; a restart with the lamp lit | the loop never blocks; no day and no meeting is missed |
| Sound alarm | `SomethingsWrong/Hardware/SoundAction.cs` | none of its own; shares `_isRunning` | `Start`, `Stop` | `Start` may throw | the detector survives it |
| HTTP and TeamCity checks | `HttpCheckAction.cs`, `TCBuildStatusCheckAction.cs` | none | `GetStatus` | time-outs of requests | pure I/O |
| Controller | `AVR/somethingswrong_controller.c` | handles, string buffers | `main`, `usbOpenDevice`, `usbGetDescriptorString` | failed transfers exit with 0; devices with the same numbers; names that are cut or missing | finds the device, talks to no other that names itself, leaks nothing |
| Firmware | `AVR/main.c` | `PORTB` | `usbFunctionSetup`, `main` | watchdog reset | the lamp follows the last request |
| USB driver | `AVR/usbdrv/usbdrv.c`, `asmcommon.inc`, `usbdrvasm12.inc`, `usbconfig.h` | receive and transmit buffers, lengths, tokens, addresses | the interrupt handler, `usbPoll` | handler against poll; lost packets and retransmissions; replies of a multiple of eight bytes | requests are handled once, in order; buffers are not shared |
| Benchmark program | `AVR/libusb/examples/benchmark.c` | the test, one `BENCHMARK_TRANSFER_PARAM` for each thread with its ring of handles, counters | `main`, argument parsing, `Bench_Open`, `CreateTransferParam`, `TransferThreadProc`, `TransferAsync`, `VerifyData`, the status | completion against timeout, cancellation and reset; memory freed while threads may run | transfers are reaped in order; at the end nothing is leaked, or in flight but what could not be cancelled; the test is the one asked for, and ends |
| Bulk example | `AVR/libusb/examples/bulk.c` | a handle, a claim, a context | `main`, `open_dev`, `transfer_bulk_async` | any call fails; timeout against answer | all is given back that the dll lets it give back; a success is printed only of what was read |
| Loader of libusb | `AVR/libusb/lib/dynamic/libusb_dyn.c` | a pointer for each function of the dll | `usb_init`, the wrappers | the dll, or a function of it, is missing | an error of the call, and of nothing else |

How they interact: `Main` calls `CheckAll` every `CheckIntervalInSeconds`;
`CheckAll` calls the monitors and, on the same thread, the alerts. `Start` of
the light creates a thread that will switch the lamp off; that thread and the
main thread exclude each other with `StatusLockingObj`. Both run the controller
as a process, which talks to the device over USB; the driver of the firmware
calls `usbFunctionSetup`. Nothing is persisted. The benchmark and the bulk
example use the same library as the controller, and nothing else of the rest.

## 2. The modules

| Module | Models | State and actions in terms of the code |
|---|---|---|
| `AlarmCycle` | what a light alarm promises | `phase` and `remaining`; quiet, raising, raised, cancelling or expiring, quiet |
| `FlashLight` | the light alarm | see below |
| `AlertPolicy` | what the detector promises | `down`: the monitors that are down; `request`: what the alerts are being told |
| `WrongnessDetector` | the detector | `marked` is `MarkedAsFailing`, `at` the method at work, `monitor` and `alert` the places of the `foreach` loops, `call` the call of an alert in progress |
| `TimeCheckAction` | the standup check | `at` is the place in `GetStatus` between its reads of the clock |
| `Program` | the loop of `Main`, both alerts, the detector and the light alarm | actions are the conjunctions of actions of `WrongnessDetector` and `FlashLight` |
| `Calendar` | `Calendar.cs` | operators over the days of 2014 |
| `OfficeDay` | the loop of `Main` through the days, with `TimeCheckAction` and `Calendar` | `loop`, `sleep` are the loop; `marked`, `light` what is left of detector and alarm |
| `ControllerProcess` | what `FlashLight` assumes of the controller | one command, carried out at most once |
| `DeviceSearch` | the controller | `pc` is the place in `main` and `usbOpenDevice`, `place` the device at hand, `open` the handles |
| `ControlTransfer` | what the firmware promises a host | requests submitted, served, completed or given up |
| `UsbRequests` | the requests, and how a reply is limited and cut into packets | operators |
| `UsbDriver` | `usbPoll`, the interrupt handler, `main.c`, and a host | see below |
| `TransferFifo` | what a transfer thread promises | the queue of transfers in flight |
| `TransferQueue` | `TransferThreadProc`, `TransferSync`, `TransferAsync` | see below |
| `Benchmark` | `main` of the benchmark and the life of its threads | `pc` is the place in `main`, `thread` and `isRunning` those of the threads, `param`, `device`, `verifyBuffer` what is allocated |
| `BenchmarkSetup` | arguments, device and endpoints | `test` is the parameter block, `place` and `open` the search |
| `LibusbDyn`, `BulkTransfer` | the loader, and `bulk.c` with it | `pointers` the functions found; `pc` the place in `main` |
| `MC...` | instances for TLC | |
| `...Proofs` | the proofs; `OfficeDayProofs` those of `TimeCheckAction` too, `BenchmarkProofs` those of `BenchmarkSetup`, `TransferQueueProofs` those of `BulkTransfer` | |

`FlashLight` and `WrongnessDetector` know nothing of each other. `Program`
instantiates both and joins the action in which the detector calls a method
with the action in which the light alarm is called. A mutant, that is, a
definition introduced by a comment that begins with *Mutant*, is not part of the
model: it is a plausible mistake in the code of the next definition, and a
property is of use only if it fails when that mistake is made.

### FlashLight

`isRunning`, `lock` and `alarmThread` are the static fields. `timer[t]` is what
timeout thread `t` does: it sleeps until its `stopTime` (`left[t]` units away),
is *due* (past the comparison, before the lock), or executes "off" under the
lock. `main` is what the main thread does in the class: it waits for the lock in
`Start`, `Stop` or `IsRunning`, or holds it and executes "on" or "off". `proc[p]`
is the command that controller process `p` still has to carry out; `child` is
the process for which the current `Exec` waits. Each `lock` statement is entered
by one action (`Start`, `Stop`, `TimerEnters`, ...) that makes all the changes up
to `Exec`; `ExecLaunch` starts the process; `ExecExits`, `ExecTimesOut` or
`ExecLaunchFails` end `Exec` and do what the three methods do after it, which is
to leave the lock and, in the timeout thread, to reset the status first.

What is taken from outside the source:

- `Thread.Abort` is asynchronous: `Stop` adds the thread to `aborting`, and the
  thread ends later (`TimerAborted`). Entering a lock is a point where a pending
  abort is raised, so that a thread in `aborting` does not get the lock.
- A thread that waited for a lock may get it in any order.
- A process that is not waited for any more goes on and may act at any time.
- When the program ends, its threads end, its processes and the lamp do not.

`Faults` says which faults may happen: the controller cannot be launched
(`launch`), the controller does not find the device or its transfer fails
(`device`), the controller outlasts `WaitForExit` (`hang`), the device is reset
(`reset`), the program ends and starts again (`restart`). `confirmed` is a history
variable: the command of the last `Exec` was carried out while it was waited for,
and nothing changed the lamp since. When it is false, the code has no means to
know what the lamp shows, and `LampFollowsStatus` says nothing.

### WrongnessDetector and Program

`GetStatus` may return or throw anything (`Outcomes`); whether that counts as a
pass depends on `FailAtNetworkException`. A call of an alert is two actions, the
call and the return, between which anything else may happen. An alert in
`Throwing` may throw from `Start`; the exception ends the round. In `Program` the
list of alerts is the one that `Main` builds with both alerts enabled: the light,
then the sound, which may throw. Time passes for the timeout threads and for the
sleeping main thread at once (`Tick`), also while the main thread is at work,
since requests take time. `SkipRound` is the branch for holidays and for times
outside office hours; it may be taken in any round (`OfficeDay` says when it is).

### TimeCheckAction

Time is relative, as in `FlashLight`: `wait` is the time until
`_nextAlarmNoEarlierThan`. `alarms` counts the alarms that fell due in today's
window; `since` and `prompt` record whether the clock was looked at often enough
around it, which is what the program does while its rounds are short and it is
not suspended inside `GetStatus`. `DayAssumption` holds of the code's values: a day
of 86400 seconds, a meeting at 8:50, 30 seconds around it, an hour of silence.

`OfficeDay` extends it: the check is the last monitor of a round, in days with a date.
There the detector and the alarm are reduced to what matters for the time of the
day: the marks, the rest of the running alarm, an alert that throws and thereby
ends the round (of any monitor in `Throwing`, the standup check included). The date is
read in `LookAtCalendar` only; the round after it may take up to `MaxRound`. `trouble` is
history: whether the last round of the day was lost to an exception, or two in a row were,
or a round took longer than `Short`. The next round that comes to its end in time clears it.

### DeviceSearch

The devices of all busses are one sequence of records: whether the numbers are
ours, and the two names as UTF-16 units. Reading a name is one action with every
outcome of `usbGetDescriptorString`: the string, cut to the buffer and converted
to Latin1 with question marks, an error, or, under the faults `short` and `type`, what a
device may answer instead. An answer of another type leaves the buffer as it
was, and so does the model. `faulty` is history: the devices that could not be opened, or
have not answered with their names in full.

### UsbDriver

The receive buffer has two halves, `usbInputBufOffset` tells them apart, and
`usbRxLen` says whether `usbPoll` owns the other half; `usbTxLen` is a handshake
or a length, and told apart by bit 4. `pc` is the place in `usbPoll`; between any
two of its steps the handler may run. A step of the host is a transaction of
token, data and handshake, which the handler answers as `asmcommon.inc` does:
`handleSetupOrOut`, `handleIn` with the transmit buffer freed before the ACK,
`storeNewAddr` after every data packet sent. `stage`, `got`, `toggle` are the host; `served`,
`lateRx`, `dropped`, `spoilt` are history. The bits on the wire, checksums and
timing are not modelled: a damaged packet is a lost one. Options switched off in
`usbconfig.h` are not part of the build and not of the model.

### The benchmark

`TransferQueue` is one transfer thread. `inUse`, `context` and `transfer` are the
handles of the ring and what the library does with each; `waitIndex`, `nextIndex`
and `outstanding` are the code's names for it. Filling the ring, waiting for the
oldest, the error handling after each transfer and the clean-up are actions; the
device completes transfers or dies, the main thread cancels, aborts or resets
beside it. When `usb_cancel_async` fails in the clean-up, the context is freed all the same and
the transfer stays with the library; `stuck` remembers these handles.
`Benchmark` sees of that thread only whether it runs, and follows `main`
through every failure to `Done`. `WaitForTestTransfer` gives up at once if the exit code of the
thread cannot be got, and main goes on to free its memory; `unwaited` remembers such threads.
`BenchmarkSetup` is the way from a command line to two endpoints, whose addresses are
numbers: the mask of `ep=` and the bits of number and direction are computed.

What the library does is taken from how these programs use it: a submitted transfer
completes, fails or stays; `usb_reap_async` returns after its timeout at the latest and has
cancelled the transfer then; `usb_free_async` frees a context. In `BulkTransfer` any of
these functions may be missing from the dll; a transfer that nobody can wait for then goes
on (`flight`).

## 3. What is checked

| Run | Question | Bounds |
|---|---|---|
| `light` | invariants of the light alarm, its refinement of `AlarmCycle`, and that every alarm ends and every call returns, under every fault | 3 timeout threads, 2 processes, durations 0, 1 and 2 |
| `program` | the composition: an alarm is called off only when all pass, all clear means quiet, the loop of `Main` comes round again and again | 2 monitors, 2 threads, 2 processes, every fault |
| `program_no_faults` | a failure that is announced lights the lamp, and it goes out again | the same, without faults |
| `standup` | at most one alarm a day; exactly one with prompt looks at the clock | a day of 24, the window 14 +/- 3, silence 8, looks every 2 |
| `detector` | the detector follows `AlertPolicy` and starves no monitor | 3 monitors, 2 alerts of which the second may throw |
| `office_day` | one meeting on each working day, quiet nights and free days, alarms that are seen | January to March 2014; a day of 54 units, 3 monitors whose sounds may all throw, rounds of up to 3 units of which those up to 2 are short |
| `search` | the controller finds its device and no other, closes what it opens, and is a `ControllerProcess` | up to 3 devices of 5 kinds, every command; devices cannot be opened, transfers fail, are cut short, or bring another descriptor |
| `usb_driver` | the buffers, the packets, the address; refinement of `ControlTransfer` | 5 requests; acknowledgements and packets lost, transfers given up, resets, restarts |
| `queue` | the ring is in order and a queue, only what could not be cancelled is left in flight, the thread ends when it is cancelled or the device has died; refinement of `TransferFifo` | 3 buffers, 1 retry, both modes, every fault, resets of the status |
| `benchmark` | threads have what they use, all is given back, the program ends when a thread has failed | any set of tests, any step fails, exit codes cannot be got, threads begin late |
| `setup` | the endpoints are those asked for, and no device that fits is missed | none to 3 arguments of 20, 2 devices of 6 layouts |
| `bulk` | everything is given back, and a success that is printed is one | any two functions of the dll missing, up to 2 devices |

The properties, and the mistakes they exclude:

- `LampFollowsStatus`: the lamp and `_isRunning` agree whenever no method is at work.
- `NoStaleTimer`: no timeout thread survives its alarm unless it is being aborted.
- `AlarmHasTimer`: a running alarm has a live thread that will end it.
- `ImplementsCycle`: alarms do not overlap, a running alarm keeps its end, and it ends before its time only in `Stop`.
- `AlarmEnds`, `CallsReturn`, `LampGoesOut`: the liveness of the same.
- `OncePerDay`, `DailyAlarm`: the standup alarm is neither repeated nor missed.
- `ImplementsPolicy`: one request for each failure, and a request to stop only while no monitor is marked.
- `NoMonitorStarves`: setting the mark *before* the alerts are started is what keeps an alert that throws from blocking the monitors behind it.
- `CancelledOnlyWhenAllPass`, `AllClearIsQuiet`: the same across detector, light and timeout thread, with the answer of `IsRunning` growing stale before `Stop`.
- `LoopRecurs`: no lock, process or exception stops the loop of `Main`.
- `FailureIsLit`: without faults no announced failure goes unlit, even if it comes while an earlier alarm is being switched off.
- `DailyMeeting`: monitors that fail all day, sounds that throw and slow rounds before do not keep the meeting from being announced, unless two rounds in a row are lost or one is too long just before the window closes; `QuietAtNight`: the stale date costs a round at most; `SeenForAWhile`: an alarm is never called off in its own round.
- `HandlesClosed`, `FoundIsOurs`, `OursIsFound`, `ImplementsProcess`: each handle is closed on every path; the request goes only to a device with both names, or to one that answered with something else than its names, and it goes to the own device whatever else is plugged in. What an earlier device left in the buffers is never taken for the names of one that answers properly.
- `ReceivedKept`, `TransmitApart`: handler and `usbPoll` never use a buffer at the same time. `NextPacket`: no packet of a transfer given up is sent in the next, as long as the packets of the reply reach the host. `AddressAgrees`: the address changes when the host's does, unless a SET_ADDRESS was given up or its last packet lost. `SetupWelcome`: a SETUP after a completed transfer is never refused. `ImplementsControlTransfer`: a request takes effect before its transfer completes, and late ones before the next.
- `RingOrder`: the handles in use are the outstanding ones in ring order, so that the next one is free; `ImplementsFifo`: the handle that is waited for is the oldest; `NothingInFlight`: in the end every context is freed and every transfer over, but those that the library refused to cancel.
- `CancelEnds`, `DeadDeviceEnds`: the thread ends, also when no transfer completes any more; a user who resets the count of timeouts for ever could prevent the second.
- `ThreadsAreSafe`, `NothingKept`, `FailureEnds`: the same for the program around the threads, as far as it can get their exit codes.
- `EndpointsFit`: it is stated of the command line, whose last word on each matter counts: a test is ready only if it was asked for, on the interface asked for, and on the endpoint of its direction and of the number asked for after the mask of four bits. `NoneMissed`: the search goes on behind a device that cannot be opened or does not fit.
- `GivenBack`: no device, claim or context is kept that the dll can give back; `SuccessIsTrue`: a success is printed only of what the device sent, and with no transfer under way into the buffer on the stack of `main`.

Type invariants and inductive invariants are not checked again by the runs: they are
proved (section 4).

**Where the code differs from what is said of it.** These were met while modelling;
the properties above are stated so that they do not depend on them.

- `usbdrv.c:25` speaks of the address that is set after the status phase; the
  handler takes it after any data packet (`usbdrvasm12.inc:376`). If SET_ADDRESS is
  given up, another transfer may change the address; `AddressAgrees` excludes
  such a past.
- `USB-IDs-for-free.txt:52` requires the comparison of entire names. An answer that is
  no string descriptor counts as success, and an earlier device's name, still in
  the buffer, is compared (`somethingswrong_controller.c:33`). The fault `type` of
  `DeviceSearch` is this case; the run has it, and `FoundIsOurs` makes an exception of the
  device that answers so, which may be taken for the lamp.
- `bulk.c:230-231` says of its transfer that it is cancelled if it does not complete in the
  specified time. If the dll has `usb_submit_async` and not `usb_reap_async`, the wait returns at once
  (`libusb_dyn.c:483-489`) and the context is freed with the transfer under way
  (`bulk.c:233-236`). The run has this case; main then reports an error.
- `BenchmarkHelp.txt:32` speaks of a transfer that times out more than *retry* times;
  timeouts of several transfers add up if the transfers between are short
  (`benchmark.c:559`).
- `verifydetail` and `packetsize=` of `BenchmarkHelp.txt` are refused
  (`benchmark.c:804`). Alternate settings but the first are not searched
  (`benchmark.c:244`). The first interface of a device from the list is used with the
  alternate setting asked for, and may then not be found (`benchmark.c:1275`).

**Why the bounds are enough.** Two timeout threads are needed for a thread that is being
aborted beside that of a new alarm, a third for two being aborted. Two processes are needed
for one left behind beside the one waited for. A duration of 2 separates a thread that still
sleeps from one that is due. In `FlashLight` the sets `Timers` and `Procs` bound what exists
*at a time*: `Start` waits for a free thread, and `ExecTimesOut` and `Restart` leave a
process behind only if another is free (`SpareProc`). In `OfficeDay` the unit is about five
seconds and the night and the hours are shortened, as nothing happens in them; the window,
the intervals and the length of a round keep their proportions. Its days matter only through
`IsHoliday`; from January to March there are weekends, a free day in the week and one next
to a weekend. A round of 2 is the longest that is short, as two of them with their sleeps
fit into the window; a round of 3 is one too long. Three devices let the controller meet one
before and one after its own. Three buffers are the fewest with a handle that is neither the
oldest nor the next. The driver needs two requests that differ in effect, one with a reply
of several packets and one that sets the address. `polls` counts up to 2 how often `usbPoll`
has seen a reset, which a host holds longer than two of its turns. `MaxOutstanding` is the
limit of the code. Two missing functions are one for the error and one for the clean-up, or
for the wait. Lines of three arguments have room for a word, another that takes it back, and
one that the two depend on; an endpoint number of 16 and one of 129 are those that the mask
changes. Deadlock is not checked where a program ends.

**Fairness.** Time passes; a thread that can run does; a lock that stays free for
its only waiter is entered; `Exec` goes on when its process has ended or its
minute is over. A controller process ends, as every transfer has a timeout of
five seconds; in the runs with the fault `hang` this is assumed only of processes nobody waits for,
because the bound on their number would otherwise block the model, not the
program. Nothing makes the main thread call anything in `FlashLight`; in
`Program` it goes on with its loop. `DeviceSearch` and `BulkTransfer` are single
threads of which only safety is checked. So is `UsbDriver`. A thread of `TransferQueue` goes on,
since each wait has a timeout; in `Benchmark` both kinds of threads are scheduled, and a
cancelled one stops, which is `CancelEnds`. No fault, restart, key or
packet of a device has to happen.

**What the checks do not promise.** With faults, the lamp may stay lit after an alarm has
ended: the status is reset although "off" failed (`FlashLightAction.cs:51`, `:74`), and
`Stop` does nothing when the status says that no alarm runs. A restart leaves a lit lamp as
it is until the next alarm ends. A second failure during an alarm does not prolong it
(`FlashLightAction.cs:31`). A network error of a monitor without `FailAtNetworkException`
counts as a pass and clears its mark (`WrongnessDetector.cs:58-62`, `:95-99`). A restart in
the window repeats the standup alarm. When everything else passes, the light of the standup
alarm goes out in the next round, 15 seconds later, and not after the 20 seconds of
`App.config`. If the sounds of two monitors throw in rounds that follow each other, or a
round takes 15 seconds or more (a request may take up to 100, a command of the lamp up to
60), just before the window of the standup check closes, the meeting may be missed:
`DailyMeeting` makes an exception of such days. A transfer that cannot be cancelled, or a
thread whose exit code cannot be got, goes on with memory that the benchmark has freed
(`benchmark.c:663-669`, `:1134-1138`). The list of free days ends with 2014.
`ImplementsControlTransfer` and `SetupWelcome` assume that the device does not miss a token
and get the data after it.

## 4. What is proved

For all values of the constants that satisfy the named assumptions:

| Theorem | States |
|---|---|
| `FlashLightProofs!Invariance` | `Spec => []IInv` |
| `FlashLightProofs!TypeCorrect`, `LampCorrect`, `TimersCorrect`, `AlarmsTimed` | the four invariants of `FlashLight` |
| `FlashLightProofs!Refinement` | `FlashLight` implements `AlarmCycle` |
| `OfficeDayProofs!AtMostOnce`, `AtLeastOnce` | `OncePerDay`, `DailyAlarm` |
| `OfficeDayProofs!MeetingIsAnnounced`, `NoLightAtNight`, `NoShortFlash` | `DailyMeeting`, with its exception of lost and late rounds, if `WindowIsMet`; `QuietAtNight` if `EndsInTime`, `SeenForAWhile` |
| `WrongnessDetectorProofs!Refinement` | `WrongnessDetector` implements `AlertPolicy` |
| `ProgramProofs!Cancellation`, `AllClear` | `CancelledOnlyWhenAllPass`, `AllClearIsQuiet` |
| `UsbDriverProofs!BuildsAlone`, `ReceivedIsKept` | `TransmitApart`, `ReceivedKept`, whatever is lost |
| `UsbDriverProofs!LampIsRight`, `SetupIsWelcome`, `Implements` | `LampFollows`, `SetupWelcome`, and that `UsbDriver` implements `ControlTransfer`, if tokens are not lost alone |
| `UsbDriverProofs!RepliesInOrder`, `AddressesAgree` | `NextPacket` while no packet of the reply is lost, `AddressAgrees` while no SET_ADDRESS was given up or its last packet lost, both on the same condition of tokens |
| `DeviceSearchProofs!NoHandleLost`, `OnlyOurs`, `IsAProcess` | `HandlesClosed`, `FoundIsOurs` if `NamesAreTold`, and that `DeviceSearch` implements `ControllerProcess` |
| `DeviceSearchProofs!OwnIsFound` | `OursIsFound`, if the wanted names are text |
| `TransferQueueProofs!RingIsOrdered`, `NothingIsLeft`, `RingIsQueue` | `RingOrder` and `NothingInFlight`, also if a cancellation fails, and that `TransferQueue` implements `TransferFifo` |
| `BenchmarkProofs!NoThreadWithoutMemory`, `AllIsGivenBack`, `OnlyForCause` | `ThreadsAreSafe`, `NothingKept`, and, of a prompt start, `CancelsForCause` |
| `BenchmarkProofs!EndpointsAreRight`, `NoDeviceMissed` | `EndpointsFit`, `NoneMissed` of `BenchmarkSetup` |
| `TransferQueueProofs!NothingIsHeld`, `SuccessIsRead` | `GivenBack`, `SuccessIsTrue` of `BulkTransfer`, for any functions of the dll |
| `TypeCorrect` of each of these modules, `DayTypeCorrect`, `SetupTypeCorrect`, `BulkTypeCorrect` | `TypeOK`, `DayTypeOK`, `SetupTypeOK`, `BulkTypeOK` |

*The light alarm.* That the lamp follows the status is not inductive: whether it
does after `Exec` depends on which command the process carried out, so `IInv`
ties the command of the process to the holder of the lock (`ExecInv`) and the lamp
to that command once it was carried out (`LampInv`). That a timeout thread which gets the
lock belongs to the running alarm needs `NoStaleTimer`, and that needs `AlarmHasTimer` and
the fact that an aborted thread is never inside the lock (`TimerInv`). The refinement
rests on `TimerInv`: `TimerEnters` is `Expire` because the thread that enters is that of
the running alarm and its time is over.

*The standup check.* `SilenceInv` says that after today's alarm the silence
outlasts the window (from `2 * Window <= Quiet`); `LookInv` says that before it no
silence of yesterday reaches into the window (from `Quiet + Window <= Time`) and
that the last look was too recent to have jumped over it (from `Gap < Window`).

*The days.* A step of the days is a step of the standup check or leaves it alone, so its
invariant holds here too. `LoopInv` says that a round begins within the hours of a day that
is not free, so that it is over before midnight (`OfficeHoursEnd + MaxRound < DayLength`),
and where the standup check stands in it. `DailyMeeting` is not inductive: what has to be
kept is a deadline. `NextLook` is the longest time until the clock is read again, and
`MeetingInv` says that on a day without an alarm this is before the window closes. A round
that ends with an exception may have read no clock, and any monitor's sound may throw.
`NextLook` therefore counts a round and a sleep more (`Lost`) as long as the last round was
not lost; the second loss in a row makes `trouble` `"late"`, and so does a round longer than
`Short`. A round that comes to its end has read the clock outside of the window, or given
the alarm, and clears `trouble`, so that what went wrong earlier in the day does not count.
`WindowIsMet` asks that two short rounds with their sleeps fit into the window, and that the
sleep of the night and two more rounds end in time. With the code's values (8:20 to 17:00,
the meeting at 8:50, half a minute around it, sleeps of 15 seconds and of ten minutes) it
says that short is below 15 seconds. `SeenForAWhile` needs that a running alarm is one of a
round that has not passed, or that its age and the rest of the sleep make up `CheckInterval`
(`AlarmInv`). `EndsInTime`, that an alarm which begins at the end of the last round is out
at midnight, holds of every duration below seven hours.

*The detector.* While every monitor of the round has passed, none of those the
round has been through is marked (`RoundInv`).

*The program.* Every step is by definition a step of each component, so the components'
invariants hold; they are taken from the components' proofs under the
substitutions of `Program`. What is added is that the main thread is in the
light alarm exactly where the detector called it (`CallsAgree`), and that an alarm
found or made quiet stays quiet while the alerts are being stopped (`QuietInv`).

*The USB driver.* Handler and `usbPoll` are kept apart by `usbRxLen` and `usbTxLen`
alone (`BufferInv`): while a packet is processed its length is not 0, and while a reply
is built the transmit length is the handshake NAK, which the handler tells from a
length by its bit 4. No fault disturbs this. What a transfer promises needs that the packet in
the receive buffer is a SETUP, namely that of the current request unless a transfer was
given up (`RxInv`), and that the host leaves the setup stage only after the packet was
taken (`TransferInv`). A token that the device misses breaks these, which is why the
theorems that rest on them assume `"token" \notin Faults`.
The order of the packets adds `ReplyInv`: the packet that is built, or will be built next,
and `usbMsgLen` and `usbMsgPtr` behind it, stand for what the host has not got yet, and the
token of the packet is the one the host expects. It holds while the transfer is the current
one and nothing of it was dropped; `SyncInv` says what is left over when a new
one begins. The address needs that a reset which lasts long enough leaves nothing
behind it (`ResetInv`: neither an address nor a packet that sets one), and that from
then on `usbNewDeviceAddr` is the address of the request while SET_ADDRESS is served and that of
the host at all other times (`AddrInv`).

*The controller.* `HandlesClosed` is inductive with the place in the list. That only the own
device is taken needs that the converted names are equal only if the names are, which is
false of a NUL (it ends the C string) and of a question mark (it stands for what Latin1
lacks); the theorem assumes that no name has a NUL and the wanted ones no question mark
(`NamesAreTold`). It assumes nothing of the answers: `NamesInv` says that the buffers hold
the names of the device at hand unless that one is in `faulty`, whatever an earlier one left
in them. That the own device is found needs the reverse, that equal names are equal after
the conversion: `NamesAreText` asks that they are of the characters 1 to 255, which Latin1
has. `SeekInv` says that an own device among the places passed is one that could not be
opened or read.

*The transfer queue.* The handles in use, counted from the wait index, are the first
`outstanding` ones (`RingOrder`); the next index follows them, or is the wait index when the
ring is full. The submission of one and the reaping of the oldest keep this by the
arithmetic of the ring; the queue of `TransferFifo` is read off it. In the clean-up a handle
passed has no context, and no transfer unless it is in `stuck`.

*The benchmark program.* `Holds` says what is allocated at which place of `main`,
`GivenBack` what is released, and `Threads` where a thread may still run: never past the
wait for its end, unless it is in `unwaited`. A test is cancelled only for a cause if no
thread is still about to begin when `main` looks at it (`Prompt`).

*The setup of the benchmark.* While the search runs, each device with our numbers that it
has passed could not be opened or lacks the interface (`PassedInv`); a device is held from
the end of the search on, and `step` tells which search that is (`ChosenInv`). The endpoint
that is taken is the first that matches, the least element of a set of naturals; the write
endpoint is chosen when the read endpoint fits already (`FitInv`). That the parameters are
those asked for is `LastWord` of the arguments read so far (`ReadInv`): each argument
changes the parameters it is about and is the last word on them, whatever came before;
`ReadIsAsked` turns this, once all are read, into what `Fits` says of the command line.
`SetupAssumption` gives the arguments and the devices their types.

*The bulk example.* `BulkInv` says at which place of `main` the device is open, claimed
and has a context, and that no transfer is under way before the submission. `ReadInv` says that
the result of the wait is an error, or the bytes that have arrived with the transfer
over; a dll without `usb_reap_async` gives the error of the wrapper, and the transfer goes on.
No assumption is made of what the dll exports.

Only model-checked: the liveness properties `AlarmEnds`, `CallsReturn`, `LoopRecurs`,
`FailureIsLit`, `LampGoesOut`, `NoMonitorStarves`, `CancelEnds`, `DeadDeviceEnds` and
`FailureEnds`, which rest on fairness and are beyond what the prover can do. Every other
property of a run is proved. `LampFollows`, `CancelsForCause`, the type invariants and the
inductive ones are proved and not part of a run.

## 5. What is not modelled

- `HttpCheckAction`, `TCBuildStatusCheckAction`: a request and a comparison; the
  detector lets them return or throw anything.
- The checks of `Main` that files exist, and the choice of the sound file: no state.
- Logging, messages, and the exit code of the controller, which is only logged.
- A restart of the program in `OfficeDay`: nothing is kept across it, so nothing can
  be promised of the standup alarm.
- The benchmark: its statistics (the running counts, their display) and the
  verification of the data, which no other part depends on; what it prints; the
  wrap-around of `GetTickCount`. The configuration of the interface once the
  endpoints are found is one step that may fail.
- `bulk.c`: the write test and the synchronous read, which its macros leave out.
- A device that never answers, as a liveness question of `UsbDriver`: that a transfer
  completes needs that the host repeats what was lost, which is not in this repository.
- Bits, checksums and timing on the bus; interrupt endpoints and other options of
  V-USB that `usbconfig.h` switches off; V-USB for other clocks; `oddebug.c`.
- Vendored code: the headers, libraries and drivers of libusb, tools, scripts.
