# Verification of the RAVENNA/AES67 ALSA kernel module

TLA+ models of the driver in `src/driver` and of the web application's own
JavaScript under `src/Butler/webapp/advanced`, the TLC runs that check them on small
instances and the TLAPS proofs of the properties that matter most. `PROJECT.json`
lists every run, mutant, hazard, finding and theorem, and maps each definition to
the lines it models.

## 1. Inventory

The kernel module turns a Linux machine into a RAVENNA/AES67 node: a PTP slave per
NIC gives the sample clock, a high-resolution timer driven by that clock calls the
audio engine once per frame, RTP streams carry audio between the network and the
ring buffers of an ALSA card, and a user-land daemon (the Butler) configures all of
it over Netlink.

Execution contexts, which is where the difficulty lies:

- *receive hook*: softirq, `nf_hook_func` -> `EtherTubeRxPacket` ->
  `process_PTP_packet` or `process_UDP_packet`; several CPUs at once;
- *timer*: softirq or tasklet, `t_clock_timer` -> `timerProcess` of both NICs ->
  `AudioFrameTIC`; never twice at once;
- *management thread*: the Butler's `sendmsg`, `recv_msg_from_user_land` ->
  `OnNewMessage`;
- *ALSA threads*: PCM and control callbacks;
- *web page*: one JavaScript thread, handlers of events, time-outs and answers.

| Component | State | Operations | Correct when |
|---|---|---|---|
| PTP clock (`PTP.c`) | elected master, last Sync id, T1, T2, lock counters, watch dog, TIC period | packet handlers, `timerProcess`, start/stop, `SetPTPConfig` | locked only on enough time stamps of one master at one rate; T1 and T2 of the same Sync; silence is noticed |
| RTP streams manager (`RTP_streams_manager.c`) | slots, ordered lists, pair attachments | add, remove, remove all, status; prepare and send in the timer; dispatch in the hook | nothing in use is destroyed, nothing removed is kept, pairs are sent once per NIC |
| RTP stream (`RTP_audio_stream.c`, `RTP_stream.c`) | activity flag, reader count, stream info, ring pointers, sample counters | `Create`, `Destroy`, `Acquire`, `Release`, `ReaderEnter/Leave`, send, receive | one life per slot at a time; samples land where their SAC says |
| Netlink (`module_netlink.c`) | daemon pid, reply flag, reply pointer | request and wait, reply, Hello, Bye | success means answered, the answer is one's own, no reply goes to a call that is over |
| Manager (`manager.c`, `module_main.c`) | started, IO flags, rate, frame size, selected NIC | `start`, `stop`, `startIO`, `stopIO`, setters, `OnNewMessage`, `AudioFrameTIC` | IO runs only on a started, locked clock; flags agree |
| Clock timer (`module_timer.c`) | base period, stop flag | start, stop, callback | every frame is played once, a stopped timer stays stopped |
| Receive hook (`EtherTubeNetfilter.c`, `module_interface.c`) | enabled, started, interface name | enable, start, `rx_packet`, destroy | no packet is dispatched after destroy; no self-deadlock |
| ALSA card (`audio_driver.c`) | DMA offsets, ring positions, substreams, volume cache | open, prepare, trigger, interrupt, pointer, close | pointers stay in the buffer; no interrupt on a closed substream |
| Conversion (`MTConvert.c`), headers (`MTAL_EthUtils.c`), Butler 1.1.93 compatibility | none | pure functions | agree with a reference |
| Statistics graph (`rickshaw.js`, `Common.js`) | series with a sliding window, scale, svg, hover detail and legend | create, status message, mouse, destroy | series level and evenly spaced; what is drawn and written is the current data |
| Page controls (`Common.js`) | listeners, colours, time-outs, requests, cookies, detected browser | attach, detach, press, select, send, create and erase | colours show the state, a pressed button comes up, order of synchronous actions, cookies found by name |
| User-land IPC (`common/MTAL_IPC.c`) | FIFOs, sequence ids | send, answer, time-out | a reply is matched to its request |

Interactions: `AudioFrameTIC` runs only in the timer and sends only when the selected
PTP clock was locked; the manager starts and stops the PTP clocks and registers the
hook; the ALSA callbacks ask the daemon over Netlink, which answers with management
messages that change the rate of both clocks.

Hard behaviours, each listed with its line under `hazards`: handlers on two CPUs,
state kept across an election, a lock released too early or the wrong lock, failure
half way through an add, late replies, a daemon that dies, plain spin locks shared
with softirqs, sample counters that wrap, a cancelled timer whose tasklet starts it
again, a rate that changes under a prepared stream, counts kept beside the data they
count, closures that have to be named to be removed.

## 2. Modules

A module `X` with its state and actions, an `MCX` with the values of the constants that a
configuration cannot write, and an `XProofs` with the theorems about it (section 5).

### PTPClock

One `TClock_PTP`. The state variables are the fields named in their comments. The
packet handler `process_PTP_packet` runs on each CPU of `Cpus` and holds no lock, so
`rx[c]` is the position of CPU *c* in it, and the handler is cut wherever it enters or
leaves `m_csPTPTime` or acts on shared state read before: `RecvAnnounce`,
`AnnounceDomain`, `AnnounceElect`, `AnnounceAssign`, `AnnounceSave` with
`ResetPTPMaster` between them; `RecvSync`, `SyncReset` or `SyncT2`, `SyncEnd`;
`RecvFollowUp`; `ProcessT1` (its critical section) and `SaveT1`. `TimerWatchDog` and
`TimerWatchDogSave` are the watch dog of `timerProcess`; `StopAudioFrameTICTimer`,
`StopReset`, `StartSet`, `StartReset`, `SetPTPConfig` and `CountConfigChange` are the
management thread; `Tick` is time.

Any announced master may send any packet at any time: loss, duplication, reordering
and a restarted master are included. A time stamp T1 is a value, which any Follow_Up
or one-step Sync may carry: `ProcessT1` drops it when it is equal to the last one
(`DeltaT1`), whichever Sync it is of. T2, the arrival time of a Sync, is represented by the
master and sequence id of that Sync, since what matters is whether T1 and T2 belong
together; the arithmetic on them is left out, except for its effect on the counters
(`CountT1`). Ages saturate one step above the limit the code compares them with. Five
history variables record what a lock rests on.

### LockedClock

The abstract specification of a clock, as the manager uses it: `Start`, `Stop`,
`Advance` (UNLOCKED, LOCKING, LOCKED), `Reset`. `PTPClock!ImplementsClock` states that
PTPClock implements it, with `GetLockStatus` for the status; a stop counts from its
reset of the lock on, since until then handlers may still move the counters.
IOControl is built on it.

### RTPSourceStreams

The source streams of `TRTP_streams_manager`: slots with `Active`, `ReaderCount`,
`Initialized`, `Info`, and the ordered list. The management thread (`op`) holds
`m_csSourceRTPStreams` from the first to the last step of a call. The timer callback
(`timer`) copies the list, enters every slot as a reader, works without a lock and
leaves; in `prepare_buffer_lives` it leaves under the lock of the *sinks*
(`RTP_streams_manager.c:934`), so `ReaderLeave`, `LeaveCleanup` and `LeaveDestroy`
interleave with `Release`, `ReleaseCleanup`, `ReleaseDestroy`, `AddAcquire`,
`AddCreate` and `AddInsert`. `Create` is success or failure, and the audio in the
buffers is left out. Identifiers are assumed unique per NIC, as the Butler assigns
them. `Reading` is the set of slots the callback has entered as a reader; with two NICs
`SendRTPAudioPackets` also works on the attached stream of such a slot (section 4).

### RTPSourcePairs

Extends RTPSourceStreams with `m_pAttachedStream`: `attached_stream` in the insertion,
and which stream of a pair `SendRTPAudioPackets` sends for. Nothing ever clears the
pointer of a source.

### NetlinkRPC

`send_msg_to_user_land` by ALSA threads and by the Hello and Bye handlers (`u2k`):
`Request`/`Hello`/`Bye`, `PointResponse`, `Unicast`, `WaitDone`, `ClearResponse`, with
the two unprotected globals between them, and a refusal at entry without a daemon or
without memory; `ReplyWrite` and `ReplyFlag` are `recv_reply_from_user_land`. The daemon is external: it answers in order, dies, is
started again. `Timely` (the daemon answers within the second, no signal interrupts)
and `Serial` (calls do not overlap) are assumptions on the environment that the code
does not enforce; the runs show what holds with them and what fails without.

### RemoteCall

The abstract specification of a request to the daemon, as its callers count on it: a
`Call` begins or is refused, the server may `Answer` it while it is pending, and the
`Return` is a success exactly if it did. `NetlinkRPC!ImplementsRemoteCall` states that
NetlinkRPC implements it, a call being pending from its entry to its return, and answered
when its reply is in the `msgAnswer` of its caller, if that asked for one.

### IOControl and PcmRing

IOControl is `TManager` with two clocks and the clock timer. The management thread
(`mgr`) runs `start`, `stop`, `SetTICFrameSizeAt1FS` and `SetMaxTICFrameSize`, which stop
and start again, `SetInterfaceName`, also on a driver that runs, and `SetSamplingRate`
with its wait for a lock; each assignment that the timer or an application can observe
is a step of its own. An application (`alsa[d]`) runs `startIO`
and `stopIO`. The timer goes through `TimerFires`, `Select_PTP_NIC`, `AudioFrameTIC`,
the tests of the two flags, the interrupts, `TimerEnds` (the test of `stop_`) and
`TimerRestarts`, and interleaves with everything. Calls of different threads take
turns (`Alone`), except that applications go on while the management thread waits for
a lock. That is an assumption: the manager's fields have no lock. `activeLocked` is
the lock status of the selected clock as the timer last saw it. `renamed` is a history
variable: interfaces were named since the clocks were started.

PcmRing adds the PCM device: open (which may fail with the substream set), hw_params and
prepare, trigger, the interrupt, an underrun found by the interrupt, close. The ALSA
core is external and calls in the order its state machine allows. The interrupt reads
the frame size (`pcm_interrupt`), copies at the offset under the lock of its direction
(`CopyFrame`), reduces the new offset by the size of the buffer (`ReduceOffset`) and stores
it (`StoreOffset`). close takes the same lock; prepare holds `chip->lock` only, so that its
two assignments (`pcm_prepare`, the offset, and `PrepareSize`) may fall between these
steps: `straddled` is a history variable that records it. PcmRing has the next-state
relation and the fairness of both modules, `MCPcmRing` a bound (section 3).

### StatsGraph

A graph of the statistics page: what `Rickshaw_CreateDivGraph`, `Rickshaw_CreateGraph`
and `Rickshaw_DestroyGraph` reach of Rickshaw. A handler runs to its end, so it is one
action, and the methods it calls are functions from a graph to a graph, named as in
the source: `addItems` (`addItem` for each name of a call), `addData`, `dropData`,
`FixedDuration`, `configure`, `stackData`, `domain`, `discoverRange`, `render` with its
callbacks, `hoverUpdate`. The actions are creation, a status message with values for any
names, mouse moves to any position, the mouse leaving, and destruction. A value may lie
outside the range the chart is configured with. Layout is left out. Time is counted in
intervals, positions in units of the chart's width; arithmetic is exact where the code
rounds.

### WebControls

Buttons (listeners, of which the element remembers the closure of the last attach, a
colour, time-outs), multi-select checks, requests with and without waiting, cookies
with their lifetime, and `BrowserDetect`. A mousedown runs every listener; an
`OnClickFunc` that throws leaves its listener before the time-out is set. A request may
reach the server after it has failed at the page. `ReadCookie` searches the pieces of
`document.cookie` (`Pieces`) for one that begins with the name and "=". The parts share no
state, so that each behaviour uses one of them (`part`).

## 3. Runs

| Run | Checks | Bounds |
|---|---|---|
| `ptp_smp` | `TypeOK`, `LockNeedsEvidence`, `NoT1OfFormerRate`, `ImplementsClock` | 2 CPUs, 1 master, sequence ids 0 and 4 modulo 6, 2 values of T1, hysteresis 3 and 2, time-outs of 0 |
| `ptp_live` | `ElectedInDomain`, `T1MatchesT2`, `SilentMasterUnlocks`, `SilentMasterReplaced`, `ConfigTakesEffect` | 1 CPU, 2 masters of domain 0, 2 configurable domains, sequence ids 0 and 4 modulo 6, 2 values of T1, hysteresis 3 and 1, fairness |
| `ptp_election` | violates `T1OfElectedOnly` | 2 CPUs, 2 masters of one domain, ids and values as `ptp_live`, hysteresis 3 and 2 |
| `rtp_sources` | `TypeOK`, `ListedActive`, `FreeIsDestroyed`, `SlotsSuffice`, `ReadStreamStable` | 1 NIC, lists of 2, 4 slots, 2 streams, `Create` may fail |
| `rtp_race` | violates `SentInitialized` | 1 NIC, lists of 1, 1 stream |
| `rtp_pairs` | `PairsAttached`, `RemovedIsDestroyed` | 2 NICs, lists of 2, 8 slots, 1 stream on each NIC, one call that removes (`OneRemoval`), fairness |
| `netlink` | `TypeOK`, `ImplementsRemoteCall` | 2 callers, 2 pids, 2 calls each; timely, serial |
| `netlink_late` | violates `SuccessMeansReplied` | 1 caller, 1 pid, 2 calls, serial, not timely |
| `io_pcm` | `FlagsAgree`, `ClocksFollowRate`, `OnlyTriggered`, `PositionKept`, `StoppedIsSilent`, `StopIsQuiet`, `IOServed` | 2 clocks, rates 1 and 2, frames of at most 1 or 2, a playback device with buffers of 2 and 3, a capture direction triggered at will, one aspect at a time (`OneAspect`), fairness |
| `pcm_position` | violates `PositionInBuffer` | rates 1 and 4, frames of at most 4, a buffer of 2 |
| `stats_graph` | `SizeIsLength`, `TimesEven`, `DrawnIsCurrent`, `LegendIsCurrent`, `SlidingWindow` | a window of 4 points, one name given and one that comes late, values 1 and 3 in a chart from -2 to 2, 5 mouse positions, indices up to 6 |
| `web_controls` | `TypeOK`, `ChecksPainted`, `RequestsInOrder`, `CookieRead`, `VersionOfBrowser`, `PressedComesUp` | 3 checks, 3 listeners, 3 time-outs, 3 requests, cookies "id" and "ids" with 2 values, 2 days, 5 navigators, fairness of the time-out |

Why the bounds are enough. The properties of the PTP clock compare at most two masters
(the elected one and the next). A gap is a difference of sequence ids above the
hysteresis of three: of the ids 0 and 4 modulo 6 the difference from 0 to 4 is a gap, the one
from 4 to 0 wraps around and is none, and the same id again is a duplicate, so that a master
that sends them in turn alternates between a reset and a counted time stamp, and one
that stays with an id, or whose Follow_Ups repeat it, locks. Two values of T1 are a
repeated one, which is dropped, and another, which is not. The hysteresis of three is
the least with which "counted", "period computed" and "locked" are different states;
the code's is four. Two CPUs show every race between a handler and a stop or an
election; `ImplementsClock` holds for fewer CPUs than `PTP_LOCK_HYSTERESIS`, since each
handler at work during a stop may count one more time stamp, so two out of three is the
limit that can be shown. Two listed streams in four slots are enough for a list whose
old slots are all still being read while a new list is built. In `rtp_pairs` a pair needs
two NICs and one identifier; one removal shows each way for the stream of a slot to be
destroyed, and adds before and after it reuse the slot. In `io_pcm` a frame is one or two long, as
long as the smaller buffer at most, so that the position wraps in both buffers at
different places, and the buffer may change with every prepare. By `OneAspect`
interfaces are named, priorities and the maximum of the frame size change and the second
clock is used only as long as the device has not been opened, with the other direction
triggered at will; the rate changes in all behaviours. The theorems
of section 5 need neither bound. In `stats_graph` a window of four is created with
two points, fills up and slides; `MaxIndex` leaves room for the first points to be dropped.
Of the two cookies one name begins with the other.

Masters and CPUs are symmetric and `ptp_smp` uses it (its property `ImplementsClock`
is a safety property and symmetric too); no run of a liveness property does. In
`ptp_live` the masters stay in domain 0 while the configuration moves between domains
0 and 1, and the announce time-out is 0, one tick of age being too old. `netlink` may
stop once all calls are made and `web_controls` once all requests are, so deadlock is
not checked there; everywhere else it is.

`PairsAttached` says nothing of states after the first removal, in which it would fail
(section 4). `netlink` need not list `SuccessMeansReplied`, which `ImplementsRemoteCall`
implies: in RemoteCall a call ends well only if it was answered. It shows what a timely
daemon and calls that take turns are worth, not that the code enforces either.

Fairness. A handler that has begun runs to its end, since a softirq is not abandoned,
and so does a management call; the timer is periodic; time passes; a time-out of a page
fires. Packets, calls and messages are never assumed to come, except where a property
says that Announce packets keep arriving. In RTPSourceStreams two steps of the timer
wait for a spin lock that the management thread may take again and again; the kernel's
queued spin locks serve waiters in order, hence strong fairness for these two. In
PcmRing an hrtimer that is queued expires and its tasklet runs (weak fairness), and a
call that began goes on; `IOServed` then needs no fairness of the clocks, since it
speaks of a clock that stays locked.

Mutants. For every property of a passing run `PROJECT.json` names a definition and a
plausible wrong version of it, kept beside the right one under a comment "Mutant",
with which TLC finds the property violated.

## 4. What the failing runs show

- `rtp_race` (`RTP_streams_manager.c:934`): the wrong lock. `SendRTPAudioPackets`
  may then work with an info block of zeroes, and with zero samples per packet its
  loop makes no progress. The theorem `UnracedSendsInitialized` shows that nothing
  else leads there (`CONSTRAINT NotRetaken` and `INVARIANT SentInitialized` in
  `RTPSourceStreams.cfg` let TLC confirm it): it takes an add in the slot that `ReaderLeave` has
  found free, between that test and the end of its `Destroy`, which the lock of the
  sources would keep out.
- `ptp_election` (`PTP.c:391`): the test of the clock identity and the use of the time
  stamp are not atomic, and the receive hook may run on two CPUs: an election on the
  other one fits between them. `OneMasterPerLock` shows that nothing else leads there.
- `netlink_late` (`module_netlink.c:227`): replies carry no identifier; one late reply
  leaves the driver one reply behind.
- `pcm_position` (`audio_driver.c:683`, `:748`): the offset is reduced by one buffer
  size only. A rate set between prepare and start makes the frame longer than the
  buffer, and the position passes the end.

Properties that hold only under a condition, which is part of their statement:

- `PositionKept` leaves out streams that were prepared while an interrupt was copying
  (`straddled`). prepare resets the offset and the size under `chip->lock`
  (`audio_driver.c:934`, `:1032-1034`, `:1081-1083`), the interrupt reads and writes them under
  `playback_lock` or `capture_lock` (`:744-749`). One that was late stores an offset into the
  former buffer after the prepare, which is past the end of a smaller one:
  `PositionInBuffer` fails with the constants of `io_pcm`, in which every buffer holds a
  frame, as it does in `pcm_position`.
- `T1MatchesT2` is about the first Follow_Up that is counted for a Sync. The handler compares
  sequence ids only (`PTP.c:481`), so it accepts a Follow_Up whose Sync was never timed,
  because of a gap or an election; its time stamp is counted but not combined with the
  stale T2, which is what the property says. A second Follow_Up with that id and another
  T1, from a master that was restarted or whose ids have wrapped, is not dropped
  (`PTP.c:528-529` compares values) and is combined with it. With packets that overlap on two
  CPUs the property fails as well.
- `SilentMasterUnlocks` says UNLOCKED again and again, not for good, as long as such
  Follow_Ups bring new time stamps: they lock the clock between two bites of the watch dog,
  which looks at the ids of Syncs.
- `SlotsSuffice` needs that no add failed half way: failed adds keep their slot
  (`RTP_streams_manager.c:274`, `:290`).
- `ReadStreamStable` is about the slots the callback has entered. With two NICs
  `SendRTPAudioPackets` also works on the stream attached to one of them
  (`RTP_audio_stream.c:833`, `:868-870`), in a slot without a reader count, which may be
  destroyed and created anew meanwhile. With one NIC there is no such slot.
- `PairsAttached` needs that no source was removed: sources are not detached
  (`RTP_streams_manager.c:390`), so that the twin on NIC 1 of a removed source stays
  listed and is sent by nobody.
- `ImplementsRemoteCall` needs a timely daemon and serial calls, neither of which the code
  enforces. With calls that overlap (`Serial = FALSE`) it fails even when the daemon is
  timely: all callers share one flag and one pointer (`module_netlink.c:217`), and a caller
  may return on, or find in its `msgAnswer`, the reply to another. With a late daemon the
  reply is written where `response_from_user_land` points (`module_netlink.c:151`), into the
  stack frame of a call that has returned.
- `ClocksFollowRate` leaves out a driver whose interfaces were named while it was started
  (`renamed`). "the caller must call stop before calling" (`manager.c:399`), but the message
  is handled in any state: a NIC that becomes active then gets no clock before the
  next start.
- `PressedComesUp` leaves out a mousedown all of whose `OnClickFunc`s threw (`Common.js:356`):
  no time-out is set, and the button stays down.

And two disagreements that no property states: an open that fails after it has set the
substream (`audio_driver.c:1962`, `:2037`, `:2092`) leaves it set, since the core does not call
close then; and a second `AttachButton` (`Common.js:356`) overwrites the closure that
`DetachButton` can remove, so that the first one listens for ever.

And what the properties of the web application say about it: the first measured point
of a graph lies at the time of the last one that was filled in (`TimesEven`); at the
right edge the hover detail shows the last point but one (`LegendIsCurrent`), and it is
stale while the mouse is over something that is not drawing or has left; with an empty
list of names the count and the data of a series disagree, which is why `SeriesInfo` is
not empty; a value outside the configured range is drawn outside the chart, since the
range does not widen (`DrawnIsCurrent`); `DettachMultiSelectCheck` removes no listener, and
an attach does not repaint (`ChecksPainted` starts from the first paint); the time-out of
a button paints over a colour set within its 200 ms.

## 5. Proofs

A proof module holds the theorems about the module it extends, for every value of the
constants that satisfies the ASSUMEs of that module: any numbers of CPUs, masters,
slots, callers, points and so on, and no bound that a run needs. Each theorem
`Spec => []P` rests on an inductive invariant, since hardly any of the properties says
enough of the states in the middle of a call to be kept by itself; all were checked
with TLC before they were proved. A hypothesis beyond the ASSUMEs is part of the
theorem; the runs in which the property passes satisfy it, and section 4 shows what
happens without it.

| Module | Theorems | Hypotheses |
|---|---|---|
| `PTPClockProofs` | `TypeCorrect`, `LockedOnEvidence`, `NoFormerRate` | |
| | `OneMasterPerLock` | `[]ElectionApart`: no CPU elects a master while another handles a Sync or Follow_Up |
| | `SameSync` | `[]PacketsApart`: moreover, one CPU at a time handles a Sync or Follow_Up |
| | `ElectsInDomain` | `SingleCpu` |
| `PTPClockRefinement` | `ClockImplemented` | `FewCpus`: fewer receiving CPUs than the PTP hysteresis; a TIC hysteresis other than 1 |
| `RTPSourceStreamsProofs` | `TypeCorrect`, `ListSound`, `FreeSlotsDestroyed`, `SlotsAlwaysSuffice` | |
| | `ReadStreamsStable` | one NIC |
| | `UnracedSendsInitialized` | `[]NotRetaken`: no add takes a slot that `ReaderLeave` is destroying |
| `RTPSourcePairsProofs` | `PairsAlwaysAttached` | |
| `NetlinkRPCProofs` | `TypeCorrect` | |
| | `SuccessIsReply`, `RemoteCallImplemented` | `Timely`, `Serial` |
| `PcmRingProofs` | `FlagsAlwaysAgree`, `ClocksAlwaysFollow`, `OnlyTriggeredRun`, `StoppedAlwaysSilent` | |
| | `PositionsInBuffer` | no buffer is shorter than the longest frame |
| `StatsGraphProofs` | `SizesAreLengths`, `TimesAlwaysEven`, `DrawnAlwaysCurrent`, `LegendAlwaysCurrent`, `WindowSlides` | |
| `WebControlsProofs` | `TypeCorrect`, `ChecksArePainted`, `SyncRequestsInOrder` | |
| | `CookiesRead` | names are sequences of characters other than "=" |
| | `VersionsOfBrowser` | `appVersion` says nothing that `userAgent` does not |

**PTPClock** (any sets of CPUs, masters and domains, any set of sequence ids below any
modulus, a PTP hysteresis of at least 3 and a TIC hysteresis of at least 1).

- `LockedOnEvidence`: `EvidenceInv` says that the PTP counter and the time stamps
  counted since the last reset add up to at least the hysteresis, and that the TIC
  counter is either untouched or the sum with it reaches `Evidence`; or else
  (`NeverStarted`) no start has happened, since `init_ptp` leaves the TIC counter at 0.
- `NoFormerRate` follows from the position of the management thread.
- `OneMasterPerLock` and `SameSync`: `ElectionInv` and `PairInv`. A packet being handled is
  of the elected master, and nothing is counted between the reset and the end of an
  election; between packets T2 is of the last Sync of the elected master (`Paired`), or
  nothing has been counted, or a Follow_Up of that very Sync has (`told`). Both theorems are
  for any number of CPUs: the hypotheses exclude overlaps of handlers, not CPUs, and
  `ptp_election` shows that the first one is needed.
- `ElectsInDomain`: `ElectedInv` adds to the elected master the one an Announce handler
  is about to elect, both while no change of the configuration waits for an Announce
  and `SetPTPConfig` is not between its two assignments.
- `ClockImplemented`: every step of PTPClock is a step of LockedClock or leaves its state
  alone. Two facts make it inductive. `TICWaits`: from the first reset on the TIC
  counter is untouched until the PTP counter has reached 0, so that the status never
  skips LOCKING (with a TIC hysteresis of 1 one time stamp would do both).
  `CountsOnce`: while the clock is stopped, each handler that was at work can take one
  from the PTP counter and then no more, since a packet that comes later finds the
  clock stopped: the counter and the number of handlers that are past counting
  (`DoneCounting`) add up to at least the hysteresis. With fewer CPUs than that the counter
  stays above 0 and the status UNLOCKED. The code's hysteresis is 4: with four CPUs or
  more in the handler a stopped clock may report LOCKING.

**RTPSourceStreams.** `Inv` relates the two actors: the copy of the timer callback holds
no slot twice (`CopyInv`) and is what the reader counts count (`ReaderInv`); the slot the
management thread works on is not listed, and has no reader while it is created or
destroyed (`OpInv`); a free slot with a stream has somebody who is about to destroy it
(`DestroyInv`); and an active slot that is not listed is being added or removed, if no
add has failed (`ActiveInv`). `ReadStreamsStable` is the action property that a stream
being read stays as it is; the hypothesis of one NIC makes the slots that were entered
all the callback works on. `SlotsAlwaysSuffice` is the pigeonhole argument behind the
code's "twice as many slots": a slot that is not free is in the list or in the copy.
`UnracedSendsInitialized` is about the property that `rtp_race` violates: `StreamInv`
says that every listed stream, the one about to be listed and every stream of the copy
being sent is initialized, and `Inv` keeps the management thread away from them; what
is left is a `Destroy` by `ReaderLeave` in an active slot, which `NotRetaken` excludes.

**RTPSourcePairs.** `PairInv` adds, while nothing was removed and no add has failed
(`Calm`), that the copy of the timer is part of the list, so that nothing is destroyed
(`CalmInv`), that an identifier is used once per NIC (`KeyInv`), and that two listed
streams are attached if and only if they have the same identifier (`AttachInv`).

**NetlinkRPC.** `CallInv` follows the message of the one call on its way: it is in the
daemon's socket, in the reply being written, or in `have_response`, and gone otherwise
(`ReplyPending`); `response_from_user_land` points into the frame of that call or nowhere
(`Points`). The daemon may die and be started again at any point. For
`RemoteCallImplemented` `ReplyInv` adds the converse: a reply was to a call that has been
made, and a call that has not been sent, that waits with nothing on its way, or that was
told of no reply, has none. Every step is then a call, an answer, a return or a stutter.

**PcmRing.** `IOInv` says for every step of `start`, `stop`, the setters and `startIO`/`stopIO`
what holds in the middle of it: `m_bIORunning` is the disjunction of the directions
except between the two writes of a `startIO` or `stopIO`, which knows what it will
write (`FlagInv`); a direction runs only on a started driver (`StartedInv`); the clocks
are those of a driver before, half way through, or after a start, stop or change of
rate (`ClockInv`). `TriggerInv` relates the directions to the state of the ALSA core.
`BufferInv` bounds the position by the buffer, and the offset on its way in an
interrupt by the buffer and a frame, unless a prepare was straddled. `PositionsInBuffer`
has as hypothesis exactly what `pcm_position` violates.
`StoppedAlwaysSilent` is the safety part of `StopIsQuiet`: from the end of `tasklet_kill`
to the next start of the timer (`Silent`) the timer rests, or one last callback runs that
finds no direction running and will find `stop_` set (`LastCallback`).

**StatsGraph.** `SeriesInv` gives the time of every point in closed form (`Time`, in which
the instant -1 occurs twice), so that series are level, whichever of them came late,
and one more point with the oldest gone is the same form one step on; `ConfigInv` fixes
settings and callbacks from creation on; `DrawnInv` says that stacked data, scale
and svg are those of the items. `RenderFacts` shows that `render` establishes `DrawnInv`
whatever was drawn before, and `HoverFacts` that the hover detail touches nothing but
itself. The theorems hold for any number of status messages with any names.
`LegendAlwaysCurrent` needs where the walk of `hoverUpdate` from its first guess ends.
`HoverWalk` gives the closed form of that recursive function: it ends at the last point
that is not right of the mouse, or at the next one if that is nearer, and where no
point is right of the mouse at the guess. The points lie in the order of their places
(`PlacesSorted`), so that there is one such pair.
`NearestFacts` and `PointFound` show that of its two ends the nearer one is shown, and
`HoverInv` that the legend is of the last event and the same point for every series.

**WebControls.** One invariant per part: a group of checks is enabled as a whole, has at
most one selected, and has the colours of its states once painted (`CheckInv`); a
synchronous request that waits for its answer is the last one sent (`AjaxInv`); the cookies
are those that were written and have not expired (`CookieInv`). `CookiesRead` further needs
that of the pieces of `document.cookie` at most one begins with a name and "=": two pieces
that do agree up to their first "=", which ends the name of both.

Every safety property that a passing run checks is a theorem. Only model-checked,
because the prover does not treat liveness under fairness: `SilentMasterUnlocks`,
`SilentMasterReplaced`, `ConfigTakesEffect`, `RemovedIsDestroyed`, `StopIsQuiet`,
`IOServed`, `PressedComesUp`.

## 6. Not modelled

See `components`. In the modelled parts: the arithmetic of `ProcessT1` and
`timerProcess` (period, phase, TIC counter), the statistics, the audio data, the
content of Netlink replies, name updates and the status of source streams. A NIC whose
link is down is not modelled because `IsLinkUp` always answers 1
(`EtherTubeNetfilter.c:48`). Critical sections are atomic, so a softirq that spins on
a lock its own CPU holds (`PTP.c:204`) is not visible in these modules.

In NetlinkRPC: the data behind the header of a reply (`module_netlink.c:152-176`). In
IOControl and PcmRing: calls of two threads that overlap, the muting and the copying
of samples, the DSD modes (in which offsets are scaled), messages with invalid contents,
and the build for kernels from 6.15 on, where `hrtimer_cancel` waits for the callback
and cannot be overtaken by a restart. In the web application: Dojo and the pages, which
are minified builds; the parts of Rickshaw that nothing reaches; layout; colours beyond their
identity, number formats and rounding; helpers that only put HTML together.

## 7. Plan

In this order:

1. `RTPSinkStreams`: sink slots and per-NIC lists, attach and detach, dispatch in the
   hook, sample counters, muting and status flags of an ST2022-7 pair.
2. IOControl without `Alone`: which overlaps of calls are harmless.
3. `LockContexts`: which context takes which lock with which interrupts enabled.
4. `MTAL_IPC` and the Butler 1.1.93 layouts; `MTConvert` as functions against a
   reference, on bounded words.
5. An abstract specification of a slot that is created, read and destroyed. The code
   does not implement one as long as `prepare_buffer_lives` leaves the source slots under
   the lock of the sinks (`rtp_race`); with that lock `NotRetaken` is an invariant.
6. Theorems: the properties of items 1 and 2 along the invariants of section 5.
