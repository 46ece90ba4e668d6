# blah2 in TLA+

blah2 is a passive radar for two coherent receivers. One process (C++, `src/src`) takes samples from
an SDRplay RSPduo, cuts them into coherent processing intervals (CPIs), filters and processes them and
writes JSON frames to TCP sockets. A second process (Node, `src/api`) collects the frames, serves them
over HTTP, forwards detections to a tracker and takes requests to retune the radio. A shell script
watches both. These modules specify the parts of it that are hard to test: the threads of the radar
loop, the sample ring, the retune protocol between the two processes, the driver's overload events and
what is reported of them, the way frames cross the sockets, the histories that follow the time stamp and
the pages that plot them, the aircraft that the radar's echoes are compared with, and the watchdog.

Source lines are given relative to `src/`: `src/blah2.cpp` is the file `src/src/blah2.cpp` of the
repository tree.

- [Inventory](#inventory): the parts of the system, and what makes each correct
- [Modules](#modules): which module models what, and how it corresponds to the code
- [Runs](#runs): what TLC checks, the bounds and the fairness
- [Disagreements](#disagreements-between-the-code-and-what-is-said-of-it)
- [Proofs](#proofs): what holds for every value of the constants, and why
- [Not modelled](#not-modelled), [Plan](#plan)

`tlc -config X.cfg M` checks a run, `tlapm M.tla` a proof module.

## Inventory

### blah2, the radar process

| part | state | operations | correct when |
|---|---|---|---|
| **Radar loop** (`src/blah2.cpp`, `CpiPipeline.h`, `TuneState.h`) | two capture buffers with a mutex each; two CPI slots; the queues `freeSlots` and `filteredSlots`; the retune flag and frequency (two atomics) | the driver's callback pushes; the front stage extracts, latches a retune, filters, hands on or drops; the back stage processes, sends five frames, returns the slot | no slot is lost or shared; every CPI is finished once and in order; its two channels hold the same samples; a retune survives a dropped CPI; a time stamp follows its data; the two threads that take both mutexes never wait for each other |
| **Sample ring** (`src/data/IqData.*`) | storage, head, count (uint32) | push (overwrites the oldest), pop, clear, `operator[]`, copy | it is a bounded first-in first-out queue, at every capacity its index type allows |
| **Retune thread** (`src/capture/Capture.cpp`, `RspDuo::retune`) | last generation retired, generation attempted, attempts | poll the API, update frequency and gains, acknowledge or reject | attempts end; what is reported as applied is so; a request takes effect or is rejected |
| **Overloads** (`RspDuo.cpp`) | level and count per tuner, acknowledgements pending, the Update mutex | event callback; control loop; re-stage after Init | Updates of two threads never mix; each onset is counted once; each event is acknowledged in the end |
| **Status reports** (`Capture.cpp`, `RspDuo.cpp`) | peak levels, overload counts, the last report | the stream callbacks raise the peaks, a thread takes and posts them; another looks at the overloads and posts what changed, and a heartbeat | no counted overload is withheld or made up; no peak is lost between callback and report |
| **Ambiguity, clutter, CFAR, centroid, interpolation, spectrum** | buffers and FFT plans | one call per CPI | windows and batches stay in range; thresholds (floating point) |
| **Output** (`Map.cpp`, `Detection.cpp`, `Timing.cpp`, `Socket.cpp`) | one socket per kind of frame | write a frame in chunks | whole frames, in order |
| **Shutdown** (`blah2.cpp`, `Source.cpp`) | - | signal handler, Uninit, exit | no driver call after Uninit |

### The API process

| part | state | operations | correct when |
|---|---|---|---|
| **Ingest** (`api/server.js`) | one gathering buffer and one served text per socket | a listener per socket | what is served ends with a whole frame; no listener sits on a finished frame |
| **Tracker forward** | the connection | write a detection frame | only whole frames, each once, in order |
| **Retune endpoints** | last request and generation, last acknowledgement, last rejection | request, poll, ack, reject, status | see the retune thread |
| **ADS-B cache and match** (`api/server.js`, `api/lib`, `bistatic.js`) | aircraft, time of the request that filled the cache | fetch with a timeout, stamp the positions, project them, match echoes, show the aircraft | no caller gets aircraft older than the cache's second; an echo is named after the aircraft it came from; an aircraft is shown where it is; a caller goes on whatever becomes of the fetch |
| **Stash** (`api/stash`) | histories of four 100 ms pollers | fetch a CPI's frame on a change of the time stamp, push it, age the history | a CPI that is served reaches the history; all lines of a history end with the same CPI; what is too old goes |
| **Pages** (`web/html/js`) | the stamp seen last, the traces plotted | fetch a history on a change of the stamp, redraw or build anew | what is plotted is what the stash said last, under its own name |
| **Watchdog** (`script/blah2_rspduo_restart.bash`) | stored restart count, recovery count | a check every five minutes; a recovery takes the stack down, restarts the SDRplay service, from the second on resets the radio on USB, brings the stack up | a starting radar keeps its grace period; trouble is not hidden by crash loops or old maps; two recoveries repair what can be repaired |

### How they interact

The driver calls `stream_b_callback` and `event_callback` from its own threads. The callback shares the
capture buffers with the front stage (two mutexes), the event callback shares atomics with the control
loop. The retune thread writes `TuneState`, the front stage reads it. blah2 polls the API over HTTP for
retunes, and posts outcomes and reports back; it writes frames to sockets that the API listens
on. Each stash polls the API it runs in over HTTP, and each page polls that API for the same time stamp and
then for the stash's history. The listener of the detections and the route of the aircraft share the
ADS-B cache, which is filled from tar1090. The watchdog reads the map's time stamp from the API and restarts containers.

### What is hard

- *Interleaving*: two mutexes taken by two threads; a flag and a value in two atomics; a listener that
  goes on reading while a frame waits for the aircraft; a driver that runs its callback inside the
  control thread's Update.
- *Failure of one step of several*: the filter fails on the CPI that took the retune; the gain update
  fails after the frequency update; a frame does not parse.
- *Order of arrival*: a time stamp and the data it announces come over different sockets, the timer of a
  poller does not wait for its last request, and a page looks at the stamp first and at the data later.
- *Age*: a position has been under way in the aircraft's feed, in tar1090's cache, in a slow answer and in the
  API's cache when an echo, itself a CPI old, is compared with it.
- *Missing values*: JavaScript's `!x`, `??` and `typeof` treat 0, null, "ground" and NaN each in its own way.
- *Restart of one process*: generations count from 0 again; a half-written frame heads the next one.
- *Unreliable calls*: posts whose result nobody looks at; polls that fail.
- *Limits*: the ring at capacity and at the end of its index type; the capture buffer dropping samples.

`PROJECT.json` lists each hazard at its line with the properties that would catch it.

## Modules

| module | what it is | modelled from |
|---|---|---|
| `Fifo` | what pushing a bounded queue does, as a sequence | `src/data/IqData.cpp` |
| `BoundedFifo` | abstract: a queue that drops its oldest sample | what `IqData.h` promises |
| `IqData` | the ring; implements `BoundedFifo` | `src/data/IqData.*` |
| `TuneHandoff` | abstract: an announced frequency is adopted in capture order and survives dropped CPIs | what `TuneState.h` promises |
| `CpiPipeline` | the radar loop; implements `TuneHandoff` | `src/blah2.cpp`, `CpiPipeline.h`, `RspDuo.cpp`, `Capture.cpp` |
| `Retune` | API endpoints, retune thread, device, restarts | `api/server.js`, `Capture.cpp`, `RspDuo.cpp` |
| `OverloadLevel` | abstract: the level and the count of each tuner that other threads may load | `RspDuo.cpp` |
| `Overload` | driver, event callback, control loop, retune thread; implements `OverloadLevel` | `RspDuo.cpp` |
| `OverloadReport` | the looks at level and count (`OverloadLevel`), the reports, the API, restarts | `Capture.cpp`, `RspDuo.cpp`, `api/server.js` |
| `PeakHold` | the peak of a tuner between stream callback and report | `RspDuo.cpp` |
| `Ingest` | blah2's writes, the sockets, the map and detection listeners, the tracker | `Socket.cpp`, `api/server.js` |
| `Pollers` | the four stashes and their pages, following the time stamp | `api/stash/*.js`, `web/html/js/plot_*.js`, `api/server.js` |
| `AdsbTruth` | operators: what is computed from an aircraft | `api/lib/*.js`, `api/bistatic.js` |
| `Adsb` | the aircraft cache, its fetches and its two callers | `api/server.js` |
| `Watchdog` | the script, against Docker, the GUI and faults | `script/blah2_rspduo_restart.bash`, `Socket.cpp`, `docker-compose.yml` |
| `MC*` | instances for TLC | |
| `IqDataProofs`, `CpiPipelineProofs`, `RetuneProofs`, `RfStatusProofs`, `IngestProofs`, `PollersProofs`, `AdsbProofs`, `WatchdogProofs` | theorems | |

Definitions keep the source's names where they can: `freeSlots`, `filteredSlots`, `fcChanged`,
`currentFc`, `lastApplied`, `overload_ack_pending`. A definition whose comment begins with "Mutant of"
is a plausible mistake in the definition it names, used to show that a property can fail; no
specification refers to it.

**`CpiPipeline`.** Four threads, one program counter each. A step is one operation that another thread
can see: a mutex taken or released, a sample pushed or popped, an atomic exchanged, a slot handed over, a
frame sent. What a thread does to a slot it alone holds is folded into the next visible step. A sample
is the number of its arrival, a CPI the number of its extract, so that order, loss and alignment can be
stated; values and times are left out. `StreamCallback`, `CaptureLock`, `CapturePush`, `CaptureUnlock`
are `stream_b_callback`; `FrontPopFree` to `FrontDrop` are thread t2 from `freeSlots.pop()` to the
hand-over, with the failed filter as `FrontFail` and `FrontDrop`; `BackPopFiltered` to `BackRelease` are
thread t3; `RetuneDevice` and `RetuneStore` are the end of the retune thread's loop body. The queues' pop
blocks (the condition variable of `BlockingQueue` is inside `pop`). `RetuneDevice` takes it that each
change of frequency is announced; the run `retune_current_fc` shows when it is not.

**`IqData`.** `head`, `count` and the storage as in the class, with the conditional subtraction of `wrap`
and the widening to 64 bits as operators of their own. `U32` stands for 2^32.

**`Retune`.** A request is a frequency and a gain setting. `Fetch` is a poll that brings a pending
generation, `Tune` is `RspDuo::retune` with its three outcomes (not ready, refused at one of the updates
with the earlier ones made, applied), `Post` is the answer to the API, which may be lost. `Restart` and
`ApiRestart` wipe one process's memory. A fractional frequency passes the API's validation and is
dropped by `%u` in the reply's `sscanf`, so it is pending in the API and never in blah2.

**`Overload`.** The driver is external, and modelled from how the code uses it and what its comments say
of it: it repeats an event until an Update acknowledges it, serialises Updates, and no Update returns
while the event callback has not. The callback's exchange of the level, its count and its return are
steps of their own. A failed re-stage ends the process and is left out. So is the control loop's flag
`run_fg`: of its two writers in the callback, a failed `malloc` (`RspDuo.cpp:783-787`) leaves a null pointer that
`stream_b_callback` writes through (line 846), which ends the process, and a failed save of IQ data (867-872) needs
the capture flag, which nothing sets. The control loop therefore runs as long as the model does.

**`OverloadLevel`, `OverloadReport`.** What a thread that loads the four atomics may see is an abstract
specification of three steps (`Rise`, `Count`, `Fall`). `Overload` implements it (`LevelIsAsLoaded`), and
`OverloadReport` takes it for its environment, so that the report need not carry driver, mutex and
acknowledgements. `LookAtLevel` and `LookAtCount` are one load each. `Post` may follow any look, as any may be the
first that is two seconds after the last report; `Skip` needs a look without news. A post is delivered and answered
(`Delivered`), delivered or lost without an answer (`Unanswered`). Only the answer moves `last`. A post is not
delivered after a later one: the thread waits for each, over localhost. `Blah2Restarts` and `ApiRestarts` wipe one
process's memory. The poll for a retune between two looks is in `Retune`.

**`PeakHold`.** One tuner, since the two share nothing. `ScanSample` is one turn of the loop over the block;
`LoadHold` and `Raise` are the load and the weak compare-and-exchange, which may fail for no reason; `TakePeak` is
the exchange of `get_peak_dbfs`, at any moment. `Short` is the cast to 16 bits, which wraps the absolute value of the
lowest sample. The conversion to dB and the post are left out.

**`Ingest`.** A frame is a sequence of `Parts` pieces, the last of which ends in `}`; a read returns any
prefix of the bytes that have arrived on one connection. That covers every split of the bytes, including
reads across a frame's end. The map listener stands for those of the timings and the IQ data, whose code
is the same; the detection listener is modelled with its wait for the aircraft, its `catch` and its
`finally`. Assumed: every chunk written is delivered whole (`Socket.cpp:26-30` looks neither at the count of bytes
nor, before the next chunk, at an error), bytes written before a crash of blah2 still arrive, and the older connection
is read to its end before the newer one.

**`Pollers`.** A text is the sequence of the CPIs whose bytes it holds, so that two stamps or two frames that
were read at once are told from one, and only a text of one CPI parses. `Send` is the end of the back stage;
`Publish` a read by a listener, for the stamps and for the frames, which arrive over sockets of their own. A
request of a stash goes through `Poll`, `Stamp`, `Answer` and `Take`, and several may be under way; `Pushed` is
the body of the `end` handler of the stash at hand. `Shifts` is the loop of `detection.js`, which calls
`shift()` while it counts up and so looks at every other entry only. `Refresh` and `Draw` are a page;
`Redraw` is the part that `plot_timing`, `plot_detection`, `plot_spectrum` and `plot_map` share, with the
signature each of them compares (which for two of them is `undefined`, as the stash has no `nRows`), and what it
does not find in an answer ends the callback. The four stashes have no state in common; a behaviour follows one
of them, chosen in `Init`. `Ingest` models how reads cut and join the texts; here a read is one of whole ones.

**`AdsbTruth`.** Receiver, illuminator and aircraft lie on one north-south line and distance is measured along
it, so that delay and Doppler are integers and an echo agrees with the formula exactly. Kept as they are: which
altitude and which vertical rate is taken, what counts as missing, what is returned then (null in `bistatic.js`,
0 in `geometry.js`, the aircraft without a delay in `extrapolation.js`), the cut-offs of age, the tolerances and
the choice among candidates. Abstracted: WGS84, units and the second horizontal dimension.

**`Adsb`.** A call of `getCachedAircraft` has a step up to its `await` and one after it; in between tar1090
answers (`Answer`), the answer ends (`End`), fails or does not parse (`Error`), times out (`Timeout`) or is cut
short (`Cut`). In the last case node reports an `aborted` answer to handlers the code does not set, so the
promise is never settled: the listener of the detections keeps `processingDetection` and no frame is served
until the API restarts. `PlaneAt`, `EchoOf`, `Report` and `Payload` are the world outside: an aircraft that flies
straight on, the echo it gives, and what tar1090 says of it and when; `FlightAssumption` says where it flies.

**`Watchdog`.** The script is one process with one step for each thing it looks at and each command of
the recovery (`CheckMode`, `CheckCalibrate`, `CheckRestarts`, `CheckGrace`, `CheckMap`, `TakeLock`, `Down`,
`RestartSdrplay`, `Up`). Between any two of them the GUI may take or give back `restart.lock`, a calibration
begin or end, something wedge, blah2 exit, or the API restart. The last leaves blah2 writing to dead
sockets, since `Socket.cpp` never connects again. Time passes between the checks, in minutes. A wedged service is repaired by its restart, a
wedged radio by the reset on USB only, as the script's comments have it. The GUI and Docker are not in
the repository and modelled from what the scripts say of them.

## Runs

| run | what it shows | states |
|---|---|---|
| `pipeline` | every interleaving of callback, both stages and two retunes over three CPIs: slots, order, alignment, retunes, time stamps, timing reports, no mutex cycle | 556,532 |
| `pipeline_live` | the loop implements `TuneHandoff`; the driver's callback returns; a filtered CPI is announced | 50,032 |
| `capture` | the ring reads the same both ways and implements `BoundedFifo`; the report is true of the overloads and each gets to the API; no peak is lost between a block and a report | 67,558 |
| `retune` | attempts end, what is reported as applied is on both tuners, a request takes effect | 32,376 |
| `overload` | Updates do not mix, onsets count once, events are acknowledged; implements `OverloadLevel` | 39,782 |
| `ingest` | maps end whole, no frame is stranded, the tracker gets whole frames in order, the newest map is served | 17,658 |
| `watchdog` | every crash loop is found, the grace period is kept, trouble is attended to on the second check, the second recovery repairs, the radio is reset on USB no sooner than that | 3,026,604 |
| `pollers` | a fresh CPI is taken, a window thins out, all lines of a history end together, a page plots the history | 710,638 |
| `adsb` | callers get fresh aircraft, echoes are named after the right one, the map shows them where they are, waits end | 119,982 |
| `retune_current_fc`, `ingest_unchanged`, `adsb_climb` | one disagreement each, see below | violated |

`MCCapture` holds three machines that share no variable, the ring, the report and a peak; a behaviour runs one of
them, as steps of the others in between would add nothing. The type invariants of the other modules are theorems
(`TypeCorrect`, `ReportTypeCorrect`, `PeakTypeCorrect`) and are not run again. That of the ring is, because there the
type is the point: an index beyond the storage.

**The properties worth a reviewer's time.** `ExactlyOnceInOrder` joins the sent time stamps with the CPIs
in both stages and the queue: the line never goes back, and with the dropped CPIs it is everything ever
extracted. `ChannelsAligned` says that overflow of the two capture buffers, which drop samples each on
its own, never shifts one channel of a CPI against the other. `RetuneNeverLost` follows a frequency
through the flag, the latch, the slot, the queue and the back stage. `StatusIsTruth` relates the API's
word to the tuners across lost posts, partial failures and restarts. `EventsAcked` is the absence of a
deadlock between driver, callback and control loop. `ReportIsTrue` compares what blah2 takes for reported with
what the API has, across lost posts, lost answers and restarts: the two may differ, but never at a look that finds
no news. `NoPeakLost` is about a compare-and-exchange that another thread's exchange comes between. `FreshCpiIsTaken` is about overlapping requests
that are answered in any order (it supposes a frame that is served when its stamp is, and so says nothing of a stamp
that overtakes its frame); `WindowThinned` says what the skipping loop achieves (half of what is due,
from the old end, and nothing that is not due). `EchoIsMatched` compares the whole way of a position through
two caches, a slow answer and the projection with where the echo came from, and is an equivalence: an echo from
2 km beside an aircraft gets no name. `TrackerGetsFrames` and `MapEndsWhole` hold although
what is served is sometimes two frames glued together.

**Bounds.**
- *Radar loop*: two slots are `kPipelineDepth`. CPIs of two samples and buffers of three keep the ratio
  of the shipped configurations (`tBuffer` 1.5 CPIs) and are the smallest with a buffer that overflows
  in the middle of a CPI. Seven samples make three CPIs, one more than the slots, so that slots
  are reused; two retunes meet in every position of the latch. The slots are symmetric: no action and no
  property tells them apart. The liveness run has no symmetry and takes one retune and two CPIs.
- *Ring* (`MCCapture`): `n = 4`, `U32 = 5`: the largest ring its index type can count, the only place where the width
  of the sum matters.
- *Retune*: `MaxAttempts = 3` is `MAX_RETUNE_ATTEMPTS`. Two requests supersede one another; one restart
  of each process puts a generation handed out twice against a memory of the first.
- *Overload*: one overload of each tuner, its end, and one retune; the re-stage, the acknowledgements and
  the retune are all the Updates there are.
- *Overload report* (`MCCapture`): one overload of each tuner and life of blah2, which comes and goes between two looks or
  between two loads; one restart of each process, in either order. A second overload meets the same states of
  report and API, and the theorems have no bound.
- *Peaks* (`MCCapture`): samples of three bits, so that a block is any set of eight values; the width is a constant.
- *Ingest*: two pieces a frame already give every kind of read (head, tail, whole, across an end); three
  CPIs and one restart let a cut frame stand between two whole ones.

- *Pollers*: three CPIs, one more than the history of two that `NCpi` keeps, and a gap of four against a window
  of two, so that one CPI makes several entries overdue at once. Reads of up to two texts glue stamps and frames.
  The requests of the four stashes have the same code; two of them overlap in the stash of the IQ data. The API
  restarts under the two pages that build their plot anew. Timings come with and without one stage.
- *Adsb*: a timeout of two seconds against a cache of one lets a fetch outlast the cache and overtake another; data
  and positions up to three seconds old reach the cut-offs (two seconds for the map, three for a match, in
  place of 10 and 20) from both sides. The scenes go through each altitude and rate being there or not, level
  and climbing flight towards and away from the sites, an aircraft on the ground, no heading, no speed,
  a track of 0, and an API without truth, location or `now`. Both callers share the cache in one scene.
- *Watchdog*: the grace period and the staleness are the deployed minute. The period between checks is
  three minutes instead of five and the calibration's timeout four instead of twenty: what matters is
  that both exceed the minute and that the timeout exceeds the period. `MaxRestarts = 7` is more than a
  container reaches before two checks and a recovery replace it. Three faults and three operations of
  the GUI make every pair of troubles, with an operation before, between and after.

`CHECK_DEADLOCK FALSE` stands in the runs of `Retune`, `Overload`, `Ingest`,
`Pollers`, `Adsb` and `Watchdog`, whose bounded environment
comes to its end. The other runs look for deadlock; in the radar loop the front stage's retry keeps
stepping when the samples have run out, so what finds threads that wait for each other there is
`NoLockCycle` and the liveness run.

**Fairness.**
- *Radar loop*: the operating system runs every thread (weak fairness). For the two mutexes it is
  strong: the front stage sleeps 1 ms between two tries (`blah2.cpp:270`), so a waiting callback gets its
  turn, and the other way round. `FrontPass` is fair, so the filter does not fail for ever. The driver's
  calls and retunes are not owed.
- *Retune*: a poll comes every 250 ms and gets through sooner or later; `RspDuo::retune`, the posts and the
  device's start return. Success of an Update, arrival of a post, and restarts are not assumed.
- *Overload*: the driver repeats itself and carries out its Updates; a failed acknowledgement, made again
  at the next repeat, succeeds at last (strong fairness of `UpdateReturns`). The mutex is strongly fair.
- *Overload report*: the callback and the thread run on. Looks that post come again and again, be it for the
  heartbeat, and not all they post is lost (strong fairness of an answered post).
  Restarts and overloads are not owed.
- *Ingest*: blah2 sends on, and the event loop serves every socket that has bytes. Restarts, the tracker and an
  end of the wait for the aircraft are not owed.
- *Pollers*: the timers of the API's process fire, and its own routes answer it. blah2, the listeners and the
  browsers owe nothing.
- *Adsb*: time passes and the socket's idle timeout fires while there is a socket. Every piece of an answer starts
  that timeout over, so it fires `HttpTimeout` after the call or later, and fairness takes it that tar1090 does not
  send an answer piece by piece for ever. It owes nothing else: `WaitEnds` leaves out the answer that is cut short.

## Disagreements between the code and what is said of it

1. `retune_current_fc`: the frequency update succeeds, the gain update fails, the retry finds the
   frequency unchanged and reports no change: `TuneState::currentFc` keeps the old frequency for good.
2. `ingest_unchanged`: a read that holds the end of a frame and the start of the next publishes nothing,
   and the frames are later served as one text.
3. `adsb_climb`: the route of the map hands aircraft to the projection without `baro_rate`, so one that climbs is
   drawn with the Doppler of a level one, which is what `extrapolation.js:37-43` says was put right.

Seen while modelling, and not runs of their own:

- `(short)std::abs(x)` of -32768, which fits no short, is -32768 again (`RspDuo.cpp:821`), so a block's lowest sample
  raises no peak, where line 72 speaks of the peak sample magnitude. `NoPeakLost` is about all the other samples.
- A fractional frequency passes `api/lib/retune.js:20`; `%u` stops at the point, and blah2 neither applies nor rejects it.
- A request pending when blah2 starts may be rejected within half a second without an update having been tried:
  polls before the device is ready count as attempts (`RspDuo.cpp:302`; `server.js:261` says a rejection means
  that the hardware refused).
- `POST /capture/retune` sets `config.capture.fc`, by which echoes are matched, at once, and a rejection does not
  set it back (`server.js:222`).
- The watchdog reads the mode before it inspects the container and asks for the map, and takes the lock after. A
  mode switch in between ends with blah2 started in a mode that "is stopped on purpose"
  (`blah2_rspduo_restart.bash:62`).
- The window of the detections is not "the last 300 s" (`openapi.js:27-28`) after a gap: each CPI removes half of
  what is overdue (`WindowThinned`). Two stamps in one read make a number far ahead, by which half of the history
  is overdue at once.
- A stamp that overtakes its frame makes the stash take the CPI before a second time and skip the new one unless
  the frame is there when the route answers; a detection frame that waits for the aircraft is late by that wait.
- A page opened before the first CPI keeps the empty heat map's axes in `plot_detection` when its x axis is time.
- A stage that appears later is drawn in `plot_timing` against the times of the CPIs before it, for up to `nCpi`
  CPIs.
- The requests of the stashes have no `error` handler and name port 3000.
- A track of exactly 0 counts as missing in `bistatic.js`: an aircraft flying due north is never matched, and
  shown with Doppler 0.
- An answer of tar1090 that is cut short leaves the detection listener waiting for good (`Cut`).

## Proofs

TLC checks small instances. For every value of the constants (any number of slots, samples, retunes,
requests and restarts, any ring below 2^32, any pieces of a frame, any window and length of the histories, any timeout and length of the aircraft cache,
any grace period and staleness shorter than the period of the checks) the following is proved with TLAPS, from
the assumptions the modules name and nothing else.

| module | theorem | states |
|---|---|---|
| `IqDataProofs` | `TypeCorrect` | the indices stay in the storage |
| | `CopyIsHeld` | `get_data` returns what `operator[]` reads |
| | `RingImplementsFifo` | the ring implements `BoundedFifo` |
| `CpiPipelineProofs` | `TypeCorrect` | types |
| | `SlotsAreConserved` | no slot is lost, duplicated or in two hands |
| | `MutexesExclude`, `MutexesNeverCycle` | each mutex has one holder; the two threads never wait for each other |
| | `CpisInOrder` | every CPI extracted is announced, dropped or in hand, once, and in order |
| | `ChannelsOfCpiAligned` | both channels of a CPI hold the same consecutive samples, and CPIs do not overlap |
| | `NoRetuneLost` | the frequency announced last is where the radar loop ends |
| | `RetuneHandoff` | the radar loop implements `TuneHandoff` |
| | `FramesBeforeTimestamp` | a time stamp follows all frames of its CPI |
| | `ReportsAreOfOneCpi` | a timing report names the stages of one CPI, each once |
| `RetuneProofs` | `TypeCorrect` | types, with the count of attempts within its limit |
| | `AttemptsEnd` | a request is tried at most `MaxAttempts` times a boot, and never once it is settled |
| | `StatusTellsTheTuning` | what the API reports as applied is on both tuners |
| `RfStatusProofs` | `TypeCorrect` | types, with no count above the number of overloads |
| | `UpdatesExclude` | the Updates of two threads never mix |
| | `OnsetsAreCounted` | each announced overload is counted once |
| | `LevelIsImplemented` | the callback implements `OverloadLevel` |
| | `ReportTypeCorrect`, `PeakTypeCorrect` | types of the report and of the peaks |
| | `ReportsAreTrue` | at a look without news the API has every overload counted; once blah2 has reported, it counts none of the process before |
| | `PeaksAreKept` | a sample is in a level reported since its block began, or in the next |
| `IngestProofs` | `TypeCorrect` | types |
| | `NothingStranded` | no listener sits on a finished frame |
| | `TrackerFrames` | the tracker gets whole frames, each once and in order |
| | `MapsEndWhole` | the map that is served ends with a whole frame |
| `PollersProofs` | `TypeCorrect` | types, with the histories within `nCpi` |
| | `LinesEndTogether` | no line of the timings is frozen at an older CPI |
| | `PageShowsItsAnswer` | a page plots what the stash told it last |
| | `HalfOfTheWindowGoes` | a CPI rids the window of half of what is overdue, and of nothing else (an action property) |
| `AdsbProofs` | `TypeCorrect` | types, with no position of the cache later than the present |
| | `AircraftAreFresh` | no caller gets aircraft asked for too long before its call |
| | `EchoesAreMatched` | an echo is named after the aircraft it came from while its position is young enough, and no other is |
| | `AircraftAreShown` | an aircraft is on the map while its position is young enough, and where it really is |
| `WatchdogProofs` | `TypeCorrect` | types |
| | `CrashLoopIsFound` | a check finds a crash loop exactly when there is one (an action property) |
| | `GraceIsKept` | a starting radar keeps its grace period |
| | `ResetIsEarned` | the stack was taken down `ResetFrom` times, since a check found the radar streaming or stopped on purpose, before the radio is reset on USB |
| | `TroubleIsAttended` | trouble is left alone by one check in a row at most |
| | `RadarComesBack` | `ResetFrom` recoveries undo what happened to the radar, if nothing more happens |

**The ring.** The heart is arithmetic: for `h < n` and `k <= n`, `wrap` of the 64-bit sum is
`(h + k) mod n`, written as `Place(h, k)` (`WrapReduces`; it needs `n < U32` and fails for a 32-bit sum).
The type invariant is inductive by itself. For the refinement the samples held are the sequence
`Ring(data, head, count)`, and one lemma per operation says what writing at a place and moving an index
does to it: `RingPush` appends, `RingPop` takes the head off, `RingPushFull` does both. `StepRefines` puts
each action of the ring under the action of the queue of the same name.

**The radar loop.** `TypeOK` is not inductive: popping a sample or reading a slot's time needs to know
that there is one. `WellFormed` adds `PcInv` (a stage has a slot exactly while its program counter says
so; while the extract runs, the buffers hold at least what is left to pop) and `Stamped` (a slot that
carries a CPI has its time). The proof has one lemma per group of actions. Mutual exclusion is a second
invariant over the program counters, `MutexInv`: a mutex has thread T as its holder exactly where T's
counter says it holds it. The two threads take the mutexes in the same order, so the second one can only
be wanted by a holder of the first, and that is one thread: `NoLockCycle`. `SlotsConserved` is inductive
relative to `WellFormed`; the lemmas on queues say what `Append` and `Tail` do to a queue's elements.

**What becomes of a CPI** (the second half of `CpiPipelineProofs`, on top of the two invariants above).
- *Order.* `OrderInv` puts the CPIs in flight in one line (the front stage's, the queue, the back stage's) in
  the order of their numbers, after everything announced and apart from everything dropped. Its lemmas say what
  the only steps that change the line do to it: an extract puts a new number at its end, `FrontDrop` takes the
  last away, the time stamp takes the first. `ExactlyOnceInOrder` follows from it.
- *Frames and reports.* `FramesSent` says which frames of the CPI in hand are out when the back stage is about
  to send the next one; `NamesInv` which stages a slot's timings name at each place of its way, the empty list
  after `FrontReset` included, without which a report would mix two CPIs.
- *Retunes.* `PathInv` looks for the last announced frequency where it can be: pending (announced and not yet
  latched), in the CPI at the filter, in the last retuned CPI of the queue, or adopted. A dropped CPI puts it back
  to pending. `TuneInv` says that what is carried is a frequency at all. The same invariants give the
  refinement: with `Filtering` and `Queue` for the variables of `TuneHandoff` that are not the loop's own,
  `StepHandoff` goes through the actions and puts each under one of `TuneHandoff` or under a stutter.
- *Alignment.* A buffer is a run of consecutive samples (`Run`) that ends at the newest one. `BufferInv` says how
  the two lengths may differ: by the one sample the callback has pushed into the first buffer only (and not even
  then if that buffer was full), or by the one the extract has popped from it only; the mutexes make
  that all. `PoppingInv` says that what was popped so far goes on exactly where each buffer begins, and
  `TakenInv` that no CPI reaches into the buffers. An overflow moves both runs on by the same sample, which is why
  both mutexes are needed around the pops.

**Retune.** Counting attempts per *request* (`tried`) against a counter per *generation* (`attempts`) needs
`Numbering` (generations never pass the number of requests, what the API offers is the last request made,
and if blah2 holds that one it knows it by the same generation) and `Counting` (what `tried`, `done` and
`attempts` say of the request in hand, and that the generation of a settled request is retired). An API
restart hands out generations again; a new request then either finds its generation retired, and is not
tried at all, or goes on with the count of the old one, and is tried less often: never more.
`StatusTellsTheTuning` needs `AckInv` besides: an acknowledgement is only under way for a request that is
on both tuners and done with, and one that the API holds from this boot is of a request that is done with.

**Overloads.** `MutexInv` says that whoever is in the middle of its Updates holds the mutex, and that the Update
the driver carries out is the first its thread has left: `OneUpdateAtATime` is a consequence. Counting needs the
state of the callback between its two steps: `CountInv` says that what is left in `todo` lies in the event in
hand, that a tuner not in `todo` has its level as announced, and that the onsets exceed the count by one exactly
for the tuners whose onset the callback has noted but not counted, or not looked at yet (`ToCount`). A repeated
event finds the level as announced and has nothing to count. The lemmas on queues go through the four queues
that two tuners allow. The same invariant maps each step to one of `OverloadLevel` or to none: a level that rises has
a count still below the onsets, so the bound of the abstract specification holds too.

**Reports.** `OrderInv` is one line of four counts per tuner: last answered report, API, look in hand, counter. None is
above the next, once blah2 has reported and while the API has a report. Loads move the look up to the counter, a post
moves the API up to the look, an answer moves the last report there. At a look without news the two ends are
equal, and so is the API between them. A lost answer leaves the API ahead of the last report; a
restart of blah2 sets three of the four back to zero and the flag down, which takes the API out of the line until the
first answer puts it back.

**Peaks.** The level the callback has compared its block with is still held, or was reported since the block began
(`PeakInv`), whether the report came before the load, between load and exchange, or after. That carries through
every failed exchange, since the level is then loaded anew.

**Frames.** `OrderInv` says that the detections on their way are in the order of their CPIs, before what is
sent next. A frame is *behind* (`Behind`) when all that is still to come is of a later frame: what has been read
up to the end of a frame is (`ReadIsBehind`), and it stays so (`StillBehind`). `ForwardInv` says that every
forwarded frame is behind and older than the one being matched or, when none is, than all that has been gathered;
so a frame that is forwarded is new. That the listener goes on reading while it waits does no harm because the
buffer is emptied at the end of the wait, with whatever has come meanwhile. For the maps, `MapInv` looks at
what is not served yet as one stream, the listener's buffer and then the socket: every piece in it has the earlier
pieces of its frame right before it (`Chain`). A restart can leave a frame without its tail, never without its
head, and publishing cuts the stream behind a tail only (`ChainCut`).

**Stashes and pages.** `TypeOK` is not inductive: that a history has the keys of some CPI's timings needs to know
that every text, on its way or served, holds CPIs that were *sent* (`Sent`), and that the answers on their way to
the page are such histories (`Histories`, kept by `SentGrows` while more CPIs are sent). `Signed` is what the page
needs: the signature it noted is that of the lines it has, unless its callback failed on an answer since, and then
no answer with CPIs has that signature, so the next one builds the plot anew; where the signature says nothing
there is only one line. For the window, `ShiftsEnd` shows that the loop ends and where (the least number of shifts at
which its condition fails), and `WindowHalves` counts: the last entry it found overdue was at twice as many places
as it shifted, so all those before it are overdue too, and at most as many overdue ones are left as have gone.
`GoneIsTaken` says that only taking the frame makes a request that has it disappear.

**Watchdog.** `PlaceInv` says who has the stack while (`restart.lock` and the program counter), `LookInv` that the
stored count tells whether Docker restarted the container since: for a container other than the one looked at
last it counts as 0, or the restarts of the new one would pass for those of the old. For the grace period, `GraceInv` carries from
`CheckGrace` to `Down` that it was over. Why a second check attends to what the first left alone is `Overdue`:
after a check, the map and the container are at least as old as the check, and a period is longer than the
grace period and than `Stale`; a container that is younger has crashed, and that is found. `EarnedInv` compares the stored count with a history of
what was done: the stack taken down (`Down`), forgotten when a check comes upon a settled radar, whatever the map
told it. The count is at most one ahead, in a recovery that has not taken the stack down yet, because a radar that
is settled has a fresh map, so whenever the history is forgotten the script forgets too; its assumption is a grace
period above zero (`WatchdogAssumption`). `ComeInv` says where a
radar can stand after recoveries that nothing interrupted: in the next one, with all of them counted; wedged
on USB, with no map and fewer than `ResetFrom` of them; or well again, with a map that keeps the watchdog off.

**Aircraft.** `CacheInv` says that the time kept with the cache is the time the fetch that filled it began, and
that every fetch in flight carries the time it began. That is what makes an older fetch that comes back last
harmless: the cache it leaves counts as old. For the types, `IsPayload` says of an answer on its way that its reports
were made before it was sent, so the time each position gets is a time in the past (`StampedIsPast`), and it stays
one while the answer waits and in the cache (`PastStays`).

That what is computed from the aircraft is right goes through `FlightInv`: what every caller asks about is the aircraft's
echo, moved by `Offset` or not; every answer of tar1090 holds both aircraft where they were at one time
(`IsAnswer`), and stamping gives that very time (`StampedIsSeen`), so the cache holds nothing or two `Sighting`s. The
rest is arithmetic. `ProjectedPlane`: a position moved along a straight flight is the position of the later time.
`WayGrows`: on one side of a site the way changes by the speed. `ComputedEcho`: delay and Doppler computed from the
projected record are those of the echo. Then the reflecting aircraft has the score 0 and the first place, so no
other can win (`EchoIsNamed`); an echo that is beyond the tolerance, or a position too old, leaves the other aircraft or
none. This needs `FlightAssumption`: an aircraft that is known well enough flies above the ground, passes no site
within the second over which its Doppler is taken, and keeps the distance within which no Doppler is given. At
a site the speed of the way jumps, and the model, which takes the Doppler of a second, would differ from the code, which takes
it of a moment. TLC evaluates the assumption for the aircraft of the runs. The missing values need care: `None` has to differ from
every number, record and position (`AdsbTruthAssumption`), or an aircraft could be projected to a place that looks
like none.

**Only model-checked.** Everything temporal with fairness (`CallbackReturns`, `FilteredIsAnnounced`,
`TakesEffect`, `EventsAcked`, `EpisodesAreReported`, `MapCatchesUp`, `FreshCpiIsTaken`, `WaitEnds`), which the prover does not reach.
Every other property of a passing run is proved, and the type invariant of every detailed module. What is defined by recursion over data would also be left to TLC;
there is none.

## Not modelled

- *Floating point*: FFTs, the Wiener-Hopf filter, CFAR thresholds, interpolation, the geometry of the earth.
  What they do to control (drain a slot, fail on it) is in `CpiPipeline`, what the geometry is used for in
  `AdsbTruth`.
- *Layout*: JSON, file formats, the look of the pages; the overlay of the aircraft on the map page; `common.js`,
  which picks the host.
- *The diagnostic route* and the adsb2dd service it compares with: a report that changes no state.
- *Maps of changing size*: `maxhold` takes it that all maps of its history have the same rows, which the
  configuration fixes.
- *Other SDRs*: not part of the build.
- *The driver's side of shutdown*: what Uninit does to calls under way is not in the code.
- *Saving IQ data*: the API's capture flag is never set any more (`api/server.js:157-161`), so blah2 polls
  a constant.
- *Frequency of a sample*: a retune is latched at the extract, a buffer behind the antenna, so a CPI can be
  labelled with a frequency its samples were not captured on. Nothing reads the label at this commit.
- *The post of a peak*: the level is taken, which starts it over, and posted once; a lost post loses it
  (`Capture.cpp:209`), and nothing in the code claims otherwise.

## Plan

Done: 1. `CpiPipeline` and `TuneHandoff`; 2. `IqData` and `BoundedFifo`; 3. `Retune`; 4. `Overload`; 5. `Ingest`;
6. `Watchdog`; 7. `Pollers`; 8. `AdsbTruth` and `Adsb`; 9. `OverloadLevel`, `OverloadReport` and `PeakHold`.

Next, in this order:

10. Pure operators against reference definitions: Hamming numbers, CFAR training windows, the batches of
    the ambiguity processing, the centroid's neighbourhood.
11. `BlockingQueue` with its condition variable, implementing the blocking pop `CpiPipeline` assumes.
