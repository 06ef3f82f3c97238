# TLA+ models of DotBot-libs

Models, model-checked instances and machine-checked proofs about the control
logic of the DotBot robots. Modules are translated from the C sources; where a
comment of the source and its code differ, the module follows the code.

    tlc -config MCSteering.cfg MCSteering        # one run
    tlapm SteeringProofs.tla                     # one proof module

## 1. The system

DotBot-libs is the firmware library of small differential-drive robots that are
commanded by a gateway over a radio and localise themselves with lighthouse
sweeps (LH2) and wheel encoders.

| Component | State it keeps | Operations | Talks to |
|---|---|---|---|
| `drv/dotbot_control` | drive mode, last batch id, abort reason, pending motor write, tick counters | `db_control_rx` (commands), `db_control_tick` (10 ms scheduler tick), `db_control_seed`, report, advertisement | calls everything below it; the app calls it |
| `drv/steering` | one batch of points: state, index, timers, retry and nudge counters, flags, how the batch stands | `set_path`, `set_target`, `stop`, `fix`, `poll`, `step`, `set_max_speed` | takes a pose, returns wheel speeds or a brake |
| `drv/pose_estimator` | status SEEDING, TRACKING, LOST; seed chain, kidnap and rest counters, filter | `seed`, `predict` (each tick), `update` (each fix) | read by dotbot_control |
| `drv/wheel_control` | setpoint, integral, standing and stall counters, brake | `reset`, `set_setpoint`, `step` | one per wheel, stepped by dotbot_control |
| `drv/tdma_server` | table of slots, active slot, queue of packets, queue of clients to answer | radio callback, slot timer, `tx`, `flush`, `empty` | radio, high-frequency timer |
| `drv/tdma_client` | registration, its slot, receive flag, queue of packets | radio callback, TX timer, RX timer, `tx`, `flush`, `empty` | radio, timer, rng |
| `drv/hdlc` | receive state, buffer, checksum | `rx_byte`, `decode`, `encode` | uart of the gateway |
| `bsp` radio, timers, lighthouse | registers, one packet buffer; timer channels; capture queue | interrupts and calls | hardware |
| nRF5340 IPC | request, acknowledge and ready flags in shared memory | `db_ipc_network_call`, `release_network_core` | application and network core |
| `drv/log_flash`, `bsp/nvmc` | write address | `init`, `write` | flash |
| `crypto`, `lz4`, `uzlib`, sensor drivers, examples | none that decides | | |

Where the behaviour is hard:

- **Order within a tick.** A tick writes the motors, predicts, takes a fix, steps
  the steering once a period, polls it, and checks the deadman; commands arrive
  between ticks. State set at one place is used a tick later by another
  (`pending`, `steering_brake`, setpoints).
- **A state machine with eleven states** and a dozen counters, stepped on a pose
  whose status changes by itself, interrupted by new batches and stops.
- **Timers** in elapsed ticks that can jump over their limits, and two that
  compose (the deadman's age and its check period).
- **Interrupts** against the application in the TDMA rings, the lighthouse
  queue and the timers; **two cores** sharing a request block.
- **Lost frames and restarts** of gateway and robots, which keep each other's
  slots in memory only; three ways of setting a client's timer; frames that grow
  while they are under way; lost flags on the serial line.

What makes each component correct: *steering*: its report agrees with its
state, no state lasts past its timer, counters bound every loop, it never drives
on a pose it does not have. *dotbot_control*: one writer of the motors, a stop
stops, silence stops, the host's report is a sound history of its batches.
*pose_estimator*: a tracked pose is recent and was seeded. *tdma*: a slot has
one owner, who is told the slot it has and talks in it, and the gateway's turns
come often enough and end in time. *hdlc*: what is decoded was sent, and a
receiver out of step gets back in step. *ipc*: a request is executed once and
answered before the next.

## 2. Modules

| Module | What it is |
|---|---|
| `SteeringOps` | the functions of `steering.c` as operators on one record |
| `Steering` | one steering, called in any order, on any pose |
| `BatchLifecycle` | abstract: what a robot reports of its batches, and who owns the motors |
| `DotbotControl` | `dotbot_control.c`: commands and ticks, composed with `SteeringOps`; refines `BatchLifecycle` |
| `PoseLifecycle` | abstract: how the status of the pose may change under the callers |
| `PoseEstimator` | `pose_estimator.c`: its calls in any order, on any fixes; refines `PoseLifecycle` |
| `WheelControl` | `wheel_control.c`: the speed loop of one wheel, on any counts and setpoints |
| `TdmaServer` | `tdma_server_default.c` as operators on one record: table, slots, waiting clients, budgets |
| `SlotGrants` | abstract: one slot per client, granted for good, used as granted |
| `TdmaNet` | the gateway, its robots (`tdma_client_default.c`) and the channel between them; refines `SlotGrants` |
| `TdmaRing` | the ring of packets of server and client, load by load and store by store |
| `Hdlc` | `hdlc.c`: encoder, receiver, decoder and a serial line that disturbs |
| `MCSteering`, `MCDotbotControl`, `MCPoseEstimator`, `MCWheelControl`, `MCTdmaNet`, `MCTdmaRing`, `MCHdlc` | small instances for TLC |
| `SteeringOpsProofs` | lemmas on the operators of `SteeringOps` |
| `SteeringProofs`, `DotbotControlProofs` | the theorems of `Steering` and of `DotbotControl`, both on those lemmas |
| `PoseEstimatorProofs`, `WheelControlProofs`, `TdmaNetProofs`, `TdmaRingProofs`, `HdlcProofs` | the theorems of the modules they are named after |

### SteeringOps and Steering

The record `steering` has the fields of `db_steering_t` that some decision reads.
Each C function is one operator of the same name. A function whose branches
depend on geometry returns the *set* of results, one for each outcome the
comparisons can have; everything else (which test comes first, which counter is
reset where, what a state change does to the flags) is exact. So `Step` is the
`switch` of `db_steering_step`, `Move` is `_move` with its recursion over the
points it passes, and so on; the map in `PROJECT.json` has the lines.

Abstractions of data:

- speed is its sign, because only `|v| > 1` and its sign are read; the turn rate
  is whether it is zero;
- `best_mm` counts in units of `progress_mm`, at most `MaxLevel`; a better
  distance is any smaller level, as only improvements of `progress_mm` count;
- a path is its count, which points have a heading, and whether its threshold
  asks for the precise arrival. `PathsAssumption` lets the count exceed
  `MaxPoints`, as `set_path` clamps it;
- `settle_count` saturates at `settle_fixes`, its only comparison;
- `state_ticks` is kept at 0 in the states that never read it.

In `Steering` the environment changes the pose between calls in any way and
calls in any order; `DotbotControl` is the application that orders them.

### DotbotControl

Its variables are those of `db_control_t`; the tick counters are kept as
differences (`age`, `since_step`, `since_timeout`), the only form the source
reads. `db_control_rx` is one action per command, with its guards: a packet too
short or a batch heard twice still restarts the deadman (`RxDropped`). `Tick(n)`
is the whole of `db_control_tick`, in order: write section (`WheelWrites`),
predict, fix (`Fixed`), step (`Stepped`), poll (`Polled`), deadman (`Expired`).
The two wheels are one variable, as they are set together; the estimator is its
status, moved by the `Predicted` and `Updated` of `PoseLifecycle`, which
`PoseEstimator` is shown to implement. `motors` is the last write. A zero
setpoint writes a brake or lets the wheels coast, by whether they counted in the
last tick.

### PoseEstimator

The record `est` is `db_pose_estimator_t` without the filter. What a fix turns
out to be (inside the gate, close to the first rejected one, consistent with the
odometry, at rest) is the record `Fix`, chosen freely; what the wheels did in a
tick is whether they count as standing and whether they went further than
`kidnap_still_mm`. The tests of one fix are left independent of each other, so
the model has every behaviour of the code and some the geometry excludes. `pose`
says whether the x, y, theta and P of the record were solved since the estimator
last returned to SEEDING. The body-frame travel of a chain counts in steps up to
`acquire_mm`. `chain_count` and `rest_count` saturate at the larger of the two
limits they are compared with, the tick counters at `MaxTicks` (`UINT32_MAX` in
the code). `misses` is a history variable, the rejected fixes in a row.

`_steering_pose` reports a LOST estimator without a pose as spinning free;
`Reported` is that status and the refinement mapping to `PoseLifecycle`.

### WheelControl

The record `wheel` is `db_wheel_control_t` without `ff`, which is telemetry.
`Stepped` is `db_wheel_control_step` in its order: `Measured` (speed, standing,
the stall by the duty applied before), then `Rested` or `Driven`. Arithmetic is
in integers: one count in one tick is `SpeedPerCount`, times are ticks, and
`integral` is `ki` times the field, the only form the code uses it in (with
`ki` = 0 both are 0). Counts are chosen freely, so a wheel may run on, be turned
by hand or be held. `held` is a history variable, the ticks without a count under
one setpoint. `ConfAssumption` asks for a feedforward within the output range and
for steps shorter than `stall_ms`: with a longer one a zero setpoint would itself
be taken for a stall. The model is not composed with `DotbotControl`, which reads
of a wheel only whether it has a setpoint and whether it counted.

### TdmaServer and TdmaNet

`TdmaServer` has the record of the gateway and one operator per function:
`Heard` is `tdma_server_callback`, `Register` and `Enqueue` what it calls,
`Answered`/`Unanswered` the loop of `_client_rb_tx_queue` with the client it puts
back, `AnswerBudget` and `PacketBudget` the 16-bit arguments of the two queues.
`table[i + 1]` owns slot `i`; the times of a slot are its index times
`SlotTime`, as in the code, so the table is a sequence of owners. Times within a
slot are in microseconds. A full ring of waiting clients looks empty to the scan
for a client, as its indices meet; `Waits` has that.

`TdmaNet` runs it slot by slot. `SlotTimer` is `timer_tdma_interrupt` with all it
transmits; then come, in the order they are received, the sync frame
(`HearSync`), the answers (`HearAnswer`), the transmissions of clients whose
timers are due (`ClientTimer`) or that are not registered (`Ask`), and their
packets at the gateway (`HearPacket`). Any of these frames may be lost. A
client's timer counts slots; each of the three ways the code sets it (by its
interrupt, a sync frame, an answer) is relative to another moment, which is what
`TalksInOwnSlot` is about. Gateway and clients restart at any slot. `air`, `busy`,
`since`, `announced`, `synced` and `spoke` describe the channel and what happened;
no action of the code reads them.

Left out: what packets contain, the client's RX timer and `rx_flag` (in the
always-on mode, which every sync frame sets, the radio returns to reception
after each transmission), how long the random delay before a registration is, and
the drift of clocks within a slot (an answered client fires late by the answer's
own time until the next sync frame).

### TdmaRing

Loads and stores of `write_index`, `read_index` and `count` by the application, in
`_message_rb_add`, `_message_rb_tx_queue` with `_message_rb_get` (called by flush)
and `_message_rb_init` (called by empty). `index` and `number` are the loaded
values; the compiler may load again (`Reload`), so every build is covered. The
slot timer is an interrupt and atomic to the application.

### Hdlc

A word of the check sequence is the set of its bits, so that shift and exclusive
or are set operations, and the table of 256 words is computed from its polynomial
(that it leaves the residue `0xF0B8` of the header is the theorem `CheckSequence`).
`Stuffed` is the loop of the encoder over payload and check sequence, `Unstuffed`
that of the decoder; both run over positions, of which the code's `uint8_t` has
enough for a buffer of 255 bytes.
`Received` is `db_hdlc_rx_byte` with its branches in order, `Decoded` is
`db_hdlc_decode`. The line loses, changes or inserts a byte, and `Overrun` is a byte
that comes before the caller has fetched the frame. `out` and `clean` are history:
what was decoded since the frame's first byte, and how many frames were sent since
the last disturbance. `FrameAssumption` asks for frames that leave room for two
bytes in the buffer: with a body of 254 bytes a receiver that took an end for a
start and stored the next flag as data could run full on every frame, forever.

## 3. What is checked

| Run | Instance | Properties |
|---|---|---|
| `steering` | 2 points, 6 kinds of path (empty, plain, precise, pose then precise, pose last, longer than the array), elapsed 1 or 2, limits of 1 to 3 steps | see below, and `BatchEnds` |
| `control_batches` | 2 batches (a precise point; a pose, then a plain point), ids 0 and 1, a step every 2 ticks, the deadman checked on every tick | `OneWriter`, `BrakeHeld`, `MotorsFollowMode`, `ImplementsBatchLifecycle` |
| `control_deadman` | one plain point, elapsed 1 or 2, a check every 3 ticks, deadman of 4 | `DeadmanBound`, `SilenceStops`, `ComesToRest` |
| `pose_estimator` | timeout 3, seed and kidnap after 2 fixes, settle 2, elapsed 1 or 2, counters saturate at 5; re-anchor and free spin on | `TrackedRecently`, `GatedOnSolvedPose`, `KidnapAfterRow`, `PutDownAtRest`, `ImplementsPoseLifecycle`, `StandingReseeds` |
| `wheel_stall` | setpoints -1, 0 and 2, counts -1 to 1, elapsed 1 or 2, stall after 3 ticks at a duty of 4 of 4, standing after 2 steps | `StalledCoasts`, `StallJustified`, `StallLasts`, `HeldLetsGo` |
| `tdma_net` | 2 clients, a frame of 2 slots at least, a gateway slot at every second index, room for 2 waiting clients, 8 us per byte, 2 restarts | `QueuedKnown`, `GatewayTurns`, `SlotKept`, `TalksInOwnSlot`, `ImplementsSlotGrants`, `Settles` |
| `hdlc` | payloads of 0, 1 and 2 bytes (a flag and an escape), a buffer of 8, 3 disturbances with 0, escape and flag | `ThirdIntact` |
| `control_stop` | as `control_deadman` | `StopBrakes`, violated |
| `wheel_kick` | as `wheel_stall` | `StandingKicks`, violated |
| `tdma_silenced` | as `tdma_net`, 1 restart | `KeepsTalking`, violated |
| `tdma_ring` | room for 2 packets | `CountsPackets`, violated |
| `hdlc_check` | payloads of 0 and 1 byte, 1 disturbance | `BadFrameIsError`, violated |

Each passing run also checks its module's `TypeOK` (except `control_deadman`).

Steering:

- `CompletionAgrees`, `OutcomeLatched`: the report tells the state's story and
  keeps how a batch ended until the next starts.
- `StateFitsPoint`: no state reads past the batch, and a final turn, a settling
  or a nudge is only ever at a point of its kind, also after a new batch.
- `RetriesSinceHeading`, `FreshFixes`, `NoStateOutstays`: counters and timers are
  reset on every way that must reset them.
- `BrakeAsked`, `NeverDrivesBlind`, `PreciseArrivesSettled`: what is commanded
  and reported follows from what is known of the pose.
- `BatchEnds`: no endless loop among the states, once the pose settles on any
  status.

Control:

- `OneWriter`, `MotorsFollowMode`: what an overtaken command or writer left
  behind never reaches the motors.
- `BrakeHeld`: the brake is latched exactly as long as the steering rests.
- `DeadmanBound`, `SilenceStops`: the deadman's two timers, with ticks skipped.
- `ComesToRest`: a robot left alone ends its batch and its motors stop.
- `ImplementsBatchLifecycle`: refinement. The abstract specification has no
  ticks and no driving: batches are accepted, finished, stopped or taken over.

Estimator:

- `TrackedRecently`: a pose whose last confirmation is older than the timeout is
  given out by no call, whichever call confirmed it last.
- `GatedOnSolvedPose`: fixes are compared with no pose that a kidnap or a free
  spin has made stale, although `x`, `y` and `theta` keep their values.
- `KidnapAfterRow`, `PutDownAtRest`: what the header promises of the two ways back to
  SEEDING. The counts and timers they go by are shared among the states and reset
  in different functions.
- `ImplementsPoseLifecycle`: refinement, and what `DotbotControl` assumes.
- `StandingReseeds`: a robot put down at another place ends in SEEDING.

Wheel:

- `StallJustified`: no time before a count or before another setpoint counts
  towards a stall, although the stall goes by the duty of the step before.
- `StalledCoasts`, `StallLasts`: a stalled wheel has no duty and does not brake
  until the setpoint changes; sending the same one again does not restart it.
- `HeldLetsGo`: the kick of a held wheel grows until it counts as forced and the
  stall takes it away, unless an integral of before is left against the setpoint.

Network:

- `QueuedKnown`: no answer reads the table at index -1, although the answer
  searches the table again after the client was queued.
- `GatewayTurns`, `SlotKept`: the gateway's turns in the table and its time within a
  slot, while clients register in the middle of a frame.
- `TalksInOwnSlot`: three ways of setting a client's timer, and frames that grow
  between them, never put two clients that heard the last sync frame, and that
  the gateway knows, in one slot.
- `ImplementsSlotGrants`: refinement. The abstract specification has no frames,
  slots in time, queues or messages.
- `Settles`: once nobody restarts and answers arrive, every client ends up talking
  in its own slot only, the ones a restarted gateway forgot included.

Serial line:

- `ThirdIntact`: out-of-step receivers, whatever put them out of step, decode the
  third clean frame at the latest. Two is not enough: a receiver that takes an end
  for a start stores the next start as data and needs that frame to recover.
- `TypeOK` of `Hdlc` includes that the buffer is never written past its end.

**Bounds.** Limits of one to three steps are enough because each timer is
compared with one limit of its own and restarts on entry; an elapsed time of 2
makes a step jump over a limit. Two points give a first, an intermediate and a
last point, poses in either place. One retry and one nudge make both the loop
and its end happen. One batch id besides 0 suffices for the test of equality
with the last id. In `control_deadman` 3 and 4 are not multiples of each other,
so every phase of the two timers occurs. In `pose_estimator` two fixes make a
row or a chain with a first and a last, and 5 is past both timers, so that they
are passed before they saturate. In `wheel_stall` the kick has to be ramped
twice before it counts as forced, the slew takes two steps, the limit of 3 is
passed by steps of 1 and of 2, and the setpoints have either sign and zero.
In `tdma_net` the second client makes the frame grow by two
slots, its own and a gateway's; two restarts let the gateway forget a client that
holds a slot and a client forget the slot it is given meanwhile, and two waiting
clients fill the ring. In `hdlc` the buffer of 8 is just long enough for the longest
frame with a flag before it, and three disturbances reach every state of a
receiver relative to a frame: one puts it out of step, one fills the buffer or
empties a frame, one does so again during recovery. Nothing is constrained
beyond the constants; the counters are bounded by the code, by `MaxRestarts` or by
`MaxNoise`.

**Fairness.** `Steering!LiveSpec` has weak fairness of the step alone: the
application steps every period. `DotbotControl!LiveSpec` has weak fairness of
the tick: the scheduler timer never stops. `PoseEstimator!LiveSpec` has weak
fairness of a tick with standing wheels and of a resting fix outside the gate:
ticks and lighthouse sweeps go on for a robot that stands in view, and
`StandingReseeds` assumes that from some time on nothing else comes.
`WheelControl!LiveSpec` has weak fairness of a step without counts, and
`HeldLetsGo` assumes that from some time on nothing else comes: the scheduler
steps the loop of a wheel that is held. `TdmaNet!LiveSpec` has weak fairness of the whole next-state relation: time
goes on. And it has strong fairness of each client's timer with a transmission: a
client whose timer fires over and over transmits over and over, as it has packets
or a sign of life to send. Two clients in one slot, which a restarted gateway may
bring about, stay there if each of their packets is lost to the other's; that a
packet is received at some time is what `HearPacket`, which is not optional in
`Next`, assumes. No fairness is assumed of commands, of
fixes or of the estimator; the liveness properties assume that the pose stays on
some status, and hold for each of them. With a pose that is lost and found
forever `HOLD` restarts the progress timer each time, and a batch may go on
forever; this is how the code is meant to hold.

**Finding** (`control_stop`). `dotbot_control.h:156` describes `pending` as a
motor write delivered by the next tick. A stop's brake is not: the stop leaves
the mode IDLE, in which the wheel loop writes the motors itself in the same tick
and overwrites it. A wheel that counted in that tick is braked by the wheel
loop; one that did not coasts.

**Finding** (`wheel_kick`). `wheel_control.c:108-109` says that a standing wheel
gets the kick and the P term "and no integral". The integral does not grow while
the wheel stands, but what it held before is added to the duty (`:133`) until the
setpoint changes sign or becomes zero. A wheel that overran its setpoint and then
stands is pushed less than the kick; held there, it may stay below `stall_pwm`.
`HeldLetsGo` is the liveness that is left.

**Finding** (`tdma_silenced`). `tdma_client_default.c:459` promises a sign of life
that keeps up the connection. A gateway that restarts announces its shortest
frame; a client whose slot lies past that has its timer set again by each sync
frame (`:404`) before it fires, and neither transmits nor learns that it was
forgotten, for as long as it hears the sync frames.

**Finding** (`hdlc_check`). `hdlc.h:26` and `hdlc.c:91` have an error state for a
wrong check sequence. It is overwritten (`:94`), and damaged frames are decoded as
good ones. The check would not work either: the receiver sums the bytes with their
escapes, the encoder without.

**Finding** (`tdma_ring`). `tdma_server_default.c:50` calls `count` the number of
packets in the ring. tx, flush and empty are not protected from the slot timer, and
each can leave it wrong: tx counts packets that were sent meanwhile, flush lets the
count wrap to 255, and empty leaves the indices apart with a count of 0.

## 4. What is proved

`SteeringProofs` proves for every value of the constants (any limits, any number
of points, any set of paths and of elapsed times within the named assumptions):

    Spec => []TypeOK        Spec => []CompletionAgrees   Spec => []StateFitsPoint
    Spec => []RetriesSinceHeading   Spec => []NoStateOutstays   Spec => []FreshFixes
    Spec => []BrakeAsked    Spec => OutcomeLatched       Spec => NeverDrivesBlind
    Spec => PreciseArrivesSettled

from `ConfAssumption`, `BoundsAssumption`, `PathsAssumption` and
`ElapsedAssumption`.

The argument. None of these invariants is inductive alone: a final turn is at a
pose only because the index fits, the retries are whole in RECOVER only because
they are in the moving states, and the settled arrival needs the settling state
to fit the point. `IInv` is their conjunction with what the operators need of a
record at rest. `SteeringOpsProofs` proves, per operator, that good records go to
good results (`StepGood`, `PollGood`, `StopGood`, `SetPathGood`, `FixGood`),
bottom up from `_enter`, `_fail` and `_halt` through `_move` to the step; the one
assumption a mid-step record drops is the timer's bound, which a step may have
passed and each branch must restore. `SteeringProofs` then has one lemma per
kind of call, `NextIInv`, and the theorems by temporal reasoning; the action
properties follow from `IInv` and the lemmas `StepBlind` and `StepPrecise`.

That a batch ends is shown by a rank. `Rank` is a tuple, compared from the left
(`Lower`): the points left, how far the state is from the end on this pose (`Phase`), the
spins, nudges or distance left (`Budget`), the time left to come closer, and the time
left in the state. That order is well founded on the tuples in range
(`BelowWellFounded`). `RankFalls` (proved as `RankCorrect`) is an action property:
while the estimator's status stays what it is, every step of an active batch lowers the
rank, whatever distance and heading it finds, and fixes, polls and stops never raise
it. `BatchesEnd` draws the conclusion without temporal operators: a sequence of calls
under one status that has steps again and again and no new batch is at rest from
some call on, whichever status it is. A status that changes for ever is not covered,
as in `BatchEnds`.

`DotbotControlProofs` proves for every configuration, period, deadman, set of
batches and number of skipped ticks (`ControlAssumption` and the first two):

    Spec => []TypeOK        Spec => []OneWriter       Spec => []BrakeHeld
    Spec => []DeadmanBound  Spec => MotorsFollowMode  Spec => ImplementsBatchLifecycle

Its `IInv` joins the good steering record with the four invariants and with
`RawWrite`, which says where the duty of a raw command is: without it a tick in
RAW that writes nothing could leave anything on the motors. `BrakeHeld` needs
`Good`, and that a step always returns a command, for the state a step leaves;
`OneWriter` needs that a step never starts a batch. The tick is proved call by
call (`FixedGood`, `SteppedGood`, `PolledGood`, each citing the lemma on the
steering call it makes) and then as a whole, with the deadman (`DeadmanKeeps`)
and without (`DrivesKeeps`). The refinement follows from the same lemmas: they
also say how the completion may change.
`TickFalls` takes the rank to the ticks: on an unchanged pose a tick of an active
batch lowers it, or is one that does not step and comes nearer to one that does.

`PoseEstimatorProofs` proves for every configuration, saturation limit and set of
elapsed times (`ConfAssumption`, `TicksAssumption` of `PoseEstimator`):

    Spec => []TypeOK        Spec => []TrackedRecently  Spec => []GatedOnSolvedPose
    Spec => KidnapAfterRow  Spec => PutDownAtRest      Spec => ImplementsPoseLifecycle

Its `IInv` adds to the two invariants that a tracked pose is never marked
`unseeded` (a robot put down after a free spin keeps the mark through SEEDING, and
only a solved chain clears it), that a row of rejected fixes is shorter than
`kidnap_fixes`, no longer than `misses` and kept while TRACKING only, and that the
rest of a lost robot is no older than its last accepted fix: `rest_count` survives
a return to TRACKING, so this holds because `_lose` clears it and both counters
saturate alike (`Sums`). One lemma per function of the source (`ChainAddGood`,
`KidnapGood`, `RestGood`, `LostGood`) leads to one per call (`UpdatedGood`,
`PredictedGood`), from which the theorems and the refinement follow.

`Patience` counts how many of the calls it waits for a robot is from SEEDING: ticks
until the wheels have settled, then rejected fixes, twice over if the row began before
they had and may end in a re-anchor; once lost, ticks and fixes until both have
rested. `PatienceFalls` says that neither a tick of a standing robot nor a fix at rest
ever raises it, that each of the kind waited for (`AwaitsFix`) lowers it, and that the
kind stays the same until one comes; `PutDownReseeds`, that every sequence with both
again and again ends in SEEDING for good. Their hypothesis `CanSettle` asks that the
check is on and that the counters, which saturate at `UINT32_MAX`, can reach the settle
time.

`WheelControlProofs` proves for all gains, setpoints, counts and elapsed times
(`ConfAssumption` and `InputAssumption` of `WheelControl`):

    Spec => []TypeOK        Spec => []StalledCoasts
    Spec => StallJustified  Spec => StallLasts

`StalledCoasts` is not inductive: the step after a zero setpoint judges the duty
from before it. Its strengthening `Sound` adds that at a zero setpoint no time is
forced as long as a duty is left, so one step, shorter than the limit, cannot
reach the stall, and has no duty to judge by afterwards. `IInv` adds that the
time forced never exceeds the time held. The range of the integral needs that the
feedforward stays within the output range (`FeedForwardRange`), which is why
`u_breakaway` may not exceed `pwm_max`.

`HeldWheelStalls` bounds how long a held wheel is driven: within `LetGo` steps, the
ones until it counts as standing, `pwm_max` for the kick, twice that for the duty and
the time of the stall, it has stalled and has no duty, and stays so. The exception is
the one of `HeldLetsGo`: an integral of before that is against the setpoint
(`Against`) can hold the duty below what a stall asks for, and must not be there
when the wheel comes to stand; that it does not come back is part of the proof.

`TdmaNetProofs` proves for any number of clients, table and ring sizes, gateway
periods and radio modes (`ServerAssumption`, `NetAssumption`):

    Spec => []TypeOK      Spec => []QueuedKnown   Spec => []GatewayTurns
    Spec => []SlotKept    Spec => TalksInOwnSlot  Spec => ImplementsSlotGrants

Its `IInv` says what the table looks like: gateway slots at the multiples of
`GatewayEvery` and nowhere else, one slot per client, and, to bound its length, as
many gateway slots as the clients need, the last one added together with a client
(`Counted`). With that shape the gateway's turns are the remainder of the active slot,
which survives a frame that grows inside itself. Waiting clients and answers under
way are of known clients, which only a restart of the gateway disturbs, and that
forgets them too. A client that heard the last sync frame has a timer that fires in
its slot or past the announced frame; an answer keeps that because it is relative to
a frame at least as long. The time of a slot is arithmetic on the four radio modes.
Two more theorems are about these: `AnswersFit`, that the 1 and 2 Mbit modes answer a
client in every turn of the gateway, and `LongRangeMute`, that the 125 kbit mode (and
the 500 kbit mode, while the frame has one gateway slot) never registers anyone: an
answer takes 2572 us of a slot of 2500.

How the network settles is a matter of being in step (`InStep`): the client has the slot
and the frame the gateway has for it, and its timer fires in that slot. `FallsInStep`
says that every answer puts its client in step, and every sync frame one that has its
slot; `StaysInStep`, that a client in step talks in its own slot only and stays in
step, through losses and registrations, until the frame grows or somebody restarts. A
table has as many growths as there are clients (`ImplementsSlotGrants`: slots are kept).
Both need `AirCurrent`, that what is under way announces the frame as it is.

`HdlcProofs` proves for all payloads, noise bytes and buffer sizes (`FrameAssumption`,
which asks for payloads of bytes whose frames fit the buffer):

    Spec => []TypeOK      Spec => []ThirdIntact      Spec => []PlainFramePasses

and, for every sequence of bytes whatever its length, `RoundTrip` (decoding a body
gives its payload back), `FrameShape` (no flag is left in a body, and how long it
is) and `CheckSequence` (payload and check sequence sum up to the constant the
receiver compares with). Encoder, decoder and sum are recursive functions over the
positions of a sequence. The library's induction theorems take an operator as their
parameter, which no installed prover can instantiate, so the induction is over sets:
`LeastNat` (a set of numbers has a least element, from the library's theorem on
well-founded relations, whose parameter is a set) gives `AllSeqs` (a set that has the
empty sequence and is closed under adding one element has every sequence) and
`Recursion` (a function so defined exists), from which `FcsIs`, `StuffIs` and
`UnstuffIs` state the three functions by their equations. `RoundTrip` is then an
induction whose step is that an escaped byte decodes to itself (`EscapedDecodes`),
and `CheckSequence` follows from two entries of the table, as exclusive or is
symmetric difference: the check sequence cancels whatever sum the payload had.

The invariant says how the receiver may stand to the frame under way, by the number
of clean frames since the last disturbance: anything at 0; then in step with the
frame (`InStep`), one flag ahead of it (`Ahead`), or waiting between frames
(`Between`), with what its buffer holds in each case; in step from the third on.
`Summed` adds that its sum is always that of its buffer. `PlainFramePasses` shows
what the overwritten check of the finding `hdlc_check` is worth: undisturbed frames
with nothing to escape would pass it.

`TdmaRingProofs` proves for every ring of up to 255 packets
`Spec => []IndicesInRing`, and `AddSpec => []CountInRing` for an application that only
adds. The second needs that a count about to be stored was loaded when the ring was
not full, and that the timer only lowers it.

Only model-checked: the liveness properties `BatchEnds`, `SilenceStops`,
`ComesToRest`, `StandingReseeds`, `HeldLetsGo` and `Settles` as they stand, since
fairness and ENABLED are out of the prover's reach. What they rest on is proved, for
every value of the constants, where it can be said of steps or of sequences of calls:
`RankCorrect` and `BatchesEnd` for `BatchEnds`, `TickFallsCorrect` for `ComesToRest`,
`DeadmanCorrect` for `SilenceStops`, `PatienceFallsCorrect` and `PutDownReseeds` for
`StandingReseeds`, `HeldWheelStalls` for `HeldLetsGo`, `FallsInStepCorrect` and
`StaysInStepCorrect` for `Settles`. The sequence theorems take their fairness as a
hypothesis (the calls come again and again); that the scheduler provides it is
the assumption stated with each run.

## 5. What is not modelled

- **The two cores' handshake** (`db_ipc_network_call`). The network core's program is
  in another repository. What a request and its acknowledgement mean is decided
  there, so a model would check a guess. The hazard that can be seen from this
  side is listed.
- **Radio, timers, peripheral and sensor drivers**: registers and waiting on the
  hardware. `TdmaNet` relies on frames being received whole or not at all and on
  timers firing when they are set.
- **Lighthouse**: demodulation and the search in shift register sequences are bit
  arithmetic over generated tables (`lh2_checkpoints.h`, the largest file of the
  repository); the capture queue between them and the interrupt is masked.
- **`control_loop`, `pid`, `protocol`, `log_flash`**: arithmetic or layouts with one
  or two variables of state.
- **`crypto`, `lz4`, `uzlib`**: vendored or field arithmetic without control.
- **In `dotbot_control`**: MAX_SPEED, the encoder totals and the advertisement timer,
  which nothing else reads. **In `wheel_control`**: odometric goals, the twist mixer
  and the count correction, which keep no state of the loop.
- **In `steering` and `pose_estimator`**: geometry and filter arithmetic, as the
  outcomes of the comparisons made on them.
- **In the network**: more than the table has room for. `tdma_server.h:32` allows
  100 clients and the table of 100 entries (`:56`) holds 87 with the gateway's
  slots among them; `db_tdma_server` does not look before it writes the next one.
  `NetAssumption` keeps to what fits.

Most of the repository's lines are vendored libraries, generated tables, register
definitions and example applications, so the share of lines the map covers is
small; the control logic of `src/drv` is what it covers.
