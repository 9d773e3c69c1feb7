# PulseFlow in TLA+

PulseFlow is a Rust program that observes a host, records what it sees and, when
an operator lets it, changes the priority class of a process (or of the processes
that press hardest on the host). This directory holds TLA+ models of it, the TLC
configurations that check them and proofs that TLAPS checks.

The names of definitions are those of the source where TLA+ allows it;
`PROJECT.json` maps every definition to the lines it models.

## The system

### Threads and shared state

| Actor | Code | What it does to shared state |
|---|---|---|
| HTTP threads | `src/server.rs`, one short-lived thread per connection | a handler takes the write lock of `RuntimeState` once and holds it to its last change; connect, discovery and compaction also look at the operating system or the disk before or after |
| Control loop | `src/main.rs:161-704`, one thread | one iteration reads a snapshot under the read lock, samples the target, asks the controller for a QoS level, applies it, and takes the write lock to publish and to fault; several short read locks in between |
| Operating system | `src/telemetry.rs`, `src/governor.rs` | processes start and exit, PIDs are reused, a change of priority may be refused |
| Operator or agent | clients of the API | any request at any time |

Everything shared is in one `RuntimeState` (`src/model.rs:810-953`) behind
`Arc<RwLock<..>>`. Nothing of it survives a restart; recorded frames, the event
ledger, compaction results and the agent's secrets are files.

### Inventory

| Component | State | Operations | Hard about it | Correct if |
|---|---|---|---|---|
| Authority contract, `authority.rs` | none | `transition`, `authority_contract` | two tables that must agree, handlers that do not consult them | handlers move along `transition` |
| Interlink handlers, `server.rs:380-921` | authority, target and its identity, receipt, mesh mode, armed flag | discover, connect, verify, baseline, enable, mesh, start, pause, reset, disconnect | connect reads the process table before it locks; every order of requests | only a verified target is governed; one scope at a time; a fault disarms |
| Control loop, `main.rs:161-704` | the observed revisions, its governor, controllers, the pending frame, the recorder | snapshot, sample, step, apply, write-back | acts on a snapshot that requests change under it | the governor is bound to the target of the snapshot; faults reach the state |
| Process governor, `governor.rs:13-81` | bound PID, believed level, time of the last change | `new`, `apply` | dwell time, two system calls that can fail one at a time | what it lowers it raises again |
| Mesh controller, `governor.rs:183-459` | last level, targets, times | `step`, `reset` | dwell, a selection that changes between steps, actuators that replace each other | a level that is asked for arrives; a hot machine is not sped up |
| Pulse controller, `controller.rs` | filtered stress, capacity, QoS level, thermal latch | `step`, `reset`, `update_*` | hysteresis, missing readings, thresholds nobody orders | thermal protection outlives a missing reading; Eco is not entered and left in turns |
| Regime arbiter, `regime.rs` | regime, dwell, debt | `decide` | order of overrides against hysteresis | a fault is never delayed, the return is |
| Agent policy, `policy.rs`; adaptation, `adaptive.rs` | none; the tuning | `recommend_with_guard`, `recommend` | metrics outlive their epoch; the write-back races an operator | a live directive rests on evidence of its own epoch; adaptation keeps to its stage and pace |
| Recording, `storage.rs`, parts of `main.rs`, `model.rs`, `server.rs` | session id, epoch, recorder, pending frame, files | new epoch, reopen, append, finalize, compact | frames in flight at a change of epoch, crash during compaction | a deleted recording has its summary on disk; a frame reaches the file of its own session |
| Receipt ledger, `model.rs:955-991` | last hash, events in memory, ledger file | `push_event`, `push_receipt`, `append_event` | the loop appends after it unlocked, so file and memory may disagree on the order; `push_receipt` keeps no limit on the events in memory | the newest receipt is the one governance reads |
| Agent chat, `agent_chat.rs` | transcript in memory, secrets file | chat, clear, config patch | turns work on copies; the transcript is cut by length; a file written in place | a transcript the provider refuses repairs itself; no provider is sent a key saved for another one |
| Analytics, replay, futurist, system profile | windows of floating-point samples | update, forecast, probe | numeric | (statistics; see "Not modelled") |

## Modules

| Module | Models | Kind |
|---|---|---|
| `Authority` | states, actions, `transition`, `authority_contract` | operators |
| `AuthorityLadder` | what the ladder promises: a state, its subject, whether the subject is verified | abstract specification |
| `Interlink` | handlers, control loop, governor and processes together | detailed specification |
| `MCInterlink` | small instances of it | for TLC |
| `InterlinkClaims` | sentences of the documents the code does not keep | for TLC |
| `Recording` | sessions and epochs, the pending frame, the recorder, its files, every kind of compaction, failing writes, crashes | detailed specification |
| `MCRecording` | small instances of it | for TLC |
| `InterlinkProofs` | type correctness | proofs |
| `InterlinkSafety` | the safety invariants of `Interlink`; that it implements `AuthorityLadder` | proofs |
| `RecordingProofs`, `RecordingSafety` | type correctness and the safety invariants of `Recording` | proofs |
| `PulseController` | thermal latch, choice of a level, capacity | operators |
| `MeshController` | process governor and mesh controller as functions of their state | operators |
| `Actuation` | an iteration of the loop with all three, while requests change what is governed | detailed specification |
| `MCActuation` | a small instance of it | for TLC |
| `ActuationProofs` | type correctness and every property of `Actuation` | proofs |
| `RegimeArbiter` | which regime a condition calls for, and its hysteresis | operators |
| `AgentPolicy` | the directive and the bounded change of the gains | operators |
| `Advice` | an iteration of the loop with both, while requests open epochs, change stage and tuning, and fault | detailed specification |
| `MCAdvice` | small instances of it | for TLC |
| `AdviceProofs` | type correctness and every property of `Advice` | proofs |
| `AgentSecrets`, `MCSecrets` | the file of provider keys, patched by requests that overlap | detailed specification, and an instance for TLC |
| `AgentSecretsProofs` | type correctness and every property of `AgentSecrets` | proofs |
| `AgentChat`, `MCChat` | the transcript and the turns that share it | detailed specification, and an instance for TLC |
| `AgentChatProofs` | type correctness and every safety property of `AgentChat` | proofs |

`Interlink`, `Recording`, `Actuation` and `Advice` are four views of one control loop,
each with the requests that interfere with it. They are separate because what one
is about does not depend on the data of another: frames do not depend on QoS
levels, nor levels on files. Where they meet, one view leaves open what another
decides: whether governance is active is an input of `Actuation` and a result of
`Interlink`; the level asked for is an input of `Interlink` and a result of
`Actuation`; the authority is three values in `Advice`.

### How Interlink corresponds to the code

Variables, by owner:

* `RuntimeState`: `authority`, `last_valid`, `failed`, `target`, `identity`,
  `discovered`, `governor_active`, `mesh`, and `receipt` with its age
  (`verification_receipt`, whichever handler pushed it). `applied_qos` is
  `control.applied_qos`, what the API reports. `target_changed` says that
  `target_revision` differs from the loop's copy; the code only compares them.
* HTTP threads between their look at the process table and their commit:
  `lookups` (connect) and `scans` (discovery).
* Control loop: `pc`, `snap` (the locals of the iteration) and `gov` (its
  `ProcessGovernor`).
* Host: `os` maps a PID to the executable that runs under it, `qos` to its
  priority class.
* History, read by no action: `verified`, `verified_age`, the identity the last
  VERIFY confirmed and how long ago.

One handler is one action, its early returns its guards (a refused request changes
nothing, so it is no step; a refused connect is one because it ends a lookup).
The two tools of the chat agent that move authority (`enable_pulse_mesh`,
`disconnect_governance`) are `AgentEnableMesh` and `AgentDisconnect`: they push no
receipt, and the second returns to Observation from any state. The requests that
only open an epoch (reset, session/new, mode, learning stage, tuning) have
the same effect on governance and are one action, `OpenEpoch`. The loop's iteration is `Snapshot`, `Sample`, `Apply`, `WriteBack`, and every handler
can run between two of them.

Abstractions. An executable (name and hashed path) is an element of `Image`. A
target named on the command line has an identity no process matches, because its
recorded hash is empty (`model.rs:902-907`): `Unhashed`. Time is an age that stops
growing past its limit: `TTL` stands for the 300 000 ms of `main.rs:215`, `Dwell`
for `minimum_dwell_ms`. The level the controller asks for is any of `Requests`;
`MeshStep` writes to any running processes or to none, so it has more behaviours
than `MeshController::step`, never fewer. A write that fails may have changed the
priority class before it failed (`PartialWrites`).

### How Recording corresponds to the code

Variables, by owner:

* `RuntimeState`: `session`, `epoch`, `recording`, `session_samples`.
  `epoch_changed` and `target_changed` say that `reset_revision` and
  `target_revision` differ from the loop's copies.
* Control loop: `pc`, `seen` (its snapshot, forgotten after use), `sequence`,
  `recorder` (the session its file belongs to and the samples it counted),
  `pending` (no frame or one, and whether it is to be recorded), `append` (what
  became of it, until the write-back).
* Compactions, one per worker in `job`: an HTTP thread, the loop itself, or a
  process that runs `pulseflow learn`. A job goes through its list session by
  session: read the frames, read the file again for the checksum, write the data
  set, write the receipt, delete the file, delete the metadata.
* Files: `raw` and `file` (existence and frames), `torn` (a line was cut short),
  `meta` (the samples the metadata tells of), `dataset`, `receipts`.
* History, read by no action but to bound it: `appended`, every frame the loop ever
  appended for a session, and `contended`, sessions two compactions worked on at once.

A session is named by its label and the millisecond it was opened in; milliseconds
that name one are counted, and `later` says that the clock must have moved on (the
loop has slept since), so two sessions opened in a row may share a name. Opening
an epoch, for whatever reason, and switching recording are one action each,
under the write lock; the loop's iteration is `Snapshot`, `Reopen`, `AppendFrame`,
`WriteBack`, an optional compaction and `Sleep`. Every write may fail, and leaves
the old file, a new one or one cut short. Metadata cut short is not a state of its
own: `List` takes any subset of the sessions it could take, and how big a session
must be to be listed is open in the same way.

Abstractions. Samples are numbers without content; the migration of old frames,
the `.blob.json` index and the calibration file are left out, since nothing reads
them for control, and `storage.enabled` is assumed. After `Crash` the server starts
with a later session name. A frame does not keep the condition (mode, stage,
tuning) it was taken under.

### How Actuation corresponds to the code

`scope` is what `RuntimeState` names as governed (a process, the host, nothing), with
two revisions as in `Interlink`. The loop's locals are `controller`
(`PulseController`), `gov` (`ProcessGovernor`), `mesh_controller` and
`last_mesh_mode`; `qos` is the class of every process. The rest is history: how
long a process has been asked for a class it does not have (`waiting`), what excuses
it (`mistaken`, `faulty`), whether the guard was reached (`hot`, `forgot`), and since
when Eco is left (`left`).

One iteration is one action, `Iterate`: it chooses controller, governor and mesh by
the revisions and the edges of mesh mode (`CurrentController`, `CurrentGovernor`,
`CurrentMesh`), makes a controller step, and then governs a process, governs the
host, or leaves the host. That is faithful here because nothing but the loop writes
to processes; requests that fall inside an iteration are in `Interlink`.

Abstractions. The feedback on filtered stress moves `capacity` (the code's field
`authority`) by any step within `Slew`; what the choice of a level rests on is that
limit and the range. Time counts in iterations: `Dwell` stands for
`minimum_dwell_ms` over the sample interval. `Selections` are the sequences of processes
`select_mesh_targets` may return, by score and up to the budget that memory allows.
Writes fail one by one, at any time. A write is two system calls, the priority class
and the power throttling (`governor.rs:146-169`), and fails if one of them does: a
failed write may have changed the class, and the governor keeps its old belief
(`GovernorResults`), the mesh its new one (`MeshResults`). Throttling itself is not
modelled. No order of the thresholds is assumed.

### How Advice corresponds to the code

`RuntimeState` gives `authority` (Working, Paused or Faulted, where `failed_invariant`
is set exactly while Faulted), `stage`, `samples` (of its metrics), `tuning` (one gain)
and the last `directive` and `regime`. The loop has `snap`, `outcome` (what it will
publish), its `arbiter`, the frames its analytics `counted`, and whether a frame is
`pending`. Its iteration is `Snapshot`, `Advise`, `WriteBack`, and requests fall between
them; `Advise` reads `failed_invariant` anew, as `main.rs:452` does, and the rest from
the snapshot.

Abstractions. A sample is a `Condition` for the arbiter (in which band the loss is,
whether anything adds to the debt, whether the margin decides, whether the session
is long) and a `Situation` for the policy (the number of thresholds passed by
memory, forecast and want, and five Booleans). The debt is a band with the
transitions its decay and its additions allow. `samples` folds by `Interval` above
every threshold, where only its remainder matters. A suggestion may be any gain
within `Step`: which one rests on the prediction error.

### How AgentSecrets and AgentChat correspond to the code

`AgentSecrets`: `file` is `state/agent-secrets.json` (secrets, absent, empty, or torn);
a request reads and patches its copy (`Read`), opens the file, which empties it
(`Truncate`), and writes (`Write`) or fails; the process may end in between. A file
that is there may be unseen or unreadable at any time and then passes for default or
empty settings (`Loads`), for a patch and for a chat alike. A key is named after the
provider it was issued by, also in the environment: of the providers with two variables
`custom` may get a key of `openai` (`EnvKey`), the two of `spacexai` are one. Models and
base URLs are left out.

`AgentChat`: `history` is `AgentSession.history`; a turn is copied from it at its start,
or while it is empty from the history the client sends, which may be anything (`Seeds`,
`Begin`); it pushes its user's message, asks the provider, pushes an answer or calls
and their results, and ends with an answer, an error or its last round. `Push` cuts
the transcript at the front, wherever that falls. A turn keeps only whether what it
sends is sound, that is, whether every call has its results and every result its
call. A strict provider fails for a turn that is not; any may fail at any time.
What the tools change is in `Interlink` and `Recording`. The temporary files that a
request to the provider goes through are named by the millisecond, so that two
chats could share one; this is not modelled.

## Runs

| Run | Instance | Shows |
|---|---|---|
| `interlink` | 2 interchangeable PIDs, 1 executable, `TTL` 0, `Dwell` 1, `InFlight` 1 | `TypeOK`, `OneScope`, `GovernedTargetWasVerified`, `GovernorFollowsTarget` |
| `reuse` | 1 PID, 2 executables, `TTL` 0, requests Eco and Responsive, `InFlight` 2 | `ArmedOnlyWhileActive`, `ContractMatchesTransitions`, `FollowsLadder` |
| `liveness` | 1 PID, fair, no partial writes | `ExitedTargetLosesActive`, `StaleReceiptLosesActive`, `PausedTargetIsReleased` |
| `recording` | 1 HTTP thread that compacts, 2 sessions, 2 epochs, 2 frames in a row, 3 in a file | `TypeOK`, `FramesInTheirFile`, `ActiveSessionIsKept`, `AtMostOneLateFrame`, `CountsAtMostOneTooMany` |
| `compaction` | the loop and a learn process compact, 2 sessions, 1 frame in a file, metadata written with every frame | `ActiveSessionIsKept`, `DeletedWasDescribed` |
| `actuation` | 2 interchangeable processes and the mesh, temperatures missing, at release and at guard, memory 80 and 90, `Dwell` 2, 3 levels of capacity | `TypeOK`, `AskedIsApplied`, `HotIsProtected`, `EcoReentryIsSlow` |
| `advice` | 3 readings, stages BoundedAdaptive and AgentPolicy, dwell 2, 3 samples before adaptation, interval 2, gains 0 and 1 | `TypeOK`, `FaultContracts`, `StaleEvidenceIsShortLived`, `ReturnToLocalWaits`, `AdaptationIsPaced` |
| `secrets` | 5 providers: two that share keys, `custom`, `openai` with a key in the environment, the local one; 2 requests | `TypeOK`, `KeysKeepTheirProvider`, `SavedKeysStay` |
| `chat` | 2 panels, a transcript of 3 messages, 2 rounds, up to 2 calls in an answer | `TypeOK`, `OrphansOnlyAtHead`, `RefusalsRunOut`, `EveryTurnEnds` |
| `claim_*` | as small as the counterexample allows | one violated sentence each |

Why these bounds. The hazards of `Interlink` are about a target replaced by another
while the loop holds a snapshot of the first, which takes two PIDs (or the host and
one PID), and about one PID used by two executables, which takes two images; no
handler relates three targets. `TTL` 0 separates fresh (this instant) from stale.
`Dwell` 1 separates a deferred change from one that may happen. `InFlight` bounds
the connects and discoveries between their look-up and their commit: 1 lets one of
them see a stale process, 2 lets two overlap. The theorems below hold without
bounds.

Those of `Recording` are about one session replaced by another while a frame, a
recorder or a compaction belongs to the first: two names (`MaxSession` 1) and two
epochs (`MaxEpoch`), which may share a name or be a restart apart. `MaxSeq` 2 gives a
frame a successor; `MaxFile` 3 leaves room for two late frames, so that
`AtMostOneLateFrame` could fail. In `compaction` one frame is enough: what matters
is where a job is when something fails, and which files are there. `FlushEvery`
5 or 1 lets metadata lag behind the file or not, `QueryLimit` 1 makes the newest
frame all that is read of a big session.

In `actuation` two processes and budgets of one and two places let a selection drop,
keep and exchange a process. `Temps` holds a reading at each threshold and none,
`Rams` one below and one above the mesh's threshold for Eco (89); the memory assist of
the controller, which starts at 92, does not act in this instance and is covered by
the theorems alone. Capacity 0 to 2 in steps of 1 is the smallest range with a level
between the thresholds of Eco. In `advice` the three readings are a calm host, a burden
in the band between the thresholds of the loss, and a broken envelope with an
indecisive margin: a regime can be entered, held and left, with and without debt.
Three samples at an interval of two put a checkpoint after the minimum and not on it.
In `chat` a transcript of three messages cuts between a call and its results and holds
one whole round; the bound of `RefusalsRunOut` is reached in it. `Id` and `Counted`
keep the models finite without changing what a step can tell apart.

Deadlock is checked in every run: in `Interlink` the loop and the clock can always
step, in `Recording` recording can always be switched, in the others a request or an
iteration of the loop is always possible.

### Fairness

`FairSpec` assumes weak fairness of the loop, a thread that sleeps and repeats
until the program ends (`main.rs:201-704`), weak fairness of the clock, and strong
fairness of `WriteSucceeds`: if the loop comes again and again to the point where
it would change a priority, the operating system will not refuse every time. The
third is about the host and not about the code: a process that denies access for
ever is never released. Requests and exits get no fairness. `liveness` leaves
partial writes out: after one, the governor takes the process to be at its former
level and, asked for that level, does nothing, so a half-written process can
stay lowered.

In `AgentChat` every panel's `Advance` is weakly fair: the thread of a request runs on,
a request to the provider has a timeout of 150 s, and every tool returns.

### Where code and documents differ

Three differences are runs whose property states the sentence and fails:

* `claim_executable`: "PID/executable mismatch ... stops new modulation"
  (`docs/AUTHORITY_STATE_MODEL.md`). The loop looks for the PID only, so a reused PID
  keeps the authority.
* `claim_described`: "every analyzed recording" becomes a learning iteration "before
  deleting the raw JSONL" (`README.md:165`). A session left a moment ago may be
  compacted while the loop has one frame to append to it; that frame is deleted
  with a file that was read before. `AtMostOneLateFrame` shows it is at most one.
* `claim_regime`: hysteresis is "harder to leave local than to return"
  (`regime.rs:132`) and a "dwell before return" (`docs/GCMT_PULSEFLOW_EVOLUTION.md:121`).
  A hold takes the branch that does not count dwell (`regime.rs:256-269`, against 276):
  a regime decided fewer than `min_dwell` times is held against Local for as long as the
  host stays calm, without any debt.

Others are visible in the models and need no run to be seen. Of governance:

* "Verification expires after five minutes" (`docs/AUTHORITY_STATE_MODEL.md:22`).
  `push_receipt` (`model.rs:979`) makes every receipt the verification receipt, so
  enable, pause and resume restart the clock.
* The contract of Disconnected shows process QoS "OFF" (`authority.rs:168`). The loop
  drops its governor when the target changes (`main.rs:267`); nothing restores a
  lowered process.
* "A non-monitor-only QoS state has been applied" (`docs/SYSTEM_INTERLINK.md:13`). A
  write-back that began before a new epoch publishes the old target's level
  (`main.rs:628`), and the report calls the new target active.
* `docs/AUTHORITY_STATE_MODEL.md:16` lets a disconnected link only be discovered;
  `Connect` takes it from Disconnected too (`ConnectFrom` of `LadderAsBuilt`).
* `docs/AUTHORITY_STATE_MODEL.md:18-20` calls the chain over VERIFY the only one;
  `EnableMesh` needs no state at all (`HostGrantFrom`), and the agent's disconnect
  returns to Observation from any (`DropFrom`).
* `docs/AUTHORITY_STATE_MODEL.md:14` wants a fresh verification for resume; `Start`
  and `Enable` check none.
* `docs/AUTHORITY_STATE_MODEL.md:27` has every transition emit a receipt;
  `PublishDiscovery`, `VerifyMismatch`, the agent's tools and the faults of `WriteBack`
  emit none.
* `README.md:347` limits QoS to a verified PID; an unarmed `Apply` writes the normal
  class to a target that is only connected, if it finds the dwell time elapsed.
* `docs/CONTROL_MODEL.md:17` disables responsive priority by default; `MeshStep`
  does not consult `AllowAboveNormal`.
* The contract of Faulted offers Recover; no request performs it.

Of recording:

* "One dataset does not silently combine distinct experimental conditions"
  (`docs/MIGRATION_V3.md:9-11`). The agent's `set_mode` (`agent_chat.rs:856`) opens no
  epoch, nor does the write-back of a bounded adaptation (`main.rs:650`).
* `docs/FUTURIST_GOVERNOR.md:58` protects the active session. `LearnBatch`, another
  process, does not know it; `LearnRequest` and `AgentCompact` list the sessions after
  they have looked which one is active, so that one opened in between is not left
  out. `AutoCompact` has the same order but only the loop itself opens the files
  of a new session, so nothing is listed in between.
* The agent's disconnect restarts the sequence of frames within an epoch
  (`agent_chat.rs:832`), where analytics counts dropped samples by gaps.
* `maybe_auto_compact_sessions` describes the newest frames of a session (10 000 or
  `maximum_query_samples`, `main.rs:742`) and deletes all.

Of actuation:

* A new epoch or target drops the thermal latch while the machine is hot. `HotIsProtected` excuses it with `forgot`.
* A new governor takes its process to be Normal. One that it inherits lowered and is
  asked to keep Normal stays lowered; `AskedIsApplied` excuses it with `mistaken`.
* A write that fails half way has changed the priority, and the governor does not know
  it (`governor.rs:146-169`, 73-77). Asked for the level it believes in, it holds: a
  process half written to Eco that is next asked for Normal stays lowered until another
  level is asked for. `AskedIsApplied` excuses this with `mistaken` too.
* Pausing the mesh leaves its processes lowered, and a process that drops out of the
  selection is never restored.
* A write the mesh fails is not retried until level or selection change; the governor
  retries at its next call, because a failed write does not restart its dwell time, as
  long as it is asked for a level it does not believe in. A Responsive level that is
  not allowed is written as Normal again after every dwell.
* The dwell of the mesh starts over at every edge of mesh mode. The memory assist has
  no hysteresis: one threshold enters and leaves it.

Of advice:

* Quarantine is never decided: the legitimacy that would call for it is only so low
  when integrity is lost too, which calls for Rollback before.
* The arbiter is never reset; its debt and regime outlive epochs and targets. So do
  the directive and regime on display, until the next write-back.
* "Block adaptive apply" under Abstain (`docs/GCMT_PULSEFLOW_EVOLUTION.md:143`): the
  adaptation does not look at the regime.
* Directives "remain `shadow_only: true` until the configured minimum sample boundary
  is met" (`README.md:397`). An iteration that began before the stage was changed
  writes the old metrics back, and up to three directives may be live by them
  (`StaleEvidenceIsShortLived`); an agent that disconnects again and again, without an
  epoch, prolongs that.
* When slack is exhausted, concurrency falls to 1 and background work may stay allowed.
* An adaptive write-back overwrites a tuning that the operator committed during the
  iteration (`main.rs:650`).

Of the agent chat:

* Two patches that overlap lose one. The file is emptied before it is written: a crash
  in between loses all keys, and an empty file is loaded as no settings at all.
* A patch that cannot read the file (`agent_chat.rs:219-222`) starts from empty settings
  and saves them: every key but the one it brings is lost, and the answer is a success.
  `SavedKeysStay` excuses it.
* `custom` without a key of its own is given the one in `OPENAI_API_KEY`, whatever its
  base URL (`agent_chat.rs:264`), although the catalog names `CUSTOM_API_KEY` only
  (`agent_chat.rs:198`). `KeysKeepTheirProvider` states the exception.
* Removing the key of the free provider leaves OpenRouter's, which serves it too.
* The text about the limit of rounds and errors is shown and not kept in the
  transcript; a clear during a turn is followed by the rest of that turn.
* Results whose call was cut off stay at the head of the transcript and make a strict
  provider refuse until they are driven out (`OrphansOnlyAtHead`, `RefusalsRunOut`).
* While the transcript is empty a turn sends the client's history as it is
  (`agent_chat.rs:1148-1155`). The user's message it pushes puts that history out of
  use, but each clearing brings it back: a client that clears and sends the same broken
  history again is refused for ever, and `RefusalsRunOut` counts anew from each clearing.

## Proofs

TLAPS checks the theorems below for every value of the constants: any set of
processes, executables, threads and sessions, any dwell, threshold and bound. They
assume the named assumptions of the modules (`ConstantsAssumption`,
`RecordingAssumption`, `ControllerAssumption`, `ActuatorAssumption`,
`ActuationAssumption`, `ArbiterAssumption`, `PolicyAssumption`, `AdviceAssumption`,
`SecretsAssumption`, `PatchAssumption`, `FileAssumption`, `ChatAssumption`) and
nothing else; TLC evaluates each of them in a run. Every invariant and every action
property that a run checks is proved.

### Interlink

* `TypeCorrect` (`InterlinkProofs`): `Spec => []TypeOK`, one step per action. The
  lemmas `Governed` and `Meshed` say that what the loop applies is well typed.
* `Safety` (`InterlinkSafety`): `ArmedOnlyWhileActive`, `OneScope`,
  `GovernedTargetWasVerified`, `GovernorFollowsTarget`. The inductive invariant is
  `TypeOK /\ Safe`, where `Safe` is all four together. That the governor is bound to
  the process of the snapshot depends on what `Snapshot` found, and this on the fact
  that a governor can only lag behind the target while `target_changed` is set.
  `GovernorFollowsTarget` needs `GovernedTargetWasVerified` for the armed snapshot,
  which needs `OneScope` to know that a state above Connected has a target exactly
  when it has no mesh.
  A handler disturbs only the first three (`Scoped`), the loop mostly the last,
  and `Undisturbed`, `Retargeted` and `Rebound` state once what each leaves alone.
* `Refinement` (`InterlinkSafety`): `Spec => FollowsLadder`. `LadderStep` maps
  every action to one of the ladder or to a stutter, under the same invariant.
* `ContractIsShown`: the actions shown are those that `transition` accepts, by cases
  over the two tables (`ContractIsKept`), in every state of the right type.

### Recording

* `TypeCorrect` (`RecordingProofs`) needs `Busy`: a job has a session, and frames of
  it, exactly between the reading and the end; otherwise a step could write a file of
  no session.
* `FramesAreRouted`: a frame reaches the file of its session. The frame itself waits an
  iteration, so the invariant `Routed` says of whom recorder, snapshot and pending frame
  are at each step of the loop, unless a change of epoch is unseen; that change
  makes the loop drop the frame and open another recorder before it appends.
* `ActiveIsKept`: session names only grow and no file is of a session to come
  (`Known`), so what a request may name is older than the active session. The loop
  looks which session is active and then lists: that nothing is listed which is
  younger rests on the loop doing nothing else meanwhile (`Older`).
* `DescribedBeforeDeleted`: each step of a compaction finds what the ones before wrote
  (`Safe`), unless another compaction has the same session, which then is `contended`
  (`Together`); and a session whose raw file is gone keeps what describes it, even if a
  recorder is still open on it (`Left`). A crash cuts short only what some worker was
  writing, and of that the raw file is still there.
* `OneFrameIsLate`: while a compaction asked for one session works on it, at most one
  frame is appended that it has not read. A compaction may only be asked for a session
  that is not active, so it has all of the file but a frame the loop is about to append
  (`Due`); once that is appended the loop meets the change of epoch and opens another
  recorder (`Behind`). `Complete` relates what was read to the file in both cases.
* `CountsOneTooMany`: the counter is at most one ahead of the frames of its epoch.
  Inductive with it are that it is not ahead when it is about to count again and is
  zero while the loop has not seen a new epoch (`Counted`), and of which epoch the
  loop's snapshot and pending frame are (`Stamped`).

### Actuation

* `TypeCorrect` (`ActuationProofs`).
* `Protection`: heat that was not forgotten means a latch that is set.
* `Hysteresis`: since Eco was left the capacity has fallen by at most `Slew` a sample.
* `Delivery`: whom governor or mesh believe to have written has that class or is
  `faulty`, or the governor is `mistaken` (`Knows`); `Holds`, `Succeeds` and `Fails` are
  the three outcomes of a governor's call, the last with or without the class written.
  A process waits no longer than its actuator's last write is ago
  (`Waits`), and that is less than the dwell time while anything is deferred.

### Advice

* `TypeCorrect` (`AdviceProofs`).
* `FaultIsContracted`: what is worked out after the first publication that follows a
  fault is contracted (`Contracted`).
* `EvidenceIsFresh`: `Traced` says, for each step of the loop and each number of
  publications since a change, which count the metrics are of.
* `ReturnIsDelayed`: decisions for a regime outnumber its dwell count (`Dwelt`).
* `StepsArePaced`: the gains change at checkpoints that are an interval of finalised
  frames apart. `Spaced` ties the frames since the last change to the remainder of the
  count by the interval, `Current` and `Measured` say what the snapshot and the
  suggestion of the running iteration are of. The interval is arbitrary, so that the
  lemmas `Division` to `LessModulo` on remainders come first.

### Agent secrets

* `TypeCorrect` (`AgentSecretsProofs`).
* `KeysArePlaced`: every key in the file and in the copy of a request is of its place
  or of its partner (`Placeable`), and what `Loads` makes of a file that cannot be read
  holds none. The environment is a constant, so its one exception is a case of `EnvKey`.
* `SavedKeysLast`: a request that no other overlapped has the file to itself and a
  copy that holds every saved key but the one it removes, if it could read the file
  (`Undisturbed`), and nothing counts as saved while requests overlap (`Lasting`) or
  after a request that saved without having read. The property speaks of the file
  between writes only; during one it is empty.

### Agent chat

* `TypeCorrect` (`AgentChatProofs`), with what a turn at each step holds (`Going`). That
  there is an identifier no message and no turn uses (`FreshIsId`) is a count of sets.
* `RepairsItself`: for every message that is not a user's, the refusals since and the
  turns that will be refused are no more than the messages behind it and the
  panels (`Bounded`); when none is left, what was asked for before is all
  that can still be refused (`Spent`). On an empty transcript any turn that begins may
  be one that is refused; but the refusals and the turns that have pushed their message are then no more than
  the panels (`Cleared`), since the clearing that emptied it reset the count (`Emptied`).
* `OrphansLeadTheRest`: while turns have not overlapped there is one at most (`Alone`), and
  with what that turn has still to push the transcript is `Tidy` behind the results
  at its head: complete behind every call (`Answered`, `Finished`), no result without
  its call (`Called`), and the calls of the turn are there unless all before them is
  gone (`Pending`). `TidyMessage` and `TidyResult` show that a push keeps
  it, `TidyCut` that dropping the first message does: then the results of a call that
  drops out become the head.

Only model-checked are the liveness properties (`liveness`, `EveryTurnEnds`), which rest
on fairness and `ENABLED` and are out of the prover's reach. That a claim is violated
is TLC's to show.

## Plan

1. Done: `Authority`, `AuthorityLadder`, `Interlink`, its runs and proofs.
2. Done: `Recording`, its runs and proofs.
3. Done: `PulseController`, `MeshController` and `Actuation`, with proofs of every
   property.
4. Done: `RegimeArbiter`, `AgentPolicy` and `Advice`, with proofs of every property.
5. Done: `AgentSecrets` and `AgentChat`, with proofs of every property but
   `EveryTurnEnds`.
6. Left: an abstract specification of `Recording` (what becomes of a session's frames:
   recorded, described, deleted) that it implements as `Interlink` does the ladder.

## Not modelled

Analytics, replay, futurist and the system profile are floating-point statistics; a
small integer instance says nothing about them. What they hand to the control path
is: the count of samples, a forecast in four grades and a memory threshold are
in `Advice`, `AgentPolicy` and `PulseController`, whatever their values are.

Of the receipt ledger only the newest receipt is in `Interlink`. The events in memory
and the ledger file are written and shown, and nothing that decides reads them.

HTTP parsing and routing, configuration parsing and the command line are input and
output; what governance reads of them is a constant or an initial state. A poisoned
lock (a panic in a handler) stops the loop for good and is not modelled. The
browser page, the scripts and the vendored Cortex tool are clients or helpers.
