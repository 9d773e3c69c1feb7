------------------------------- MODULE Recording -------------------------------
(***************************************************************************)
(* How PulseFlow records: the sessions and epochs that requests open in    *)
(* RuntimeState (src/model.rs), the control loop's pending frame and its   *)
(* FrameRecorder (src/main.rs, src/storage.rs), and the compactions that   *)
(* turn the raw file of a session into a data set and delete it: on        *)
(* request for one session, on request for all, by the loop itself, and    *)
(* from the command line, by a process of its own.                         *)
(*                                                                         *)
(* The server may crash between any two steps, and any write may fail; a   *)
(* crash inside a write, or a failed one, leaves a file cut short.  Files  *)
(* survive a restart, nothing else does.                                   *)
(***************************************************************************)
EXTENDS Integers, FiniteSets, Sequences, SequencesExt

CONSTANTS
  Http,             \* HTTP threads that may compact at the same time
  Loop,             \* the control loop, which compacts too
  Batch,            \* processes that run `pulseflow learn`
  Hygiene,          \* sessions grow to the 2 MB from which the loop compacts them
  Agent,            \* the chat agent may disconnect and compact
  QueryLimit,       \* the newest frames of a big session that are read to compact it
  FlushEvery,       \* metadata_flush_every_samples
  MaxSession,       \* bound: milliseconds in which a session is opened
  MaxEpoch,         \* bound: epochs between two restarts
  MaxSeq,           \* bound: frames taken in a row
  MaxFile           \* bound: frames of one session; after that the disk is full

ASSUME RecordingAssumption ==
  /\ Loop \notin Http \cup Batch /\ Http \cap Batch = {}
  /\ QueryLimit \in Nat \ {0} /\ FlushEvery \in Nat \ {0}
  /\ Hygiene \in BOOLEAN /\ Agent \in BOOLEAN
  /\ MaxSession \in Nat /\ MaxEpoch \in Nat \ {0}
  /\ MaxSeq \in Nat \ {0} /\ MaxFile \in Nat

Server  == Http \cup {Loop}
Worker  == Server \cup Batch
\* A session is named by its label and the millisecond in which it was opened.  Only
\* milliseconds that name a session are told apart: they are counted.
Session == 0 .. MaxSession
NoSession == -1
Frame == [session : Session, epoch : 1 .. MaxEpoch, seq : 1 .. MaxSeq]

VARIABLES
  \* RuntimeState; later: the loop has slept since the session was named
  session, later, epoch, epoch_changed, target_changed, recording, session_samples,
  \* the control loop: its snapshot, sequence number, recorder and pending frame
  pc, seen, sequence, recorder, pending, append,
  \* compactions
  job,
  \* files: the sessions that have a raw file, the frames in it, those whose file has
  \* a line cut short, the samples their metadata tells of, data sets and receipts
  raw, file, torn, meta, dataset, receipts,
  \* history: frames ever appended for a session, and the sessions that two
  \* compactions worked on at once
  appended, contended

epochs  == <<session, later, epoch, epoch_changed>>
runtime == <<epochs, target_changed, recording, session_samples>>
loop    == <<pc, seen, sequence, recorder, pending, append>>
disk    == <<raw, file, torn, meta, dataset, receipts>>
history == <<appended, contended>>
vars    == <<runtime, loop, job, disk, history>>

NoRecorder == [session |-> NoSession, samples |-> 0]
NoPending == [frames |-> {}, record |-> FALSE]
NotSeen == [session |-> 0, epoch |-> 1, recording |-> FALSE]
NoJob == [step |-> "idle", kind |-> "none", current |-> NoSession, todo |-> {},
          session |-> NoSession, frames |-> <<>>]
NoMeta == -1

\* RuntimeState::new and the head of run_control_loop
Init ==
  /\ session = 0 /\ later = FALSE /\ epoch = 1 /\ epoch_changed = FALSE
  /\ target_changed = FALSE /\ recording = TRUE /\ session_samples = 0
  /\ pc = "open" /\ seen = NotSeen /\ sequence = 0
  /\ recorder = NoRecorder /\ pending = NoPending /\ append = "none"
  /\ job = [w \in Worker |-> NoJob]
  /\ raw = {} /\ torn = {} /\ receipts = {}
  /\ file = [s \in Session |-> <<>>]
  /\ meta = [s \in Session |-> NoMeta]
  /\ dataset = [s \in Session |-> <<>>]
  /\ appended = [s \in Session |-> <<>>]
  /\ contended = {}

--------------------------------------------------------------------------------
(* Requests, under the write lock. *)

\* make_session_id: another name, unless the millisecond can still be the same.
NewSession ==
  /\ session' \in {session + 1} \cup {s \in {session} : ~later}
  /\ session' \in Session
  /\ later' = FALSE

\* MUTANT of BeginNewEpoch: reset_revision is not advanced.
BeginQuietEpoch ==
  /\ epoch < MaxEpoch
  /\ NewSession
  /\ epoch' = epoch + 1
  /\ session_samples' = 0
  /\ UNCHANGED epoch_changed

\* MUTANT of BeginNewEpoch: the sample counter goes on counting.
BeginUncounted ==
  /\ epoch < MaxEpoch
  /\ NewSession
  /\ epoch' = epoch + 1
  /\ epoch_changed' = TRUE
  /\ UNCHANGED session_samples

\* begin_new_epoch: a new session, and a revision the loop will see.
BeginNewEpoch ==
  /\ epoch < MaxEpoch
  /\ NewSession
  /\ epoch' = epoch + 1
  /\ session_samples' = 0
  /\ epoch_changed' = TRUE

\* Connect, disconnect, baseline, enable, mesh, control reset, session/new, and POST of
\* a new mode, learning stage or tuning
OpenEpoch ==
  /\ BeginNewEpoch
  /\ recording' = TRUE
  /\ UNCHANGED <<target_changed, loop, job, disk, history>>

\* The agent's tool disconnect_governance changes the target and opens no epoch.
AgentDisconnect ==
  /\ Agent
  /\ target_changed' = TRUE
  /\ UNCHANGED <<epochs, recording, session_samples, loop, job, disk, history>>

\* POST /api/recording
SetRecording(enabled) ==
  /\ recording' = enabled
  /\ UNCHANGED <<epochs, target_changed, session_samples, loop, job, disk, history>>

--------------------------------------------------------------------------------
(* The control loop. *)

\* FrameRecorder::open, for the session that is current by now: it keeps what a file
\* of that name holds and restarts the sample count of its metadata.  If a file
\* cannot be opened or written, recording stops.
OpenCurrentRecorder(closed) ==
  \/ /\ recorder' = [session |-> session, samples |-> 0]
     /\ raw' = raw \cup {session}
     /\ meta' = [closed EXCEPT ![session] = 0]
     /\ UNCHANGED recording
  \/ /\ recorder' = NoRecorder
     /\ raw' \in {raw, raw \cup {session}}
     /\ meta' = closed
     /\ recording' = FALSE

\* The thread starts.
Open ==
  /\ pc = "open"
  /\ OpenCurrentRecorder(meta)
  /\ pc' = "snapshot"
  /\ UNCHANGED <<epochs, target_changed, session_samples, seen, sequence, pending,
                 append, job, file, torn, dataset, receipts, history>>

\* MUTANT of Forget: the pending frame survives.
KeepPending == sequence' = 0 /\ UNCHANGED pending

\* What the loop carries from one iteration to the next starts over.
Forget == sequence' = 0 /\ pending' = NoPending

\* A new target makes the loop forget; a new epoch, reopen.
Snapshot ==
  /\ pc = "snapshot"
  /\ seen' = [session |-> session, epoch |-> epoch, recording |-> recording]
  /\ epoch_changed' = FALSE /\ target_changed' = FALSE
  /\ IF target_changed THEN Forget ELSE UNCHANGED <<sequence, pending>>
  /\ pc' = IF epoch_changed THEN "reopen" ELSE "append"
  /\ UNCHANGED <<session, later, epoch, recording, session_samples,
                 recorder, append, job, disk, history>>

\* FrameRecorder::finalize writes the metadata of its session, even of one whose
\* files were deleted.
Finalized ==
  IF recorder = NoRecorder THEN meta ELSE [meta EXCEPT ![recorder.session] = recorder.samples]

\* The epoch changed: the recorder is closed and another one opened.
Reopen ==
  /\ pc = "reopen"
  /\ OpenCurrentRecorder(Finalized)
  /\ Forget
  /\ pc' = "append"
  /\ UNCHANGED <<epochs, target_changed, session_samples, seen, append, job,
                 file, torn, dataset, receipts, history>>

\* MUTANT of NewPending: numbered before the sequence advances.
NumberedEarly ==
  [frames |-> {[session |-> seen.session, epoch |-> seen.epoch, seq |-> sequence]},
   record |-> seen.recording]

\* The frame of this iteration, which the next one appends ...
NewPending ==
  [frames |-> {[session |-> seen.session, epoch |-> seen.epoch, seq |-> sequence + 1]},
   record |-> seen.recording]

\* ... to the file its recorder has open, which may have been deleted meanwhile.
Write(frame) ==
  LET s == recorder.session IN
  /\ recorder # NoRecorder /\ Len(appended[s]) < MaxFile
  /\ recorder' = [recorder EXCEPT !.samples = @ + 1]
  /\ appended' = [appended EXCEPT ![s] = Append(@, frame)]
  /\ file' = IF s \in raw THEN [file EXCEPT ![s] = Append(@, frame)] ELSE file
  /\ UNCHANGED torn
  /\ \/ append' = "written"
        /\ meta' = IF recorder'.samples % FlushEvery = 0
                     THEN [meta EXCEPT ![s] = recorder'.samples] ELSE meta
     \/ append' = "failed" /\ recorder'.samples % FlushEvery = 0 /\ UNCHANGED meta

\* There is no recorder, or the line cannot be written to its end.
FailToWrite ==
  /\ append' = "failed"
  /\ torn' \in {torn, torn \cup ({recorder.session} \cap raw)}
  /\ UNCHANGED <<recorder, appended, file, meta>>

AppendPending ==
  IF pending.record
    THEN FailToWrite \/ \E frame \in pending.frames : Write(frame)
    ELSE append' = "none" /\ UNCHANGED <<recorder, appended, file, torn, meta>>

AppendFrame ==
  /\ pc = "append"
  /\ sequence < MaxSeq
  /\ sequence' = sequence + 1
  /\ AppendPending
  /\ pending' = NewPending
  /\ seen' = NotSeen
  /\ pc' = "write"
  /\ UNCHANGED <<runtime, job, raw, dataset, receipts, contended>>

\* Under the write lock the frame is counted, and a fault stops recording.
WriteBack ==
  /\ pc = "write"
  /\ session_samples' = session_samples + (IF append = "written" THEN 1 ELSE 0)
  /\ recording' = (recording /\ append # "failed")
  /\ append' = "none"
  /\ pc' = "hygiene"
  /\ UNCHANGED <<epochs, target_changed, seen, sequence, recorder, pending, job, disk, history>>

\* The loop sleeps for the sample interval, 250 ms or more.
Sleep ==
  /\ pc = "hygiene"
  /\ job[Loop] = NoJob
  /\ pc' = "snapshot"
  /\ later' = TRUE
  /\ UNCHANGED <<session, epoch, epoch_changed, target_changed, recording,
                 session_samples, seen, sequence, recorder, pending, append, job, disk, history>>

--------------------------------------------------------------------------------
(* Compaction. *)

Begin(w, kind, step, current, todo) ==
  /\ job[w] = NoJob
  /\ job' = [job EXCEPT ![w] = [NoJob EXCEPT !.kind = kind, !.step = step,
                                             !.current = current, !.todo = todo]]
  /\ UNCHANGED <<runtime, loop, disk, history>>

\* MUTANT of CompactRequest: the active session is not refused.
CompactAnything(w, s) == s \in raw /\ Begin(w, "one", "read", NoSession, {s})

\* POST /api/session/compact of any session that has a file, but the active one ...
CompactRequest(w, s) == s \in raw /\ s # session /\ Begin(w, "one", "read", NoSession, {s})

\* ... POST /api/session/learn of all of them ...
LearnRequest(w) == Begin(w, "learn", "list", session, {})

\* ... the agent's tool compact_inactive_sessions of the big ones ...
AgentCompact(w) == Agent /\ Begin(w, "big", "list", session, {})

\* ... the loop itself of the big ones, in one iteration of 120 ...
AutoCompact == Hygiene /\ pc = "hygiene" /\ Begin(Loop, "big", "list", session, {})

\* ... and a process of its own, which knows of no active session.
LearnBatch(w) == Begin(w, "learn", "list", NoSession, {})

\* MUTANT of Listed: no session is left out.
ListedAll(w) == {s \in Session : meta[s] # NoMeta}

\* The sessions that have metadata, but for the one that was active when the
\* worker looked ...
Listed(w) ==
  {s \in Session : /\ meta[s] # NoMeta
                   /\ s # job[w].current
                   /\ job[w].kind = "learn" => meta[s] > 0}

\* ... of which it takes some: how big a session has to be is left open, and metadata
\* cut short is passed over.
List(w) ==
  /\ job[w].step = "list"
  /\ \E todo \in SUBSET Listed(w) :
       job' = [job EXCEPT ![w] = [@ EXCEPT !.step = "read", !.current = NoSession, !.todo = todo]]
  /\ UNCHANGED <<runtime, loop, disk, history>>

\* What a worker reads of a session: all its frames or, of a big one, the newest.
FramesRead(w, s) ==
  LET frames == file[s]
      oldest == IF job[w].kind = "big" /\ Len(frames) > QueryLimit
                  THEN Len(frames) - QueryLimit + 1 ELSE 1 IN
  SubSeq(frames, oldest, Len(frames))

\* It passes over a session without a file, without frames, or with an invalid one.
Readable(s) == s \in raw /\ s \notin torn /\ file[s] # <<>>

ReadFrames(w) ==
  /\ job[w].step = "read"
  /\ \E s \in job[w].todo :
       IF Readable(s)
         THEN /\ job' = [job EXCEPT ![w] = [@ EXCEPT !.step = "checksum",
                                              !.todo = job[w].todo \ {s},
                                              !.session = s, !.frames = FramesRead(w, s)]]
              /\ contended' = contended \cup
                   {t \in {s} : \E v \in Worker \ {w} : job[v].session = s}
         ELSE /\ job' = [job EXCEPT ![w] = [@ EXCEPT !.todo = job[w].todo \ {s}]]
              /\ UNCHANGED contended
  /\ UNCHANGED <<runtime, loop, disk, appended>>

EndJob(w) ==
  /\ job[w].step = "read" /\ job[w].todo = {}
  /\ job' = [job EXCEPT ![w] = NoJob]
  /\ UNCHANGED <<runtime, loop, disk, history>>

\* compact_session_with_options goes from step to step, or gives the session up.
Advance(w, step) == job' = [job EXCEPT ![w] = [@ EXCEPT !.step = step]]
GiveUp(w) ==
  job' = [job EXCEPT ![w] = [@ EXCEPT !.step = "read", !.session = NoSession, !.frames = <<>>]]

\* It reads the raw file again, for the checksum ...
Checksum(w) ==
  /\ job[w].step = "checksum"
  /\ IF job[w].session \in raw THEN Advance(w, "dataset") ELSE GiveUp(w)
  /\ UNCHANGED <<runtime, loop, disk, history>>

\* ... writes the data set ...
WriteDataset(w) ==
  LET s == job[w].session IN
  /\ job[w].step = "dataset"
  /\ \/ dataset' = [dataset EXCEPT ![s] = job[w].frames] /\ Advance(w, "receipt")
     \/ (\E left \in {dataset[s], <<>>} : dataset' = [dataset EXCEPT ![s] = left]) /\ GiveUp(w)
  /\ UNCHANGED <<runtime, loop, raw, file, torn, meta, receipts, history>>

\* MUTANT of WriteReceipt: a failed write is ignored.
WriteAnyReceipt(w) ==
  LET s == job[w].session IN
  /\ job[w].step = "receipt"
  /\ receipts' \in {receipts \cup {s}, receipts, receipts \ {s}}
  /\ Advance(w, "delete")
  /\ UNCHANGED <<runtime, loop, raw, file, torn, meta, dataset, history>>

\* ... the analysis receipt ...
WriteReceipt(w) ==
  LET s == job[w].session IN
  /\ job[w].step = "receipt"
  /\ \/ receipts' = receipts \cup {s} /\ Advance(w, "delete")
     \/ receipts' \in {receipts, receipts \ {s}} /\ GiveUp(w)
  /\ UNCHANGED <<runtime, loop, raw, file, torn, meta, dataset, history>>

\* ... and deletes the raw file, unless somebody has or it cannot be deleted ...
DeleteRaw(w) ==
  LET s == job[w].session IN
  /\ job[w].step = "delete"
  /\ \/ /\ s \in raw
        /\ raw' = raw \ {s} /\ torn' = torn \ {s}
        /\ file' = [file EXCEPT ![s] = <<>>]
        /\ Advance(w, "meta")
     \/ UNCHANGED <<raw, torn, file>> /\ GiveUp(w)
  /\ UNCHANGED <<runtime, loop, meta, dataset, receipts, history>>

\* ... and its metadata.
DeleteMeta(w) ==
  LET s == job[w].session IN
  /\ job[w].step = "meta"
  /\ meta' \in {meta, [meta EXCEPT ![s] = NoMeta]}
  /\ GiveUp(w)
  /\ UNCHANGED <<runtime, loop, raw, file, torn, dataset, receipts, history>>

--------------------------------------------------------------------------------
(* Crashes. *)

\* The sessions for which one of the workers is about to write.
Writing(workers, step) == {job[w].session : w \in {v \in workers : job[v].step = step}}

\* Some of the workers end, and leave what they are writing cut short or not.
End(workers) ==
  /\ job' = [w \in Worker |-> IF w \in workers THEN NoJob ELSE job[w]]
  /\ \E cut \in SUBSET Writing(workers, "dataset") :
       dataset' = [s \in Session |-> IF s \in cut THEN <<>> ELSE dataset[s]]
  /\ \E cut \in SUBSET Writing(workers, "receipt") : receipts' = receipts \ cut

\* The server ends, perhaps while it appends a frame, and is started again later.
Crash ==
  /\ session' = session + 1 /\ session' \in Session
  /\ later' = FALSE /\ epoch' = 1 /\ epoch_changed' = FALSE
  /\ target_changed' = FALSE /\ recording' = TRUE /\ session_samples' = 0
  /\ pc' = "open" /\ seen' = NotSeen /\ sequence' = 0
  /\ recorder' = NoRecorder /\ pending' = NoPending /\ append' = "none"
  /\ End(Server)
  /\ torn' \in {torn, torn \cup {s \in raw : pc = "append" /\ pending.record
                                             /\ s = recorder.session}}
  /\ UNCHANGED <<raw, file, meta, history>>

BatchCrash(w) ==
  /\ job[w] # NoJob
  /\ End({w})
  /\ UNCHANGED <<runtime, loop, raw, file, torn, meta, history>>

--------------------------------------------------------------------------------
Request ==
  \/ OpenEpoch \/ AgentDisconnect
  \/ \E enabled \in BOOLEAN : SetRecording(enabled)

Iterate == Open \/ Snapshot \/ Reopen \/ AppendFrame \/ WriteBack \/ Sleep

Compaction ==
  \/ \E w \in Http : \/ LearnRequest(w) \/ AgentCompact(w)
                     \/ \E s \in Session : CompactRequest(w, s)
  \/ AutoCompact
  \/ \E w \in Batch : LearnBatch(w) \/ BatchCrash(w)
  \/ \E w \in Worker : \/ List(w) \/ ReadFrames(w) \/ EndJob(w) \/ Checksum(w)
                       \/ WriteDataset(w) \/ WriteReceipt(w) \/ DeleteRaw(w) \/ DeleteMeta(w)

Next == Request \/ Iterate \/ Compaction \/ Crash

Spec == Init /\ [][Next]_vars

--------------------------------------------------------------------------------
(* Safety. *)

\* Every variable has its type.
RuntimeOK ==
  /\ session \in Session /\ later \in BOOLEAN
  /\ epoch \in 1 .. MaxEpoch /\ epoch_changed \in BOOLEAN /\ target_changed \in BOOLEAN
  /\ recording \in BOOLEAN /\ session_samples \in Nat
LoopOK ==
  /\ pc \in {"open", "snapshot", "reopen", "append", "write", "hygiene"}
  /\ seen \in [session : Session, epoch : 1 .. MaxEpoch, recording : BOOLEAN]
  /\ sequence \in 0 .. MaxSeq
  /\ recorder \in [session : Session, samples : Nat] \cup {NoRecorder}
  /\ pending \in [frames : SUBSET Frame, record : BOOLEAN]
  /\ append \in {"none", "written", "failed"}
JobOK ==
  job \in [Worker ->
    [step : {"idle", "list", "read", "checksum", "dataset", "receipt", "delete", "meta"},
     kind : {"none", "one", "learn", "big"}, current : Session \cup {NoSession},
     todo : SUBSET Session, session : Session \cup {NoSession}, frames : Seq(Frame)]]
DiskOK ==
  /\ raw \subseteq Session /\ torn \subseteq Session /\ receipts \subseteq Session
  /\ file \in [Session -> Seq(Frame)]
  /\ meta \in [Session -> Nat \cup {NoMeta}]
  /\ dataset \in [Session -> Seq(Frame)]
HistoryOK == appended \in [Session -> Seq(Frame)] /\ contended \subseteq Session

TypeOK == RuntimeOK /\ LoopOK /\ JobOK /\ DiskOK /\ HistoryOK

\* A frame is appended to the file of the session it was taken in, although it waits
\* an iteration and the recorder is opened for whatever session is current by then.
FramesInTheirFile ==
  \A s \in Session : \A f \in ToSet(appended[s]) : f.session = s

\* A compaction asked for one session, and the loop's own, never works on the active
\* session, nor has it in store: it stays inactive while they read and delete it.
ActiveSessionIsKept ==
  \A w \in Server :
    job[w].kind = "one" \/ w = Loop => session \notin job[w].todo \cup {job[w].session}

\* Whatever crashes and fails, a session whose raw file is gone has a data set and an
\* analysis receipt, if no two compactions worked on it at once.
DeletedWasDescribed ==
  \A s \in Session \ (raw \cup contended) :
    appended[s] # <<>> => dataset[s] # <<>> /\ s \in receipts

\* A session can be asked for while the loop still records it, but then the loop
\* appends at most one frame behind the compaction's back.
AtMostOneLateFrame ==
  \A w \in Http :
    job[w].kind = "one" /\ job[w].session # NoSession =>
      Len(file[job[w].session]) <= Len(job[w].frames) + 1

\* The sample counter of an epoch tells at most one frame too many: the one that was
\* appended before the epoch was opened and counted after.
Taken(s, e) == {i \in DOMAIN appended[s] : appended[s][i].epoch = e}
CountsAtMostOneTooMany == session_samples <= Cardinality(Taken(session, epoch)) + 1

--------------------------------------------------------------------------------
(* A sentence of the documents that the code does not keep. *)

\* "Every analyzed recording" is turned into a learning iteration "before deleting the
\* raw JSONL" (README.md): a frame that was appended is in the raw file or described
\* by the data set.
EveryFrameIsDescribed ==
  \A s \in Session : ToSet(appended[s]) \subseteq ToSet(file[s]) \cup ToSet(dataset[s])

================================================================================
