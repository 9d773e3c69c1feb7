---------------------------- MODULE RecordingProofs ----------------------------
(***************************************************************************)
(* Theorems about Recording, for every set of threads that compact, every  *)
(* number of sessions, epochs and frames, whatever fails and crashes.      *)
(***************************************************************************)
EXTENDS Recording, TLAPS

USE RecordingAssumption

--------------------------------------------------------------------------------
(* Values that the constants of the module stand for. *)

JobType ==
  [step : {"idle", "list", "read", "checksum", "dataset", "receipt", "delete", "meta"},
   kind : {"none", "one", "learn", "big"}, current : Session \cup {NoSession},
   todo : SUBSET Session, session : Session \cup {NoSession}, frames : Seq(Frame)]

RecorderType == [session : Session, samples : Nat] \cup {NoRecorder}
PendingType == [frames : SUBSET Frame, record : BOOLEAN]
SeenType == [session : Session, epoch : 1 .. MaxEpoch, recording : BOOLEAN]

LEMMA Nothing ==
  /\ NoJob \in JobType /\ NoPending \in PendingType /\ NotSeen \in SeenType
  /\ 0 \in Session /\ NoSession \notin Session /\ Session \subseteq Nat
<1>1. 0 \in Session /\ NoSession \notin Session /\ Session \subseteq Nat /\ 1 \in 1 .. MaxEpoch
  BY DEF Session, NoSession
<1>2. <<>> \in Seq(Frame)
  OBVIOUS
<1> QED
  BY <1>1, <1>2 DEF NoJob, JobType, NoPending, PendingType, NotSeen, SeenType

LEMMA InitialTypes == Init => TypeOK
<1> SUFFICES ASSUME Init PROVE TypeOK
  OBVIOUS
<1>1. RuntimeOK
  BY Nothing DEF Init, RuntimeOK
<1>2. LoopOK
  <2>1. seen \in SeenType /\ pending \in PendingType
    BY Nothing DEF Init
  <2> QED
    BY <2>1 DEF Init, LoopOK, SeenType, PendingType
<1>3. JobOK
  BY Nothing DEF Init, JobOK, JobType
<1>4. DiskOK
  BY DEF Init, DiskOK
<1>5. HistoryOK
  BY DEF Init, HistoryOK
<1> QED
  BY <1>1, <1>2, <1>3, <1>4, <1>5 DEF TypeOK

--------------------------------------------------------------------------------
(* Requests and the control loop. *)

LEMMA EpochTypes ==
  ASSUME TypeOK, BeginNewEpoch
  PROVE  /\ session' \in Session /\ later' \in BOOLEAN /\ epoch' \in 1 .. MaxEpoch
         /\ epoch_changed' \in BOOLEAN /\ session_samples' \in Nat
<1>1. session' \in Session /\ later' = FALSE /\ epoch < MaxEpoch /\ epoch' = epoch + 1
      /\ session_samples' = 0 /\ epoch_changed' = TRUE
  BY DEF BeginNewEpoch, NewSession
<1>2. epoch \in 1 .. MaxEpoch
  BY DEF TypeOK, RuntimeOK
<1>3. epoch' \in 1 .. MaxEpoch
  BY <1>1, <1>2
<1>4. later' \in BOOLEAN /\ epoch_changed' \in BOOLEAN /\ session_samples' \in Nat
  BY <1>1
<1> QED
  BY <1>1, <1>3, <1>4

LEMMA RequestTypes == TypeOK /\ Request => TypeOK'
<1> SUFFICES ASSUME TypeOK, Request PROVE TypeOK'
  OBVIOUS
<1> USE DEF TypeOK, RuntimeOK, LoopOK, JobOK, DiskOK, HistoryOK, epochs, loop, disk, history
<1>1. CASE OpenEpoch
  BY <1>1, EpochTypes DEF OpenEpoch
<1>2. CASE AgentDisconnect
  BY <1>2 DEF AgentDisconnect
<1>3. ASSUME NEW enabled \in BOOLEAN, SetRecording(enabled) PROVE TypeOK'
  BY <1>3 DEF SetRecording
<1> QED
  BY <1>1, <1>2, <1>3 DEF Request

\* Opening a recorder keeps the types of what it touches.
LEMMA OpenTypes ==
  ASSUME TypeOK, NEW closed \in [Session -> Nat \cup {NoMeta}], OpenCurrentRecorder(closed)
  PROVE  /\ recorder' \in RecorderType /\ raw' \subseteq Session
         /\ meta' \in [Session -> Nat \cup {NoMeta}] /\ recording' \in BOOLEAN
<1>1. session \in Session /\ raw \subseteq Session /\ recording \in BOOLEAN
  BY DEF TypeOK, RuntimeOK, DiskOK
<1>2. [session |-> session, samples |-> 0] \in RecorderType
  BY <1>1 DEF RecorderType
<1>3. CASE /\ recorder' = [session |-> session, samples |-> 0]
           /\ raw' = raw \cup {session} /\ meta' = [closed EXCEPT ![session] = 0]
           /\ UNCHANGED recording
  BY <1>1, <1>2, <1>3
<1>4. CASE /\ recorder' = NoRecorder /\ raw' \in {raw, raw \cup {session}}
           /\ meta' = closed /\ recording' = FALSE
  BY <1>1, <1>4 DEF RecorderType
<1> QED
  BY <1>3, <1>4 DEF OpenCurrentRecorder

LEMMA FinalTypes == TypeOK => Finalized \in [Session -> Nat \cup {NoMeta}]
<1> SUFFICES ASSUME TypeOK PROVE Finalized \in [Session -> Nat \cup {NoMeta}]
  OBVIOUS
<1>1. meta \in [Session -> Nat \cup {NoMeta}] /\ recorder \in RecorderType
  BY DEF TypeOK, LoopOK, DiskOK, RecorderType
<1>2. recorder # NoRecorder => recorder.samples \in Nat
  BY <1>1 DEF RecorderType
<1> QED
  BY <1>1, <1>2 DEF Finalized

LEMMA FrameTypes ==
  ASSUME TypeOK, sequence < MaxSeq
  PROVE  NewPending \in PendingType
<1>1. seen \in SeenType /\ sequence + 1 \in 1 .. MaxSeq
  BY DEF TypeOK, LoopOK, SeenType
<1>2. [session |-> seen.session, epoch |-> seen.epoch, seq |-> sequence + 1] \in Frame
  BY <1>1 DEF SeenType, Frame
<1>3. seen.recording \in BOOLEAN
  BY <1>1 DEF SeenType
<1> QED
  BY <1>2, <1>3 DEF NewPending, PendingType

LEMMA WriteTypes ==
  ASSUME TypeOK, NEW frame \in Frame, Write(frame)
  PROVE  /\ recorder' \in RecorderType /\ appended' \in [Session -> Seq(Frame)]
         /\ file' \in [Session -> Seq(Frame)] /\ torn' \subseteq Session
         /\ meta' \in [Session -> Nat \cup {NoMeta}] /\ append' \in {"none", "written", "failed"}
<1> DEFINE s == recorder.session
<1>1. recorder \in [session : Session, samples : Nat]
  BY DEF Write, TypeOK, LoopOK
<1>2. s \in Session /\ recorder' \in [session : Session, samples : Nat] /\ recorder'.samples \in Nat
  BY <1>1 DEF Write
<1>3. /\ file \in [Session -> Seq(Frame)] /\ appended \in [Session -> Seq(Frame)]
      /\ torn \subseteq Session /\ meta \in [Session -> Nat \cup {NoMeta}]
  BY DEF TypeOK, DiskOK, HistoryOK
<1>4. Append(file[s], frame) \in Seq(Frame) /\ Append(appended[s], frame) \in Seq(Frame)
  BY <1>2, <1>3
<1> HIDE DEF s
<1>5. appended' \in [Session -> Seq(Frame)]
  <2>1. appended' = [appended EXCEPT ![s] = Append(appended[s], frame)]
    BY DEF Write, s
  <2> QED
    BY <1>2, <1>3, <1>4, <2>1
<1>6. file' \in [Session -> Seq(Frame)]
  <2>1. file' = file \/ file' = [file EXCEPT ![s] = Append(file[s], frame)]
    BY DEF Write, s
  <2> QED
    BY <1>2, <1>3, <1>4, <2>1
<1>7. meta' \in [Session -> Nat \cup {NoMeta}]
  <2>1. meta' = meta \/ meta' = [meta EXCEPT ![s] = recorder'.samples]
    BY DEF Write, s
  <2> QED
    BY <1>2, <1>3, <2>1
<1>8. torn' \subseteq Session /\ append' \in {"none", "written", "failed"}
  BY <1>3 DEF Write
<1> QED
  BY <1>2, <1>5, <1>6, <1>7, <1>8 DEF RecorderType

LEMMA IterateTypes == TypeOK /\ Iterate => TypeOK'
<1> SUFFICES ASSUME TypeOK, Iterate PROVE TypeOK'
  OBVIOUS
<1>0. /\ recorder \in RecorderType /\ pending \in PendingType /\ seen \in SeenType
      /\ NotSeen \in SeenType /\ NoPending \in PendingType
  BY Nothing DEF TypeOK, LoopOK, RecorderType, PendingType, SeenType
<1>1. SUFFICES
        /\ RuntimeOK' /\ JobOK' /\ DiskOK' /\ HistoryOK'
        /\ pc' \in {"open", "snapshot", "reopen", "append", "write", "hygiene"}
        /\ sequence' \in 0 .. MaxSeq /\ append' \in {"none", "written", "failed"}
        /\ recorder' \in RecorderType /\ pending' \in PendingType /\ seen' \in SeenType
  BY DEF TypeOK, LoopOK, RecorderType, PendingType, SeenType
<1> USE DEF TypeOK, RuntimeOK, JobOK, DiskOK, HistoryOK, epochs, runtime, disk, history
<1>2. sequence \in 0 .. MaxSeq /\ append \in {"none", "written", "failed"}
  BY DEF LoopOK
<1>3. CASE Open
  BY <1>0, <1>2, <1>3, OpenTypes DEF Open
<1>4. CASE Snapshot
  <2>1. seen' \in SeenType
    BY <1>4 DEF Snapshot, SeenType
  <2>2. sequence' \in 0 .. MaxSeq /\ pending' \in PendingType
    BY <1>0, <1>2, <1>4 DEF Snapshot, Forget
  <2> QED
    BY <1>0, <1>2, <1>4, <2>1, <2>2 DEF Snapshot
<1>5. CASE Reopen
  BY <1>0, <1>2, <1>5, OpenTypes, FinalTypes DEF Reopen, Forget
<1>6. CASE AppendFrame
  <2>1. pending' \in PendingType /\ sequence' \in 0 .. MaxSeq
    BY <1>2, <1>6, FrameTypes DEF AppendFrame
  <2> DEFINE Typed == /\ recorder' \in RecorderType /\ appended' \in [Session -> Seq(Frame)]
                      /\ file' \in [Session -> Seq(Frame)] /\ torn' \subseteq Session
                      /\ meta' \in [Session -> Nat \cup {NoMeta}]
                      /\ append' \in {"none", "written", "failed"}
  <2>2. Typed
    <3>1. ASSUME NEW frame \in pending.frames, Write(frame) PROVE Typed
      <4>1. frame \in Frame
        BY <1>0, <3>1 DEF PendingType
      <4> QED
        BY <3>1, <4>1, WriteTypes
    <3>2. CASE FailToWrite
      BY <1>0, <3>2 DEF FailToWrite
    <3>3. CASE append' = "none" /\ UNCHANGED <<recorder, appended, file, torn, meta>>
      BY <1>0, <3>3
    <3> QED
      BY <1>6, <3>1, <3>2, <3>3 DEF AppendFrame, AppendPending
  <2> QED
    BY <1>0, <1>6, <2>1, <2>2 DEF AppendFrame
<1>7. CASE WriteBack
  BY <1>0, <1>2, <1>7 DEF WriteBack
<1>8. CASE Sleep
  BY <1>0, <1>2, <1>8 DEF Sleep
<1> QED
  BY <1>3, <1>4, <1>5, <1>6, <1>7, <1>8 DEF Iterate

--------------------------------------------------------------------------------
(* Compaction. *)

\* A job that is replaced by a typed one leaves the jobs typed.
LEMMA JobReplaced ==
  ASSUME JobOK, NEW w \in Worker, NEW j \in JobType, job' = [job EXCEPT ![w] = j]
  PROVE  JobOK'
  BY DEF JobOK, JobType

LEMMA JobOf == JobOK => \A w \in Worker : job[w] \in JobType
  BY DEF JobOK, JobType

LEMMA BegunTypes ==
  ASSUME JobOK, NEW w \in Worker, NEW kind \in {"one", "learn", "big"}, NEW step \in {"list", "read"},
         NEW current \in Session \cup {NoSession}, NEW todo \in SUBSET Session,
         Begin(w, kind, step, current, todo)
  PROVE  JobOK'
<1> DEFINE j == [NoJob EXCEPT !.kind = kind, !.step = step, !.current = current, !.todo = todo]
<1>1. j \in JobType
  BY Nothing DEF JobType
<1>2. job' = [job EXCEPT ![w] = j]
  BY DEF Begin
<1> QED
  BY <1>1, <1>2, JobReplaced

LEMMA AdvanceTypes ==
  ASSUME JobOK, NEW w \in Worker, NEW step \in {"dataset", "receipt", "delete", "meta"}, Advance(w, step)
  PROVE  JobOK'
<1>1. [job[w] EXCEPT !.step = step] \in JobType
  BY JobOf DEF JobType
<1>2. job' = [job EXCEPT ![w] = [job[w] EXCEPT !.step = step]]
  BY DEF Advance
<1> QED
  BY <1>1, <1>2, JobReplaced

LEMMA GiveUpTypes ==
  ASSUME JobOK, NEW w \in Worker, GiveUp(w)
  PROVE  JobOK'
<1> DEFINE j == [job[w] EXCEPT !.step = "read", !.session = NoSession, !.frames = <<>>]
<1>1. <<>> \in Seq(Frame)
  OBVIOUS
<1>2. j \in JobType
  BY <1>1, JobOf DEF JobType
<1>3. job' = [job EXCEPT ![w] = j]
  BY DEF GiveUp
<1> QED
  BY <1>2, <1>3, JobReplaced

\* What a worker reads is a sequence of frames, and empty only if there is nothing.
LEMMA ReadTypes ==
  ASSUME DiskOK, NEW w \in Worker, NEW s \in Session
  PROVE  /\ FramesRead(w, s) \in Seq(Frame)
         /\ file[s] # <<>> => FramesRead(w, s) # <<>>
<1> DEFINE oldest == IF job[w].kind = "big" /\ Len(file[s]) > QueryLimit
                       THEN Len(file[s]) - QueryLimit + 1 ELSE 1
<1>1. file[s] \in Seq(Frame) /\ Len(file[s]) \in Nat
  BY DEF DiskOK
<1>2. oldest \in Nat /\ oldest >= 1
  BY <1>1
<1>3. FramesRead(w, s) = SubSeq(file[s], oldest, Len(file[s]))
  BY DEF FramesRead
<1>4. file[s] # <<>> => Len(file[s]) >= 1 /\ oldest <= Len(file[s])
  BY <1>1
<1> HIDE DEF oldest
<1>5. SubSeq(file[s], oldest, Len(file[s])) \in Seq(Frame)
  BY <1>1, <1>2
<1>6. file[s] # <<>> => SubSeq(file[s], oldest, Len(file[s])) # <<>>
  <2> SUFFICES ASSUME file[s] # <<>> PROVE SubSeq(file[s], oldest, Len(file[s])) # <<>>
    OBVIOUS
  <2>1. Len(SubSeq(file[s], oldest, Len(file[s]))) = Len(file[s]) - oldest + 1
    BY <1>1, <1>2, <1>4
  <2>2. Len(file[s]) - oldest + 1 # 0
    BY <1>1, <1>2, <1>4
  <2> QED
    BY <2>1, <2>2
<1> QED
  BY <1>3, <1>5, <1>6

\* A job has a session, and frames of it, exactly between the reading and the end.
Busy ==
  \A w \in Worker :
    IF job[w].step \in {"idle", "list", "read"}
    THEN job[w].session = NoSession
    ELSE job[w].session \in Session /\ job[w].frames # <<>>

LEMMA CompactionTypes == TypeOK /\ Busy /\ Compaction => TypeOK'
<1> SUFFICES ASSUME TypeOK, Busy, Compaction PROVE TypeOK'
  OBVIOUS
<1>0. JobOK /\ session \in Session /\ Http \subseteq Worker /\ Batch \subseteq Worker /\ Loop \in Worker
  BY DEF TypeOK, RuntimeOK, Worker, Server
\* A step that changes nothing but jobs, or also files.
<1>1. ASSUME UNCHANGED <<runtime, loop, disk>>, JobOK', contended' \subseteq Session, UNCHANGED appended
      PROVE  TypeOK'
  BY <1>1 DEF TypeOK, RuntimeOK, LoopOK, DiskOK, HistoryOK, runtime, epochs, loop, disk
<1>2. ASSUME UNCHANGED <<runtime, loop, history>>, JobOK', DiskOK'
      PROVE  TypeOK'
  BY <1>2 DEF TypeOK, RuntimeOK, LoopOK, HistoryOK, runtime, epochs, loop, history
<1>3. ASSUME NEW w \in Worker, NEW kind \in {"one", "learn", "big"}, NEW step \in {"list", "read"},
             NEW current \in Session \cup {NoSession}, NEW todo \in SUBSET Session,
             Begin(w, kind, step, current, todo)
      PROVE  TypeOK'
  <2>1. JobOK'
    BY <1>0, <1>3, BegunTypes
  <2> QED
    BY <1>1, <1>3, <2>1 DEF Begin, history, TypeOK, HistoryOK
<1>4. ASSUME NEW w \in Http, LearnRequest(w) \/ AgentCompact(w) PROVE TypeOK'
  <2>1. Begin(w, "learn", "list", session, {}) \/ Begin(w, "big", "list", session, {})
    BY <1>4 DEF LearnRequest, AgentCompact
  <2> QED
    BY <1>0, <1>3, <2>1
<1>5. ASSUME NEW w \in Http, NEW s \in Session, CompactRequest(w, s) PROVE TypeOK'
  <2>1. Begin(w, "one", "read", NoSession, {s})
    BY <1>5 DEF CompactRequest
  <2> QED
    BY <1>0, <1>3, <2>1
<1>6. CASE AutoCompact
  <2>1. Begin(Loop, "big", "list", session, {})
    BY <1>6 DEF AutoCompact
  <2> QED
    BY <1>0, <1>3, <2>1
<1>7. ASSUME NEW w \in Batch, LearnBatch(w) PROVE TypeOK'
  <2>1. Begin(w, "learn", "list", NoSession, {})
    BY <1>7 DEF LearnBatch
  <2> QED
    BY <1>0, <1>3, <2>1
<1>8. ASSUME NEW w \in Batch, BatchCrash(w) PROVE TypeOK'
  <2>1. job' = [v \in Worker |-> IF v \in {w} THEN NoJob ELSE job[v]]
    BY <1>8 DEF BatchCrash, End
  <2>2. JobOK'
    BY <1>0, <2>1, JobOf, Nothing DEF JobOK, JobType
  <2>3. DiskOK'
    BY <1>8 DEF BatchCrash, End, TypeOK, DiskOK
  <2> QED
    BY <1>2, <1>8, <2>2, <2>3 DEF BatchCrash
<1>9. ASSUME NEW w \in Worker, List(w) PROVE TypeOK'
  <2>1. PICK todo \in SUBSET Listed(w) :
          job' = [job EXCEPT ![w] = [job[w] EXCEPT !.step = "read", !.current = NoSession, !.todo = todo]]
    BY <1>9 DEF List
  <2>2. todo \in SUBSET Session
    BY DEF Listed
  <2>3. [job[w] EXCEPT !.step = "read", !.current = NoSession, !.todo = todo] \in JobType
    BY <1>0, <2>2, JobOf DEF JobType
  <2>4. JobOK'
    BY <1>0, <2>1, <2>3, JobReplaced
  <2> QED
    BY <1>1, <1>9, <2>4 DEF List, history, TypeOK, HistoryOK
<1>10. ASSUME NEW w \in Worker, ReadFrames(w) PROVE TypeOK'
  <2>0. PICK s \in job[w].todo :
          IF Readable(s)
            THEN /\ job' = [job EXCEPT ![w] = [@ EXCEPT !.step = "checksum", !.todo = job[w].todo \ {s},
                                                 !.session = s, !.frames = FramesRead(w, s)]]
                 /\ contended' = contended \cup {t \in {s} : \E v \in Worker \ {w} : job[v].session = s}
            ELSE /\ job' = [job EXCEPT ![w] = [@ EXCEPT !.todo = job[w].todo \ {s}]]
                 /\ UNCHANGED contended
    BY <1>10 DEF ReadFrames
  <2>1. \/ /\ job' = [job EXCEPT ![w] = [job[w] EXCEPT !.step = "checksum", !.todo = job[w].todo \ {s},
                                                          !.session = s, !.frames = FramesRead(w, s)]]
             /\ contended' = contended \cup {t \in {s} : \E v \in Worker \ {w} : job[v].session = s}
          \/ /\ job' = [job EXCEPT ![w] = [job[w] EXCEPT !.todo = job[w].todo \ {s}]]
             /\ UNCHANGED contended
    BY <2>0
  <2>2. s \in Session /\ job[w].todo \ {s} \in SUBSET Session
    BY <1>0, JobOf DEF JobType
  <2>3. FramesRead(w, s) \in Seq(Frame)
    BY <2>2, ReadTypes DEF TypeOK
  <2>4. [job[w] EXCEPT !.step = "checksum", !.todo = job[w].todo \ {s},
                       !.session = s, !.frames = FramesRead(w, s)] \in JobType
    BY <1>0, <2>2, <2>3, JobOf DEF JobType
  <2>5. [job[w] EXCEPT !.todo = job[w].todo \ {s}] \in JobType
    BY <1>0, <2>2, JobOf DEF JobType
  <2>6. JobOK'
    BY <1>0, <2>1, <2>4, <2>5, JobReplaced
  <2>7. contended' \subseteq Session
    BY <2>1, <2>2 DEF TypeOK, HistoryOK
  <2> QED
    BY <1>1, <1>10, <2>6, <2>7 DEF ReadFrames
<1>11. ASSUME NEW w \in Worker, EndJob(w) PROVE TypeOK'
  <2>1. JobOK'
    BY <1>0, <1>11, Nothing, JobReplaced DEF EndJob
  <2> QED
    BY <1>1, <1>11, <2>1 DEF EndJob, history, TypeOK, HistoryOK
<1>12. ASSUME NEW w \in Worker, Checksum(w) PROVE TypeOK'
  <2>1. JobOK'
    BY <1>0, <1>12, AdvanceTypes, GiveUpTypes DEF Checksum
  <2> QED
    BY <1>1, <1>12, <2>1 DEF Checksum, history, TypeOK, HistoryOK
<1>13. ASSUME NEW w \in Worker, WriteDataset(w) PROVE TypeOK'
  <2>1. JobOK'
    BY <1>0, <1>13, AdvanceTypes, GiveUpTypes DEF WriteDataset
  <2>2. dataset \in [Session -> Seq(Frame)] /\ job[w].frames \in Seq(Frame) /\ <<>> \in Seq(Frame)
    BY <1>0, JobOf DEF JobType, TypeOK, DiskOK
  <2>3. dataset' \in [Session -> Seq(Frame)]
    <3>1. \/ dataset' = [dataset EXCEPT ![job[w].session] = job[w].frames]
          \/ dataset' = [dataset EXCEPT ![job[w].session] = dataset[job[w].session]]
          \/ dataset' = [dataset EXCEPT ![job[w].session] = <<>>]
      BY <1>13 DEF WriteDataset
    <3> QED
      BY <2>2, <3>1
  <2>4. DiskOK'
    BY <1>13, <2>3 DEF WriteDataset, TypeOK, DiskOK
  <2> QED
    BY <1>2, <1>13, <2>1, <2>4 DEF WriteDataset
<1>14. ASSUME NEW w \in Worker, WriteReceipt(w) PROVE TypeOK'
  <2>1. JobOK'
    BY <1>0, <1>14, AdvanceTypes, GiveUpTypes DEF WriteReceipt
  <2>2. job[w].session \in Session
    BY <1>0, <1>14 DEF WriteReceipt, Busy
  <2>3. DiskOK'
    BY <1>14, <2>2 DEF WriteReceipt, TypeOK, DiskOK
  <2> QED
    BY <1>2, <1>14, <2>1, <2>3 DEF WriteReceipt
<1>15. ASSUME NEW w \in Worker, DeleteRaw(w) PROVE TypeOK'
  <2>1. JobOK'
    BY <1>0, <1>15, AdvanceTypes, GiveUpTypes DEF DeleteRaw
  <2>2. <<>> \in Seq(Frame)
    OBVIOUS
  <2>3. DiskOK'
    BY <1>15, <2>2 DEF DeleteRaw, TypeOK, DiskOK
  <2> QED
    BY <1>2, <1>15, <2>1, <2>3 DEF DeleteRaw
<1>16. ASSUME NEW w \in Worker, DeleteMeta(w) PROVE TypeOK'
  <2>1. JobOK'
    BY <1>0, <1>16, GiveUpTypes DEF DeleteMeta
  <2>2. DiskOK'
    BY <1>16 DEF DeleteMeta, TypeOK, DiskOK
  <2> QED
    BY <1>2, <1>16, <2>1, <2>2 DEF DeleteMeta
<1> QED
  BY <1>4, <1>5, <1>6, <1>7, <1>8, <1>9, <1>10, <1>11, <1>12, <1>13, <1>14, <1>15, <1>16 DEF Compaction

LEMMA CrashTypes == TypeOK /\ Crash => TypeOK'
<1> SUFFICES ASSUME TypeOK, Crash PROVE TypeOK'
  OBVIOUS
<1>1. RuntimeOK'
  <2>1. 1 \in 1 .. MaxEpoch
    OBVIOUS
  <2>2. /\ session' \in Session /\ later' = FALSE /\ epoch' = 1 /\ epoch_changed' = FALSE
        /\ target_changed' = FALSE /\ recording' = TRUE /\ session_samples' = 0
    BY DEF Crash
  <2>3. session_samples' \in Nat
    BY <2>2
  <2> QED
    BY <2>1, <2>2, <2>3 DEF RuntimeOK
<1>2. LoopOK'
  <2>1. seen' \in SeenType /\ pending' \in PendingType
    BY Nothing DEF Crash
  <2> QED
    BY <2>1 DEF Crash, LoopOK, SeenType, PendingType
<1>3. JobOK'
  <2>1. job' = [v \in Worker |-> IF v \in Server THEN NoJob ELSE job[v]]
    BY DEF Crash, End
  <2> QED
    BY <2>1, JobOf, Nothing DEF JobOK, JobType, TypeOK
<1>4. DiskOK'
  <2>1. <<>> \in Seq(Frame)
    OBVIOUS
  <2> QED
    BY <2>1 DEF Crash, End, TypeOK, DiskOK
<1>5. HistoryOK'
  BY DEF Crash, history, TypeOK, HistoryOK
<1> QED
  BY <1>1, <1>2, <1>3, <1>4, <1>5 DEF TypeOK

--------------------------------------------------------------------------------
(* What a job holds. *)

\* A job replaced by one that holds a session or not, as its step demands.
LEMMA BusyReplaced ==
  ASSUME TypeOK, Busy, NEW w \in Worker, NEW j, job' = [job EXCEPT ![w] = j],
         IF j.step \in {"idle", "list", "read"} THEN j.session = NoSession
         ELSE j.session \in Session /\ j.frames # <<>>
  PROVE  Busy'
  BY DEF Busy, TypeOK, JobOK

LEMMA BusyAdvances ==
  ASSUME TypeOK, Busy, NEW w \in Worker, NEW step \in {"dataset", "receipt", "delete", "meta"},
         job[w].step \notin {"idle", "list", "read"}, Advance(w, step)
  PROVE  Busy'
<1> DEFINE j == [job[w] EXCEPT !.step = step]
<1>1. job[w] \in JobType /\ job[w].session \in Session /\ job[w].frames # <<>>
  BY JobOf DEF TypeOK, Busy
<1>2. j.step = step /\ j.session = job[w].session /\ j.frames = job[w].frames
  BY <1>1 DEF JobType
<1>3. job' = [job EXCEPT ![w] = j]
  BY DEF Advance
<1> HIDE DEF j
<1> QED
  BY <1>1, <1>2, <1>3, BusyReplaced

LEMMA BusyEnds ==
  ASSUME TypeOK, Busy, NEW w \in Worker, GiveUp(w)
  PROVE  Busy'
<1> DEFINE j == [job[w] EXCEPT !.step = "read", !.session = NoSession, !.frames = <<>>]
<1>1. job[w] \in JobType
  BY JobOf DEF TypeOK
<1>2. j.step = "read" /\ j.session = NoSession
  BY <1>1 DEF JobType
<1>3. job' = [job EXCEPT ![w] = j]
  BY DEF GiveUp
<1> HIDE DEF j
<1> QED
  BY <1>2, <1>3, BusyReplaced

LEMMA BusyBegins ==
  ASSUME TypeOK, Busy, NEW w \in Worker, NEW kind, NEW step \in {"list", "read"}, NEW current, NEW todo,
         Begin(w, kind, step, current, todo)
  PROVE  Busy'
<1> DEFINE j == [NoJob EXCEPT !.kind = kind, !.step = step, !.current = current, !.todo = todo]
<1>1. j.step = step /\ j.session = NoSession
  BY DEF NoJob
<1>2. job' = [job EXCEPT ![w] = j]
  BY DEF Begin
<1> HIDE DEF j
<1> QED
  BY <1>1, <1>2, BusyReplaced

LEMMA BusyStep == TypeOK /\ Busy /\ [Next]_vars => Busy'
<1> SUFFICES ASSUME TypeOK, Busy, [Next]_vars PROVE Busy'
  OBVIOUS
<1>0. JobOK /\ Http \subseteq Worker /\ Batch \subseteq Worker /\ Loop \in Worker
  BY DEF TypeOK, Worker, Server
<1>1. CASE UNCHANGED job
  BY <1>1 DEF Busy
<1>2. CASE Request \/ Iterate \/ UNCHANGED vars
  <2>1. UNCHANGED job
    BY <1>2 DEF Request, OpenEpoch, AgentDisconnect, SetRecording, Iterate, Open, Snapshot, Reopen,
                AppendFrame, WriteBack, Sleep, vars
  <2> QED
    BY <1>1, <2>1
<1>3. CASE Crash \/ \E w \in Batch : BatchCrash(w)
  <2>1. PICK workers : job' = [v \in Worker |-> IF v \in workers THEN NoJob ELSE job[v]]
    BY <1>3 DEF Crash, BatchCrash, End
  <2>2. NoJob.step = "idle" /\ NoJob.session = NoSession
    BY DEF NoJob
  <2> QED
    BY <2>1, <2>2 DEF Busy
<1>4. ASSUME NEW w \in Http, LearnRequest(w) \/ AgentCompact(w) PROVE Busy'
  BY <1>0, <1>4, BusyBegins DEF LearnRequest, AgentCompact
<1>5. ASSUME NEW w \in Http, NEW s \in Session, CompactRequest(w, s) PROVE Busy'
  BY <1>0, <1>5, BusyBegins DEF CompactRequest
<1>6. CASE AutoCompact
  BY <1>0, <1>6, BusyBegins DEF AutoCompact
<1>7. ASSUME NEW w \in Batch, LearnBatch(w) PROVE Busy'
  BY <1>0, <1>7, BusyBegins DEF LearnBatch
<1>8. ASSUME NEW w \in Worker, List(w) PROVE Busy'
  <2>1. PICK todo :
          job' = [job EXCEPT ![w] = [job[w] EXCEPT !.step = "read", !.current = NoSession, !.todo = todo]]
    BY <1>8 DEF List
  <2> DEFINE j == [job[w] EXCEPT !.step = "read", !.current = NoSession, !.todo = todo]
  <2>2. job[w] \in JobType /\ job[w].session = NoSession
    BY <1>0, <1>8, JobOf DEF List, Busy
  <2>3. j.step = "read" /\ j.session = NoSession
    BY <2>2 DEF JobType
  <2> HIDE DEF j
  <2> QED
    BY <2>1, <2>3, BusyReplaced DEF j
<1>9. ASSUME NEW w \in Worker, ReadFrames(w) PROVE Busy'
  <2>1. PICK s \in job[w].todo :
          IF Readable(s)
            THEN job' = [job EXCEPT ![w] = [@ EXCEPT !.step = "checksum", !.todo = job[w].todo \ {s},
                                                     !.session = s, !.frames = FramesRead(w, s)]]
            ELSE job' = [job EXCEPT ![w] = [@ EXCEPT !.todo = job[w].todo \ {s}]]
    BY <1>9 DEF ReadFrames
  <2>2. job[w] \in JobType /\ job[w].session = NoSession /\ job[w].step = "read" /\ s \in Session
    BY <1>0, <1>9, JobOf DEF ReadFrames, Busy, JobType
  <2>3. CASE Readable(s)
    <3> DEFINE j == [job[w] EXCEPT !.step = "checksum", !.todo = job[w].todo \ {s},
                                   !.session = s, !.frames = FramesRead(w, s)]
    <3>1. job' = [job EXCEPT ![w] = j]
      BY <2>1, <2>3
    <3>2. j.step = "checksum" /\ j.session = s /\ j.frames = FramesRead(w, s)
      BY <2>2 DEF JobType
    <3>3. FramesRead(w, s) # <<>>
      BY <2>2, <2>3, ReadTypes DEF Readable, TypeOK
    <3> HIDE DEF j
    <3> QED
      BY <2>2, <3>1, <3>2, <3>3, BusyReplaced
  <2>4. CASE ~Readable(s)
    <3> DEFINE j == [job[w] EXCEPT !.todo = job[w].todo \ {s}]
    <3>1. job' = [job EXCEPT ![w] = j]
      BY <2>1, <2>4
    <3>2. j.step = "read" /\ j.session = NoSession
      BY <2>2 DEF JobType
    <3> HIDE DEF j
    <3> QED
      BY <3>1, <3>2, BusyReplaced
  <2> QED
    BY <2>3, <2>4
<1>10. ASSUME NEW w \in Worker, EndJob(w) PROVE Busy'
  <2>1. NoJob.step = "idle" /\ NoJob.session = NoSession
    BY DEF NoJob
  <2> QED
    BY <1>10, <2>1, BusyReplaced DEF EndJob
<1>11. ASSUME NEW w \in Worker,
              Checksum(w) \/ WriteDataset(w) \/ WriteReceipt(w) \/ DeleteRaw(w) \/ DeleteMeta(w)
       PROVE  Busy'
  <2>1. job[w].step \notin {"idle", "list", "read"}
    BY <1>11 DEF Checksum, WriteDataset, WriteReceipt, DeleteRaw, DeleteMeta
  <2>2. GiveUp(w) \/ \E step \in {"dataset", "receipt", "delete", "meta"} : Advance(w, step)
    BY <1>11 DEF Checksum, WriteDataset, WriteReceipt, DeleteRaw, DeleteMeta
  <2> QED
    BY <2>1, <2>2, BusyAdvances, BusyEnds
<1> QED
  BY <1>2, <1>3, <1>4, <1>5, <1>6, <1>7, <1>8, <1>9, <1>10, <1>11 DEF Next, Compaction

LEMMA StepTypes == TypeOK /\ Busy /\ [Next]_vars => TypeOK'
<1> SUFFICES ASSUME TypeOK, Busy, [Next]_vars PROVE TypeOK'
  OBVIOUS
<1>1. CASE UNCHANGED vars
  BY <1>1 DEF vars, runtime, epochs, loop, disk, history, TypeOK, RuntimeOK, LoopOK, JobOK, DiskOK, HistoryOK
<1> QED
  BY <1>1, RequestTypes, IterateTypes, CompactionTypes, CrashTypes DEF Next

LEMMA Sound == Spec => [](TypeOK /\ Busy)
<1>1. Init => TypeOK /\ Busy
  <2>1. NoJob.step = "idle" /\ NoJob.session = NoSession
    BY DEF NoJob
  <2> QED
    BY <2>1, InitialTypes DEF Init, Busy
<1>2. TypeOK /\ Busy /\ [Next]_vars => (TypeOK /\ Busy)'
  BY StepTypes, BusyStep
<1> QED
  BY <1>1, <1>2, PTL DEF Spec

\* Type correctness: what requests, loop, compactions, failures and crashes leave in
\* state and files has its type, for every number of sessions and threads.
THEOREM TypeCorrect == Spec => []TypeOK
  BY Sound, PTL
================================================================================
