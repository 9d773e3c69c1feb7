---------------------------- MODULE RecordingSafety ----------------------------
(***************************************************************************)
(* What recording and compaction keep to, for every number of sessions,    *)
(* epochs, frames and workers, whatever fails and crashes.                 *)
(***************************************************************************)
EXTENDS RecordingProofs, FiniteSetTheorems

--------------------------------------------------------------------------------
(* What a step of a worker does to the jobs, field by field. *)

OthersKeep(w) == \A v \in Worker \ {w} : job'[v] = job[v]

LEMMA Advanced ==
  ASSUME TypeOK, NEW w \in Worker, NEW step, Advance(w, step)
  PROVE  /\ OthersKeep(w)
         /\ job'[w].step = step /\ job'[w].session = job[w].session
         /\ job'[w].kind = job[w].kind /\ job'[w].todo = job[w].todo
         /\ job'[w].frames = job[w].frames
<1>1. job[w] \in JobType /\ job' = [job EXCEPT ![w] = [job[w] EXCEPT !.step = step]]
  BY JobOf DEF Advance, TypeOK
<1>2. job'[w] = [job[w] EXCEPT !.step = step] /\ OthersKeep(w)
  BY <1>1 DEF TypeOK, JobOK, OthersKeep
<1> QED
  BY <1>1, <1>2 DEF JobType

LEMMA GivenUp ==
  ASSUME TypeOK, NEW w \in Worker, GiveUp(w)
  PROVE  /\ OthersKeep(w)
         /\ job'[w].step = "read" /\ job'[w].session = NoSession
         /\ job'[w].kind = job[w].kind /\ job'[w].todo = job[w].todo
<1> DEFINE j == [job[w] EXCEPT !.step = "read", !.session = NoSession, !.frames = <<>>]
<1>1. job[w] \in JobType /\ job' = [job EXCEPT ![w] = j]
  BY JobOf DEF GiveUp, TypeOK
<1>2. j.step = "read" /\ j.session = NoSession /\ j.kind = job[w].kind /\ j.todo = job[w].todo
  BY <1>1 DEF JobType
<1> HIDE DEF j
<1> QED
  BY <1>1, <1>2 DEF TypeOK, JobOK, OthersKeep

LEMMA Begun ==
  ASSUME TypeOK, NEW w \in Worker, NEW kind, NEW step, NEW current, NEW todo,
         Begin(w, kind, step, current, todo)
  PROVE  /\ OthersKeep(w) /\ job[w] = NoJob
         /\ job'[w].step = step /\ job'[w].session = NoSession
         /\ job'[w].kind = kind /\ job'[w].todo = todo /\ job'[w].current = current
<1> DEFINE j == [NoJob EXCEPT !.kind = kind, !.step = step, !.current = current, !.todo = todo]
<1>1. job[w] = NoJob /\ job' = [job EXCEPT ![w] = j]
  BY DEF Begin
<1>2. /\ j.step = step /\ j.session = NoSession /\ j.kind = kind /\ j.todo = todo
      /\ j.current = current
  BY DEF NoJob
<1> HIDE DEF j
<1> QED
  BY <1>1, <1>2 DEF TypeOK, JobOK, OthersKeep

LEMMA ListedJob ==
  ASSUME TypeOK, NEW w \in Worker, List(w)
  PROVE  /\ OthersKeep(w)
         /\ job'[w].step = "read" /\ job'[w].session = job[w].session
         /\ job'[w].kind = job[w].kind /\ job'[w].todo \subseteq Listed(w)
<1>1. PICK todo \in SUBSET Listed(w) :
        job' = [job EXCEPT ![w] = [job[w] EXCEPT !.step = "read", !.current = NoSession, !.todo = todo]]
  BY DEF List
<1> DEFINE j == [job[w] EXCEPT !.step = "read", !.current = NoSession, !.todo = todo]
<1>2. job[w] \in JobType
  BY JobOf DEF TypeOK
<1>3. j.step = "read" /\ j.session = job[w].session /\ j.kind = job[w].kind /\ j.todo = todo
  BY <1>2 DEF JobType
<1>4. job' = [job EXCEPT ![w] = j]
  BY <1>1
<1> HIDE DEF j
<1> QED
  BY <1>1, <1>3, <1>4 DEF TypeOK, JobOK, OthersKeep

LEMMA ReadJob ==
  ASSUME TypeOK, Busy, NEW w \in Worker, ReadFrames(w)
  PROVE  /\ OthersKeep(w)
         /\ job'[w].kind = job[w].kind /\ job'[w].todo \subseteq job[w].todo
         /\ \/ /\ job'[w].step = "read" /\ job'[w].session = NoSession
               /\ UNCHANGED contended
            \/ /\ job'[w].step = "checksum" /\ job'[w].session \in job[w].todo \cap raw
               /\ contended' = contended \cup
                    {t \in {job'[w].session} : \E v \in Worker \ {w} : job[v].session = job'[w].session}
<1>1. PICK s \in job[w].todo :
        IF Readable(s)
          THEN /\ job' = [job EXCEPT ![w] = [@ EXCEPT !.step = "checksum", !.todo = job[w].todo \ {s},
                                               !.session = s, !.frames = FramesRead(w, s)]]
               /\ contended' = contended \cup {t \in {s} : \E v \in Worker \ {w} : job[v].session = s}
          ELSE /\ job' = [job EXCEPT ![w] = [@ EXCEPT !.todo = job[w].todo \ {s}]]
               /\ UNCHANGED contended
  BY DEF ReadFrames
<1>2. job[w] \in JobType /\ job[w].step = "read" /\ job[w].session = NoSession
  BY JobOf DEF TypeOK, ReadFrames, Busy
<1>3. CASE Readable(s)
  <2> DEFINE j == [job[w] EXCEPT !.step = "checksum", !.todo = job[w].todo \ {s},
                                 !.session = s, !.frames = FramesRead(w, s)]
  <2>1. job' = [job EXCEPT ![w] = j]
    BY <1>1, <1>3
  <2>2. j.step = "checksum" /\ j.session = s /\ j.kind = job[w].kind /\ j.todo = job[w].todo \ {s}
    BY <1>2 DEF JobType
  <2> HIDE DEF j
  <2>3. job'[w] = j /\ OthersKeep(w)
    BY <2>1 DEF TypeOK, JobOK, OthersKeep
  <2> QED
    BY <1>1, <1>3, <2>2, <2>3 DEF Readable
<1>4. CASE ~Readable(s)
  <2> DEFINE j == [job[w] EXCEPT !.todo = job[w].todo \ {s}]
  <2>1. job' = [job EXCEPT ![w] = j]
    BY <1>1, <1>4
  <2>2. /\ j.step = "read" /\ j.session = NoSession /\ j.kind = job[w].kind
        /\ j.todo = job[w].todo \ {s}
    BY <1>2 DEF JobType
  <2> HIDE DEF j
  <2>3. job'[w] = j /\ OthersKeep(w)
    BY <2>1 DEF TypeOK, JobOK, OthersKeep
  <2> QED
    BY <1>1, <1>4, <2>2, <2>3
<1> QED
  BY <1>3, <1>4

LEMMA EndedJob ==
  ASSUME TypeOK, NEW w \in Worker, EndJob(w)
  PROVE  OthersKeep(w) /\ job'[w] = NoJob
  BY DEF EndJob, TypeOK, JobOK, OthersKeep

LEMMA Ended ==
  ASSUME TypeOK, NEW workers, End(workers)
  PROVE  \A w \in Worker : job'[w] = IF w \in workers THEN NoJob ELSE job[w]
  BY DEF End

--------------------------------------------------------------------------------
(* Frames reach the file of their session. *)

\* Unless an epoch was opened that the loop has not seen, its recorder, its snapshot
\* and its pending frame belong to the session that is current; and when it appends,
\* the pending frame is of the recorder's session, whatever it has seen.
Routed ==
  /\ pc = "append" /\ recorder # NoRecorder =>
       \A f \in pending.frames : f.session = recorder.session
  /\ ~epoch_changed /\ pc \notin {"open", "reopen"} /\ recorder # NoRecorder =>
       recorder.session = session
  /\ ~epoch_changed /\ pc \in {"append", "reopen"} => seen.session = session
  /\ ~epoch_changed /\ pc \in {"write", "hygiene", "snapshot"} =>
       \A f \in pending.frames : f.session = session
  /\ pc = "open" => pending.frames = {}

LEMMA Appends ==
  ASSUME NEW sequence_of \in Seq(Frame), NEW frame \in Frame
  PROVE  ToSet(Append(sequence_of, frame)) = ToSet(sequence_of) \cup {frame}
<1>1. DOMAIN Append(sequence_of, frame) = (DOMAIN sequence_of) \cup {Len(sequence_of) + 1}
  OBVIOUS
<1>2. \A i \in DOMAIN sequence_of : Append(sequence_of, frame)[i] = sequence_of[i]
  OBVIOUS
<1>3. Append(sequence_of, frame)[Len(sequence_of) + 1] = frame
  OBVIOUS
<1> QED
  BY <1>1, <1>2, <1>3 DEF ToSet

LEMMA OpenRoutes ==
  ASSUME NEW closed, OpenCurrentRecorder(closed)
  PROVE  recorder' # NoRecorder => recorder'.session = session
  BY DEF OpenCurrentRecorder

LEMMA WriteRoutes ==
  ASSUME TypeOK, Routed, pc = "append", NEW frame \in pending.frames, Write(frame), FramesInTheirFile
  PROVE  /\ FramesInTheirFile'
         /\ recorder # NoRecorder /\ recorder'.session = recorder.session
<1> DEFINE s == recorder.session
<1>1. recorder \in [session : Session, samples : Nat] /\ recorder # NoRecorder
  BY DEF Write, TypeOK, LoopOK
<1>2. frame \in Frame /\ appended \in [Session -> Seq(Frame)] /\ s \in Session
  BY <1>1 DEF TypeOK, LoopOK, HistoryOK
<1>3. appended' = [appended EXCEPT ![s] = Append(appended[s], frame)]
  BY DEF Write
<1>4. frame.session = s
  BY <1>1 DEF Routed
<1>5. recorder'.session = s
  BY <1>1 DEF Write
<1> HIDE DEF s
<1>6. ASSUME NEW t \in Session, NEW f \in ToSet(appended'[t]) PROVE f.session = t
  <2>1. CASE t = s
    <3>1. ToSet(appended'[t]) = ToSet(appended[t]) \cup {frame}
      BY <1>2, <1>3, <2>1, Appends
    <3> QED
      BY <1>4, <1>6, <2>1, <3>1 DEF FramesInTheirFile
  <2>2. CASE t # s
    BY <1>2, <1>3, <1>6, <2>2 DEF FramesInTheirFile
  <2> QED
    BY <2>1, <2>2
<1> QED
  BY <1>1, <1>5, <1>6 DEF FramesInTheirFile, s

LEMMA RoutedStep ==
  TypeOK /\ Routed /\ FramesInTheirFile /\ [Next]_vars => Routed' /\ FramesInTheirFile'
<1> SUFFICES ASSUME TypeOK, Routed, FramesInTheirFile, [Next]_vars PROVE Routed' /\ FramesInTheirFile'
  OBVIOUS
<1>0. ASSUME UNCHANGED <<appended>> PROVE FramesInTheirFile'
  BY <1>0 DEF FramesInTheirFile
<1>1. CASE UNCHANGED <<runtime, loop, appended>>
  BY <1>0, <1>1 DEF runtime, epochs, loop, Routed
<1>2. CASE OpenEpoch
  BY <1>0, <1>2 DEF OpenEpoch, BeginNewEpoch, loop, history, Routed
<1>3. CASE AgentDisconnect \/ \E enabled \in BOOLEAN : SetRecording(enabled)
  BY <1>0, <1>3 DEF AgentDisconnect, SetRecording, epochs, loop, history, Routed
<1>4. CASE Open
  BY <1>0, <1>4, OpenRoutes DEF Open, epochs, history, Routed
<1>5. CASE Snapshot
  <2>1. pending' = pending \/ pending'.frames = {}
    BY <1>5 DEF Snapshot, Forget, NoPending
  <2>2. seen'.session = session /\ recorder' = recorder /\ session' = session
    BY <1>5 DEF Snapshot
  <2>3. pc' = IF epoch_changed THEN "reopen" ELSE "append"
    BY <1>5 DEF Snapshot
  <2>4. pc = "snapshot" /\ UNCHANGED appended
    BY <1>5 DEF Snapshot, history
  <2> QED
    BY <1>0, <2>1, <2>2, <2>3, <2>4 DEF Routed
<1>6. CASE Reopen
  <2>1. pending'.frames = {} /\ pc = "reopen" /\ pc' = "append"
    BY <1>6 DEF Reopen, Forget, NoPending
  <2>2. recorder' # NoRecorder => recorder'.session = session
    BY <1>6, OpenRoutes DEF Reopen
  <2> QED
    BY <1>0, <1>6, <2>1, <2>2 DEF Reopen, epochs, history, Routed
<1>7. CASE AppendFrame
  <2>1. FramesInTheirFile' /\ (recorder' = recorder \/ (recorder # NoRecorder /\ recorder'.session = recorder.session))
    <3>1. ASSUME NEW frame \in pending.frames, Write(frame)
          PROVE  FramesInTheirFile' /\ recorder # NoRecorder /\ recorder'.session = recorder.session
      BY <1>7, <3>1, WriteRoutes DEF AppendFrame
    <3>2. CASE FailToWrite \/ UNCHANGED <<recorder, appended>>
      BY <1>0, <3>2 DEF FailToWrite
    <3> QED
      BY <1>7, <3>1, <3>2 DEF AppendFrame, AppendPending
  <2>2. \A f \in pending'.frames : f.session = seen.session
    BY <1>7 DEF AppendFrame, NewPending
  <2>3. pc = "append" /\ pc' = "write" /\ UNCHANGED <<session, epoch_changed>>
    BY <1>7 DEF AppendFrame, runtime, epochs
  <2> QED
    BY <2>1, <2>2, <2>3 DEF Routed
<1>8. CASE WriteBack \/ Sleep
  BY <1>0, <1>8 DEF WriteBack, Sleep, epochs, history, Routed
<1>9. CASE Compaction
  <2>1. UNCHANGED <<runtime, loop, appended>>
    BY <1>9 DEF Compaction, LearnRequest, AgentCompact, CompactRequest, AutoCompact, LearnBatch, Begin,
                BatchCrash, List, ReadFrames, EndJob, Checksum, WriteDataset, WriteReceipt, DeleteRaw,
                DeleteMeta, history
  <2> QED
    BY <1>1, <2>1
<1>10. CASE Crash
  BY <1>0, <1>10 DEF Crash, NoPending, history, Routed
<1>11. CASE UNCHANGED vars
  BY <1>1, <1>11 DEF vars, history
<1> QED
  BY <1>2, <1>3, <1>4, <1>5, <1>6, <1>7, <1>8, <1>9, <1>10, <1>11 DEF Next, Request, Iterate

LEMMA RoutedInitially == Init => Routed /\ FramesInTheirFile
<1>1. ToSet(<<>>) = {}
  BY DEF ToSet
<1> QED
  BY <1>1 DEF Init, Routed, FramesInTheirFile, NoPending

\* A frame waits an iteration and is appended to the file of the session it was taken
\* in all the same, whatever epochs and targets change meanwhile (main.rs:222-291, 537-560).
THEOREM FramesAreRouted == Spec => []FramesInTheirFile
  BY RoutedInitially, RoutedStep, TypeCorrect, PTL DEF Spec

--------------------------------------------------------------------------------
(* The active session is not compacted on request, nor by the loop. *)

\* No file and no recorder is of a session that is still to come.
Known ==
  /\ \A s \in raw : s <= session
  /\ \A s \in Session : meta[s] # NoMeta => s <= session
  /\ recorder # NoRecorder => recorder.session <= session

\* What a worker that knows of the active session has in store is older; while the
\* loop compacts it does nothing else, so that no metadata appears after it looked.
Reserved(w) ==
  job[w].kind = "one" \/ w = Loop =>
    job[w].session < session /\ \A s \in job[w].todo : s < session
Looked ==
  job[Loop].step = "list" =>
    job[Loop].current <= session /\ \A s \in Session : meta[s] # NoMeta => s <= job[Loop].current
Older ==
  /\ \A w \in Worker : job[w].step = "list" => job[w].kind # "one"
  /\ job[Loop] # NoJob => pc = "hygiene"
  /\ Looked
  /\ \A w \in Server : Reserved(w)

MetaShrinks == \A s \in Session : meta'[s] # NoMeta => meta[s] # NoMeta

LEMMA Ordered == TypeOK => session \in Int /\ \A s \in Session : s \in Int
  BY DEF TypeOK, RuntimeOK, Session

LEMMA Shrinks ==
  ASSUME TypeOK, Known, raw' \subseteq raw, MetaShrinks, UNCHANGED recorder,
         session' \in Int, session <= session'
  PROVE  Known'
<1>1. session \in Int /\ \A s \in Session : s \in Int
  BY Ordered
<1>2. \A s \in raw' : s <= session'
  BY <1>1 DEF Known, TypeOK, DiskOK
<1>3. \A s \in Session : meta'[s] # NoMeta => s <= session'
  BY <1>1 DEF Known, MetaShrinks
<1>4. recorder' # NoRecorder => recorder'.session <= session'
  <2>1. recorder # NoRecorder => recorder.session \in Session
    BY DEF TypeOK, LoopOK
  <2> QED
    BY <1>1, <2>1 DEF Known
<1> QED
  BY <1>2, <1>3, <1>4 DEF Known

LEMMA OpenKnows ==
  ASSUME TypeOK, Known, UNCHANGED session, NEW closed \in [Session -> Nat \cup {NoMeta}],
         \A s \in Session : closed[s] # NoMeta => s <= session, OpenCurrentRecorder(closed)
  PROVE  Known'
<1>1. session \in Session /\ session <= session
  BY Ordered DEF TypeOK, RuntimeOK
<1>2. CASE /\ recorder' = [session |-> session, samples |-> 0]
           /\ raw' = raw \cup {session} /\ meta' = [closed EXCEPT ![session] = 0]
  BY <1>1, <1>2 DEF Known
<1>3. CASE recorder' = NoRecorder /\ raw' \in {raw, raw \cup {session}} /\ meta' = closed
  BY <1>1, <1>3 DEF Known
<1> QED
  BY <1>2, <1>3 DEF OpenCurrentRecorder

LEMMA FinalKnows ==
  ASSUME TypeOK, Known
  PROVE  \A s \in Session : Finalized[s] # NoMeta => s <= session
<1>1. meta \in [Session -> Nat \cup {NoMeta}]
  BY DEF TypeOK, DiskOK
<1>2. CASE recorder = NoRecorder
  BY <1>2 DEF Finalized, Known
<1>3. CASE recorder # NoRecorder
  <2>1. Finalized = [meta EXCEPT ![recorder.session] = recorder.samples]
    BY <1>3 DEF Finalized
  <2> QED
    BY <1>1, <1>3, <2>1 DEF Known
<1> QED
  BY <1>2, <1>3

\* What requests and crashes do to the session that is current.
LEMMA Newer ==
  ASSUME TypeOK, OpenEpoch \/ Crash
  PROVE  session' \in Int /\ session <= session'
<1>1. session \in Int
  BY Ordered
<1>2. session' = session \/ session' = session + 1
  BY DEF OpenEpoch, BeginNewEpoch, NewSession, Crash
<1> QED
  BY <1>1, <1>2

\* A step of a compaction leaves the loop alone and adds no file.
LEMMA CompactionShrinks ==
  ASSUME TypeOK, Busy, Compaction
  PROVE  UNCHANGED <<runtime, loop, appended>> /\ raw' \subseteq raw /\ MetaShrinks
<1>1. UNCHANGED <<runtime, loop, appended>>
  BY DEF Compaction, LearnRequest, AgentCompact, CompactRequest, AutoCompact, LearnBatch, Begin,
         BatchCrash, List, ReadFrames, EndJob, Checksum, WriteDataset, WriteReceipt, DeleteRaw,
         DeleteMeta, history
<1>2. ASSUME NEW w \in Worker, DeleteMeta(w) PROVE raw' \subseteq raw /\ MetaShrinks
  <2>1. job[w].session \in Session /\ meta \in [Session -> Nat \cup {NoMeta}]
    BY <1>2 DEF DeleteMeta, Busy, TypeOK, DiskOK
  <2>2. meta' = meta \/ meta' = [meta EXCEPT ![job[w].session] = NoMeta]
    BY <1>2 DEF DeleteMeta
  <2> QED
    BY <1>2, <2>1, <2>2 DEF DeleteMeta, MetaShrinks
<1>3. ASSUME UNCHANGED meta, raw' \subseteq raw PROVE raw' \subseteq raw /\ MetaShrinks
  BY <1>3 DEF MetaShrinks
<1>4. (raw' \subseteq raw /\ UNCHANGED meta) \/ \E w \in Worker : DeleteMeta(w)
  BY DEF Compaction, LearnRequest, AgentCompact, CompactRequest, AutoCompact, LearnBatch, Begin,
         BatchCrash, List, ReadFrames, EndJob, Checksum, WriteDataset, WriteReceipt, DeleteRaw, disk
<1> QED
  BY <1>1, <1>2, <1>3, <1>4

LEMMA KnownStep == TypeOK /\ Busy /\ Known /\ [Next]_vars => Known'
<1> SUFFICES ASSUME TypeOK, Busy, Known, [Next]_vars PROVE Known'
  OBVIOUS
<1>1. ASSUME UNCHANGED <<session, raw, meta, recorder>> PROVE Known'
  BY <1>1 DEF Known
<1>2. CASE OpenEpoch \/ Crash
  <2>1. raw' = raw /\ meta' = meta
    BY <1>2 DEF OpenEpoch, Crash, disk
  <2>2. CASE OpenEpoch
    BY <2>1, <2>2, Newer, Shrinks DEF OpenEpoch, loop, MetaShrinks
  <2>3. CASE Crash
    <3>1. session \in Int /\ session' \in Int /\ session <= session' /\ recorder' = NoRecorder
      BY <2>3, Newer, Ordered DEF Crash
    <3>2. \A s \in raw : s <= session'
      BY <3>1, Ordered DEF Known, TypeOK, DiskOK
    <3>3. \A s \in Session : meta[s] # NoMeta => s <= session'
      BY <3>1, Ordered DEF Known
    <3> QED
      BY <2>1, <3>1, <3>2, <3>3 DEF Known
  <2> QED
    BY <1>2, <2>2, <2>3
<1>3. CASE AgentDisconnect \/ \E enabled \in BOOLEAN : SetRecording(enabled)
  BY <1>1, <1>3 DEF AgentDisconnect, SetRecording, epochs, loop, disk
<1>4. CASE Open
  BY <1>4, OpenKnows DEF Open, epochs, Known, TypeOK, DiskOK
<1>5. CASE Reopen
  BY <1>5, OpenKnows, FinalTypes, FinalKnows DEF Reopen, epochs
<1>6. CASE AppendFrame
  <2>1. ASSUME NEW frame \in pending.frames, Write(frame) PROVE Known'
    <3>1. recorder # NoRecorder /\ recorder.session <= session /\ recorder'.session = recorder.session
      BY <2>1 DEF Write, Known, TypeOK, LoopOK
    <3>2. meta' = meta \/ meta' = [meta EXCEPT ![recorder.session] = recorder'.samples]
      BY <2>1 DEF Write
    <3>3. UNCHANGED <<session, raw>> /\ meta \in [Session -> Nat \cup {NoMeta}]
      BY <1>6 DEF AppendFrame, runtime, epochs, TypeOK, DiskOK
    <3> QED
      BY <3>1, <3>2, <3>3 DEF Known
  <2>2. CASE FailToWrite \/ UNCHANGED <<recorder, meta>>
    BY <1>1, <1>6, <2>2 DEF AppendFrame, FailToWrite, runtime, epochs
  <2> QED
    BY <1>6, <2>1, <2>2 DEF AppendFrame, AppendPending
<1>7. CASE Snapshot \/ WriteBack \/ Sleep
  BY <1>1, <1>7 DEF Snapshot, WriteBack, Sleep, epochs, disk
<1>8. CASE Compaction
  <2>1. session <= session
    BY Ordered
  <2> QED
    BY <1>8, <2>1, CompactionShrinks, Shrinks, Ordered DEF runtime, epochs, loop
<1>9. CASE UNCHANGED vars
  BY <1>1, <1>9 DEF vars, runtime, epochs, loop, disk
<1> QED
  BY <1>2, <1>3, <1>4, <1>5, <1>6, <1>7, <1>8, <1>9 DEF Next, Request, Iterate

\* Steps that leave every job as it is.
LEMMA OlderStays ==
  ASSUME TypeOK, Older, UNCHANGED job, session' \in Int, session <= session',
         job[Loop] = NoJob \/ (UNCHANGED pc /\ MetaShrinks)
  PROVE  Older'
<1>0. session \in Int /\ session' \in Int /\ \A s \in Session : s \in Int
  BY Ordered
<1>1. Loop \in Server /\ Loop \in Worker /\ Server \subseteq Worker
  BY DEF Server, Worker
<1>2. NoJob.step # "list"
  BY DEF NoJob
<1>3. ASSUME NEW w \in Server PROVE Reserved(w)'
  <2>1. job[w] \in JobType
    BY <1>1, JobOf DEF TypeOK
  <2>2. job[w].session \in Int /\ \A s \in job[w].todo : s \in Int
    BY <1>0, <2>1 DEF JobType, NoSession
  <2>3. Reserved(w)
    BY DEF Older
  <2> QED
    BY <1>0, <2>2, <2>3 DEF Reserved
<1>4. Looked'
  <2> SUFFICES ASSUME job[Loop].step = "list" PROVE Looked'
    BY DEF Looked
  <2>1. job[Loop].current <= session /\ \A s \in Session : meta[s] # NoMeta => s <= job[Loop].current
    BY DEF Older, Looked
  <2>2. job[Loop].current \in Int
    BY <1>0, <1>1, JobOf DEF TypeOK, JobType, NoSession
  <2>3. MetaShrinks
    BY <1>2
  <2> QED
    BY <1>0, <2>1, <2>2, <2>3 DEF Looked, MetaShrinks
<1> QED
  BY <1>3, <1>4 DEF Older

\* Steps of one worker.
LEMMA OlderMoves ==
  ASSUME TypeOK, Older, NEW w \in Worker, OthersKeep(w), UNCHANGED <<session, pc>>, MetaShrinks,
         job'[w].step = "list" => job'[w].kind # "one",
         w = Loop /\ job'[w] # NoJob => pc = "hygiene",
         w = Loop => Looked',
         w \in Server => Reserved(w)'
  PROVE  Older'
<1>1. Loop \in Server /\ Loop \in Worker /\ Server \subseteq Worker
  BY DEF Server, Worker
<1>2. \A v \in Worker : job'[v].step = "list" => job'[v].kind # "one"
  BY DEF Older, OthersKeep
<1>3. job'[Loop] # NoJob => pc' = "hygiene"
  BY <1>1 DEF Older, OthersKeep
<1>4. Looked'
  <2>1. CASE w # Loop
    <3>1. job'[Loop] = job[Loop]
      BY <1>1, <2>1 DEF OthersKeep
    <3> QED
      BY <3>1 DEF Older, Looked, MetaShrinks
  <2> QED
    BY <2>1
<1>5. ASSUME NEW v \in Server PROVE Reserved(v)'
  <2>1. CASE v # w
    <3>1. job'[v] = job[v]
      BY <1>1, <2>1 DEF OthersKeep
    <3> QED
      BY <3>1 DEF Older, Reserved
  <2> QED
    BY <2>1
<1> QED
  BY <1>2, <1>3, <1>4, <1>5 DEF Older

\* Steps that end jobs.
LEMMA OlderEnds ==
  ASSUME TypeOK, Older, NEW workers, End(workers), UNCHANGED meta,
         session' \in Int, session <= session', Server \subseteq workers \/ UNCHANGED <<session, pc>>
  PROVE  Older'
<1>1. Loop \in Server /\ Loop \in Worker /\ Server \subseteq Worker
  BY DEF Server, Worker
<1>2. \A v \in Worker : job'[v] = IF v \in workers THEN NoJob ELSE job[v]
  BY Ended
<1>3. /\ NoJob.step = "idle" /\ NoJob.kind = "none" /\ NoJob.session = -1 /\ NoJob.todo = {}
  BY DEF NoJob, NoSession
<1>4. session \in Int /\ -1 < session
  BY DEF TypeOK, RuntimeOK, Session
<1>5. -1 < session'
  BY <1>4
<1>6. \A v \in Worker : job'[v].step = "list" => job'[v].kind # "one"
  BY <1>2, <1>3 DEF Older
<1>7. job'[Loop] # NoJob => pc' = "hygiene"
  BY <1>1, <1>2 DEF Older
<1>8. Looked'
  BY <1>1, <1>2, <1>3 DEF Older, Looked
<1>9. ASSUME NEW v \in Server PROVE Reserved(v)'
  <2>1. CASE v \in workers
    BY <1>1, <1>2, <1>3, <1>5, <2>1 DEF Reserved
  <2>2. CASE v \notin workers
    <3>1. job'[v] = job[v] /\ session' = session
      BY <1>1, <1>2, <2>2
    <3> QED
      BY <3>1 DEF Older, Reserved
  <2> QED
    BY <2>1, <2>2
<1> QED
  BY <1>6, <1>7, <1>8, <1>9 DEF Older

LEMMA OlderCompacts == TypeOK /\ Busy /\ Known /\ Older /\ Compaction => Older'
<1> SUFFICES ASSUME TypeOK, Busy, Known, Older, Compaction PROVE Older'
  OBVIOUS
<1>0. /\ UNCHANGED <<session, pc>> /\ MetaShrinks /\ session \in Int
      /\ \A s \in Session : s \in Int
      /\ Http \subseteq Worker /\ Batch \subseteq Worker /\ Loop \in Worker /\ Loop \in Server
      /\ Loop \notin Http /\ Loop \notin Batch
  <2>1. UNCHANGED <<session, pc>> /\ MetaShrinks
    BY CompactionShrinks DEF runtime, epochs, loop
  <2>2. Loop \notin Http /\ Loop \notin Batch
    BY RecordingAssumption
  <2> QED
    BY <2>1, <2>2, Ordered DEF Worker, Server
<1>1. -1 < session /\ NoSession = -1
  BY DEF TypeOK, RuntimeOK, Session, NoSession
\* A job begins with nothing in store, but for the session a request names.
<1>2. ASSUME NEW w \in Worker, NEW kind, NEW current, Begin(w, kind, "list", current, {}),
             kind # "one", w = Loop => pc = "hygiene" /\ current = session
      PROVE  Older'
  <2>1. /\ OthersKeep(w) /\ job'[w].step = "list" /\ job'[w].session = NoSession
        /\ job'[w].kind = kind /\ job'[w].todo = {} /\ job'[w].current = current
    BY <1>2, Begun
  <2>2. w = Loop => Looked'
    BY <1>0, <1>2, <2>1 DEF Looked, Known, MetaShrinks
  <2>3. Reserved(w)'
    BY <1>0, <1>1, <2>1 DEF Reserved
  <2> QED
    BY <1>0, <1>2, <2>1, <2>2, <2>3, OlderMoves
<1>3. ASSUME NEW w \in Http, NEW s \in Session, CompactRequest(w, s) PROVE Older'
  <2>1. s \in raw /\ s # session /\ Begin(w, "one", "read", NoSession, {s})
    BY <1>3 DEF CompactRequest
  <2>2. s < session
    BY <1>0, <2>1 DEF Known
  <2>3. /\ OthersKeep(w) /\ job'[w].step = "read" /\ job'[w].session = NoSession
        /\ job'[w].todo = {s}
    BY <1>0, <2>1, Begun
  <2>4. Reserved(w)'
    BY <1>0, <1>1, <2>2, <2>3 DEF Reserved
  <2>5. w # Loop
    BY <1>0
  <2> QED
    BY <1>0, <2>3, <2>4, <2>5, OlderMoves
<1>4. ASSUME NEW w \in Http, LearnRequest(w) \/ AgentCompact(w) PROVE Older'
  <2>1. Begin(w, "learn", "list", session, {}) \/ Begin(w, "big", "list", session, {})
    BY <1>4 DEF LearnRequest, AgentCompact
  <2> QED
    BY <1>0, <1>2, <2>1
<1>5. CASE AutoCompact
  BY <1>0, <1>2, <1>5 DEF AutoCompact
<1>6. ASSUME NEW w \in Batch, LearnBatch(w) PROVE Older'
  BY <1>0, <1>2, <1>6 DEF LearnBatch
<1>7. ASSUME NEW w \in Batch, BatchCrash(w) PROVE Older'
  <2>1. End({w}) /\ UNCHANGED meta /\ session <= session
    BY <1>0, <1>7 DEF BatchCrash
  <2> QED
    BY <1>0, <2>1, OlderEnds
<1>8. ASSUME NEW w \in Worker, List(w) PROVE Older'
  <2>1. /\ OthersKeep(w) /\ job'[w].step = "read" /\ job'[w].session = job[w].session
        /\ job'[w].kind = job[w].kind /\ job'[w].todo \subseteq Listed(w) /\ job[w].step = "list"
    BY <1>8, ListedJob DEF List
  <2>2. job[w].kind # "one" /\ job[w].session = NoSession /\ job[w] # NoJob
    BY <2>1 DEF Older, Busy, NoJob
  <2>3. CASE w = Loop
    <3>1. /\ job[w].current <= session
          /\ \A s \in Session : meta[s] # NoMeta => s <= job[w].current
      BY <2>1, <2>3 DEF Older, Looked
    <3>2. job[w].current \in Int
      BY <1>0, JobOf DEF TypeOK, JobType, NoSession
    <3>3. \A s \in Listed(w) : s < session
      BY <1>0, <3>1, <3>2 DEF Listed
    <3>4. Reserved(w)' /\ Looked'
      BY <1>0, <1>1, <2>1, <2>2, <2>3, <3>3 DEF Reserved, Looked
    <3> QED
      BY <1>0, <2>1, <2>2, <2>3, <3>4, OlderMoves DEF Older
  <2>4. CASE w # Loop
    <3>1. Reserved(w)'
      BY <2>1, <2>2, <2>4 DEF Reserved
    <3> QED
      BY <1>0, <2>1, <2>4, <3>1, OlderMoves
  <2> QED
    BY <2>3, <2>4
\* From then on it takes from its store.
<1>9. ASSUME NEW w \in Worker, OthersKeep(w), job[w] # NoJob,
             job'[w].step # "list", job'[w].kind = job[w].kind, job'[w].todo \subseteq job[w].todo,
             job'[w].session \in job[w].todo \cup {job[w].session, NoSession}
      PROVE  Older'
  <2>1. w \in Server => Reserved(w)'
    <3> SUFFICES ASSUME w \in Server, job[w].kind = "one" \/ w = Loop PROVE Reserved(w)'
      BY <1>9 DEF Reserved
    <3>1. job[w].session < session /\ \A s \in job[w].todo : s < session
      BY DEF Older, Reserved
    <3> QED
      BY <1>0, <1>1, <1>9, <3>1 DEF Reserved
  <2>2. w = Loop => Looked'
    BY <1>9 DEF Looked
  <2> QED
    BY <1>0, <1>9, <2>1, <2>2, OlderMoves DEF Older
<1>10. ASSUME NEW w \in Worker, ReadFrames(w) PROVE Older'
  <2>1. job[w] # NoJob
    BY <1>10 DEF ReadFrames, NoJob
  <2>2. /\ OthersKeep(w) /\ job'[w].step # "list" /\ job'[w].kind = job[w].kind
        /\ job'[w].todo \subseteq job[w].todo
        /\ job'[w].session \in job[w].todo \cup {job[w].session, NoSession}
    BY <1>10, ReadJob
  <2> QED
    BY <1>9, <2>1, <2>2
<1>11. ASSUME NEW w \in Worker, EndJob(w) PROVE Older'
  <2>1. OthersKeep(w) /\ job'[w] = NoJob
    BY <1>11, EndedJob
  <2>2. NoJob.step = "idle" /\ NoJob.session = NoSession /\ NoJob.todo = {}
    BY DEF NoJob
  <2>3. Reserved(w)' /\ (w = Loop => Looked')
    BY <1>0, <1>1, <2>1, <2>2 DEF Reserved, Looked
  <2> QED
    BY <1>0, <2>1, <2>2, <2>3, OlderMoves
<1>12. ASSUME NEW w \in Worker,
              Checksum(w) \/ WriteDataset(w) \/ WriteReceipt(w) \/ DeleteRaw(w) \/ DeleteMeta(w)
       PROVE  Older'
  <2>1. job[w] # NoJob
    BY <1>12 DEF Checksum, WriteDataset, WriteReceipt, DeleteRaw, DeleteMeta, NoJob
  <2>2. GiveUp(w) \/ \E step \in {"dataset", "receipt", "delete", "meta"} : Advance(w, step)
    BY <1>12 DEF Checksum, WriteDataset, WriteReceipt, DeleteRaw, DeleteMeta
  <2>3. CASE GiveUp(w)
    <3>1. /\ OthersKeep(w) /\ job'[w].step = "read" /\ job'[w].session = NoSession
          /\ job'[w].kind = job[w].kind /\ job'[w].todo = job[w].todo
      BY <2>3, GivenUp
    <3> QED
      BY <1>9, <2>1, <3>1
  <2>4. ASSUME NEW step \in {"dataset", "receipt", "delete", "meta"}, Advance(w, step) PROVE Older'
    <3>1. /\ OthersKeep(w) /\ job'[w].step = step /\ job'[w].session = job[w].session
          /\ job'[w].kind = job[w].kind /\ job'[w].todo = job[w].todo
      BY <2>4, Advanced
    <3> QED
      BY <1>9, <2>1, <3>1
  <2> QED
    BY <2>2, <2>3, <2>4
<1> QED
  BY <1>3, <1>4, <1>5, <1>6, <1>7, <1>8, <1>10, <1>11, <1>12 DEF Compaction

LEMMA OlderStep == TypeOK /\ Busy /\ Known /\ Older /\ [Next]_vars => Older'
<1> SUFFICES ASSUME TypeOK, Busy, Known, Older, [Next]_vars PROVE Older'
  OBVIOUS
<1>0. session \in Int /\ session <= session
  BY Ordered
<1>1. ASSUME UNCHANGED <<job, session>>, pc # "hygiene" \/ job[Loop] = NoJob PROVE Older'
  <2>1. job[Loop] = NoJob
    BY <1>1 DEF Older
  <2> QED
    BY <1>0, <1>1, <2>1, OlderStays
<1>2. ASSUME UNCHANGED <<job, session, pc, meta>> PROVE Older'
  BY <1>0, <1>2, OlderStays DEF MetaShrinks
<1>3. CASE OpenEpoch
  BY <1>3, Newer, OlderStays DEF OpenEpoch, loop, disk, MetaShrinks
<1>4. CASE AgentDisconnect \/ \E enabled \in BOOLEAN : SetRecording(enabled)
  BY <1>2, <1>4 DEF AgentDisconnect, SetRecording, epochs, loop, disk
<1>5. CASE Iterate
  BY <1>1, <1>5 DEF Iterate, Open, Snapshot, Reopen, AppendFrame, WriteBack, Sleep, runtime, epochs
<1>6. CASE Crash
  <2>1. End(Server) /\ UNCHANGED meta
    BY <1>6 DEF Crash
  <2> QED
    BY <1>6, <2>1, Newer, OlderEnds
<1>7. CASE UNCHANGED vars
  BY <1>2, <1>7 DEF vars, runtime, epochs, loop, disk
<1> QED
  BY <1>3, <1>4, <1>5, <1>6, <1>7, OlderCompacts DEF Next, Request

LEMMA OlderInitially == Init => Known /\ Older
<1>1. NoJob.step = "idle" /\ NoJob.session = -1 /\ NoJob.todo = {} /\ NoJob.kind = "none"
  BY DEF NoJob, NoSession
<1>2. Loop \in Worker /\ Server \subseteq Worker
  BY DEF Worker, Server
<1> QED
  BY <1>1, <1>2 DEF Init, Known, Older, Looked, Reserved, NoMeta

\* A compaction that was asked for one session, and the loop's own, never reads and
\* deletes the session that is being recorded, whichever epochs are opened while it
\* works (server.rs:922-939, main.rs:692-766).
THEOREM ActiveIsKept == Spec => []ActiveSessionIsKept
<1>1. Init => Known /\ Older
  BY OlderInitially
<1>2. TypeOK /\ Older => ActiveSessionIsKept
  <2> SUFFICES ASSUME TypeOK, Older PROVE ActiveSessionIsKept
    OBVIOUS
  <2>1. session \in Int
    BY Ordered
  <2>2. ASSUME NEW w \in Server, job[w].kind = "one" \/ w = Loop
        PROVE  session \notin job[w].todo \cup {job[w].session}
    <3>1. job[w].session < session /\ \A s \in job[w].todo : s < session
      BY <2>2 DEF Older, Reserved
    <3> QED
      BY <2>1, <3>1
  <2> QED
    BY <2>2 DEF ActiveSessionIsKept
<1>3. TypeOK /\ Busy /\ Known /\ Older /\ [Next]_vars => Known' /\ Older'
  BY KnownStep, OlderStep
<1> QED
  BY <1>1, <1>2, <1>3, Sound, PTL DEF Spec

--------------------------------------------------------------------------------
(* What is deleted has been described. *)

\* Of a session that has frames, or a recorder, and no raw file, the data set and the
\* receipt are left.
Recorded(s) == appended[s] # <<>> \/ (recorder # NoRecorder /\ recorder.session = s)
Left(s) == s \notin raw \cup contended /\ Recorded(s) => dataset[s] # <<>> /\ s \in receipts

\* A worker whose session is its own finds what it wrote before it deletes.
Safe(w) ==
  job[w].step \in {"checksum", "dataset", "receipt", "delete"} /\ job[w].session \notin contended =>
    /\ job[w].session \in raw
    /\ job[w].step \in {"receipt", "delete"} => dataset[job[w].session] # <<>>
    /\ job[w].step = "delete" => job[w].session \in receipts

Together ==
  \A v, w \in Worker :
    v # w /\ job[v].session = job[w].session /\ job[w].session \in Session =>
      job[w].session \in contended

Described == Together /\ (\A w \in Worker : Safe(w)) /\ (\A s \in Session : Left(s))

\* Steps that leave the jobs and what describes a session alone.
LEMMA DescribedStays ==
  ASSUME TypeOK, Busy, Described, UNCHANGED <<job, dataset, receipts, contended>>, raw \subseteq raw',
         \A s \in Session : s \notin raw' /\ Recorded(s)' => Recorded(s)
  PROVE  Described'
<1>1. Together'
  BY DEF Described, Together
<1>2. \A w \in Worker : Safe(w)'
  BY DEF Described, Safe
<1>3. \A s \in Session : Left(s)'
  BY DEF Described, Left
<1> QED
  BY <1>1, <1>2, <1>3 DEF Described

\* Steps of one worker that touch nothing but what is of its session.
LEMMA DescribedTouches ==
  ASSUME TypeOK, Busy, Described, NEW w \in Worker, OthersKeep(w),
         UNCHANGED <<contended, appended, recorder>>,
         job'[w].session \in {job[w].session, NoSession},
         \A t \in Session \ {job[w].session} :
           (t \in raw' <=> t \in raw) /\ dataset'[t] = dataset[t] /\ (t \in receipts' <=> t \in receipts),
         Safe(w)', \A t \in Session : t = job[w].session => Left(t)'
  PROVE  Described'
<1>1. NoSession \notin Session
  BY Nothing
<1>2. Together'
  BY <1>1 DEF Described, Together, OthersKeep
<1>3. ASSUME NEW v \in Worker PROVE Safe(v)'
  <2>1. CASE v # w
    <3>1. job'[v] = job[v] /\ Safe(v)
      BY <2>1 DEF OthersKeep, Described
    <3>2. SUFFICES ASSUME job[v].step \in {"checksum", "dataset", "receipt", "delete"},
                          job[v].session \notin contended
                   PROVE  Safe(v)'
      BY <3>1 DEF Safe
    <3>3. job[v].session \in Session
      BY <3>2 DEF Busy
    <3>4. job[v].session # job[w].session
      BY <2>1, <3>2, <3>3 DEF Described, Together
    <3> QED
      BY <3>1, <3>2, <3>3, <3>4 DEF Safe
  <2> QED
    BY <2>1
<1>4. ASSUME NEW t \in Session PROVE Left(t)'
  <2>1. CASE t # job[w].session
    <3>1. (t \in raw' <=> t \in raw) /\ dataset'[t] = dataset[t] /\ (t \in receipts' <=> t \in receipts)
      BY <2>1
    <3>2. Left(t) /\ (Recorded(t)' <=> Recorded(t)) /\ UNCHANGED contended
      BY DEF Described, Recorded
    <3> QED
      BY <3>1, <3>2 DEF Left
  <2> QED
    BY <2>1
<1> QED
  BY <1>2, <1>3, <1>4 DEF Described

LEMMA DescribedReads ==
  ASSUME TypeOK, Busy, Described, NEW w \in Worker, ReadFrames(w)
  PROVE  Described'
<1>1. NoSession \notin Session /\ UNCHANGED <<raw, dataset, receipts, appended, recorder>>
  BY Nothing DEF ReadFrames, disk, loop
<1>2. OthersKeep(w)
  BY ReadJob
<1>3. CASE job'[w].step = "read" /\ job'[w].session = NoSession /\ UNCHANGED contended
  <2>1. Safe(w)'
    BY <1>3 DEF Safe
  <2>2. \A s \in Session : Left(s)'
    BY <1>1, <1>3 DEF Described, Left, Recorded
  <2>3. Together'
    BY <1>1, <1>2, <1>3 DEF Described, Together, OthersKeep
  <2>4. ASSUME NEW v \in Worker, v # w PROVE Safe(v)'
    <3>1. job'[v] = job[v] /\ Safe(v)
      BY <1>2, <2>4 DEF OthersKeep, Described
    <3> QED
      BY <1>1, <1>3, <3>1 DEF Safe
  <2> QED
    BY <2>1, <2>2, <2>3, <2>4 DEF Described
<1>4. CASE /\ job'[w].step = "checksum" /\ job'[w].session \in job[w].todo \cap raw
           /\ contended' = contended \cup
                {t \in {job'[w].session} : \E v \in Worker \ {w} : job[v].session = job'[w].session}
  <2>1. contended \subseteq contended'
    BY <1>4
  <2>2. Together'
    BY <1>2, <1>4 DEF Described, Together, OthersKeep
  <2>3. ASSUME NEW v \in Worker PROVE Safe(v)'
    <3>1. CASE v # w
      BY <1>1, <1>2, <2>1, <3>1 DEF Described, Safe, OthersKeep
    <3>2. CASE v = w
      BY <1>1, <1>4, <3>2 DEF Safe
    <3> QED
      BY <3>1, <3>2
  <2>4. \A s \in Session : Left(s)'
    BY <1>1, <2>1 DEF Described, Left, Recorded
  <2> QED
    BY <2>2, <2>3, <2>4 DEF Described
<1> QED
  BY <1>3, <1>4, ReadJob

LEMMA DescribedEnds ==
  ASSUME TypeOK, Busy, Described, NEW workers \in SUBSET Worker, End(workers),
         UNCHANGED <<raw, contended, appended>>, recorder' \in {recorder, NoRecorder}
  PROVE  Described'
<1>1. \A v \in Worker : job'[v] = IF v \in workers THEN NoJob ELSE job[v]
  BY Ended
<1>2. NoJob.step = "idle" /\ NoJob.session \notin Session
  BY Nothing DEF NoJob
\* What is cut short is of a session that one of them works on.
<1>3. ASSUME NEW t \in Session, dataset'[t] # dataset[t] \/ (t \in receipts /\ t \notin receipts')
      PROVE  \E v \in workers : job[v].session = t /\ job[v].step \in {"dataset", "receipt"}
  <2>1. PICK cut \in SUBSET Writing(workers, "dataset") :
          dataset' = [s \in Session |-> IF s \in cut THEN <<>> ELSE dataset[s]]
    BY DEF End
  <2>2. PICK lost \in SUBSET Writing(workers, "receipt") : receipts' = receipts \ lost
    BY DEF End
  <2>3. t \in Writing(workers, "dataset") \/ t \in Writing(workers, "receipt")
    BY <1>3, <2>1, <2>2
  <2> QED
    BY <2>3 DEF Writing
<1>4. Together'
  BY <1>1, <1>2 DEF Described, Together
<1>5. ASSUME NEW v \in Worker PROVE Safe(v)'
  <2>1. CASE v \in workers
    BY <1>1, <1>2, <2>1 DEF Safe
  <2>2. CASE v \notin workers
    <3>1. job'[v] = job[v] /\ Safe(v)
      BY <1>1, <2>2 DEF Described
    <3>2. SUFFICES ASSUME job[v].step \in {"checksum", "dataset", "receipt", "delete"},
                          job[v].session \notin contended
                   PROVE  Safe(v)'
      BY <3>1 DEF Safe
    <3>3. job[v].session \in Session
      BY <3>2 DEF Busy
    <3>4. \A u \in workers : job[u].session # job[v].session
      BY <2>2, <3>2, <3>3 DEF Described, Together
    <3>5. dataset'[job[v].session] = dataset[job[v].session]
          /\ (job[v].session \in receipts => job[v].session \in receipts')
      BY <1>3, <3>3, <3>4
    <3> QED
      BY <3>1, <3>2, <3>5 DEF Safe
  <2> QED
    BY <2>1, <2>2
<1>6. ASSUME NEW t \in Session PROVE Left(t)'
  <2>1. SUFFICES ASSUME t \notin raw \cup contended, Recorded(t)' PROVE Left(t)'
    BY DEF Left
  <2>2. \A u \in Worker : job[u].step \in {"dataset", "receipt"} => job[u].session # t
    BY <2>1 DEF Described, Safe
  <2>3. dataset'[t] = dataset[t] /\ (t \in receipts => t \in receipts')
    BY <1>3, <2>2
  <2>4. Recorded(t)
    BY <2>1 DEF Recorded
  <2> QED
    BY <2>1, <2>3, <2>4 DEF Described, Left
<1> QED
  BY <1>4, <1>5, <1>6 DEF Described

LEMMA DescribedWorks ==
  ASSUME TypeOK, Busy, Described, NEW w \in Worker,
         Checksum(w) \/ WriteDataset(w) \/ WriteReceipt(w) \/ DeleteRaw(w) \/ DeleteMeta(w)
  PROVE  Described'
<1>0. /\ UNCHANGED <<contended, appended, recorder>>
      /\ job[w].session \in Session /\ job[w].frames # <<>>
      /\ Safe(w) /\ (\A t \in Session : Left(t)) /\ NoSession \notin Session
  <2>1. job[w].step \notin {"idle", "list", "read"}
    BY DEF Checksum, WriteDataset, WriteReceipt, DeleteRaw, DeleteMeta
  <2>2. UNCHANGED <<contended, appended, recorder>>
    BY DEF Checksum, WriteDataset, WriteReceipt, DeleteRaw, DeleteMeta, history, loop
  <2>3. job[w].session \in Session /\ job[w].frames # <<>>
    BY <2>1 DEF Busy
  <2> QED
    BY <2>2, <2>3, Nothing DEF Described
<1>a. PICK s \in Session : s = job[w].session
  BY <1>0
\* Giving the session up is safe whatever was touched, if the session stays described.
<1>1. ASSUME GiveUp(w), Left(s)',
             \A t \in Session \ {s} :
               (t \in raw' <=> t \in raw) /\ dataset'[t] = dataset[t] /\ (t \in receipts' <=> t \in receipts)
      PROVE  Described'
  <2>1. OthersKeep(w) /\ job'[w].step = "read" /\ job'[w].session = NoSession
    BY <1>1, GivenUp
  <2>2. Safe(w)'
    BY <2>1 DEF Safe
  <2> QED
    BY <1>0, <1>a, <1>1, <2>1, <2>2, DescribedTouches
<1>2. ASSUME NEW step, Advance(w, step), Left(s)',
             job'[w].step = step /\ job'[w].session = s => Safe(w)',
             \A t \in Session \ {s} :
               (t \in raw' <=> t \in raw) /\ dataset'[t] = dataset[t] /\ (t \in receipts' <=> t \in receipts)
      PROVE  Described'
  <2>1. OthersKeep(w) /\ job'[w].step = step /\ job'[w].session = s
    BY <1>a, <1>2, Advanced
  <2> QED
    BY <1>0, <1>a, <1>2, <2>1, DescribedTouches
<1>3. CASE Checksum(w)
  <2>1. UNCHANGED <<raw, dataset, receipts>>
    BY <1>3 DEF Checksum, disk
  <2>2. Left(s)'
    BY <1>0, <2>1 DEF Left, Recorded
  <2>3. CASE s \in raw /\ Advance(w, "dataset")
    <3>1. job'[w].step = "dataset" /\ job'[w].session = s => Safe(w)'
      BY <2>1, <2>3 DEF Safe
    <3> QED
      BY <1>2, <2>1, <2>2, <2>3, <3>1
  <2>4. CASE GiveUp(w)
    BY <1>1, <2>1, <2>2, <2>4
  <2> QED
    BY <1>3, <2>3, <2>4, <1>a DEF Checksum
<1>4. CASE WriteDataset(w)
  <2>1. /\ UNCHANGED <<raw, receipts>> /\ job[w].step = "dataset"
        /\ dataset \in [Session -> Seq(Frame)]
    BY <1>4 DEF WriteDataset, TypeOK, DiskOK
  \* The raw file is there, or the session is contended: nothing is asked of it yet.
  <2>2. s \in raw \cup contended
    BY <1>0, <2>1, <1>a DEF Safe
  <2>3. Left(s)'
    BY <1>0, <2>1, <2>2 DEF Left
  <2>4. CASE dataset' = [dataset EXCEPT ![s] = job[w].frames] /\ Advance(w, "receipt")
    <3>1. dataset'[s] # <<>>
      BY <1>0, <2>1, <2>4
    <3>2. job'[w].step = "receipt" /\ job'[w].session = s => Safe(w)'
      BY <1>0, <2>1, <2>2, <3>1 DEF Safe
    <3>3. \A t \in Session \ {s} : dataset'[t] = dataset[t]
      BY <2>1, <2>4
    <3> QED
      BY <1>2, <2>1, <2>3, <2>4, <3>2, <3>3
  <2>5. CASE (\E left \in {dataset[s], <<>>} : dataset' = [dataset EXCEPT ![s] = left]) /\ GiveUp(w)
    <3>1. \A t \in Session \ {s} : dataset'[t] = dataset[t]
      BY <2>1, <2>5
    <3> QED
      BY <1>1, <2>1, <2>3, <2>5, <3>1
  <2> QED
    BY <1>4, <2>4, <2>5, <1>a DEF WriteDataset
<1>5. CASE WriteReceipt(w)
  <2>1. UNCHANGED <<raw, dataset>> /\ job[w].step = "receipt"
    BY <1>5 DEF WriteReceipt
  <2>2. s \in raw \cup contended /\ (s \notin contended => dataset[s] # <<>>)
    BY <1>0, <2>1, <1>a DEF Safe
  <2>3. Left(s)'
    BY <1>0, <2>1, <2>2 DEF Left
  <2>4. CASE receipts' = receipts \cup {s} /\ Advance(w, "delete")
    <3>1. job'[w].step = "delete" /\ job'[w].session = s => Safe(w)'
      BY <1>0, <2>1, <2>2, <2>4 DEF Safe
    <3>2. \A t \in Session \ {s} : t \in receipts' <=> t \in receipts
      BY <2>4
    <3> QED
      BY <1>2, <2>1, <2>3, <2>4, <3>1, <3>2
  <2>5. CASE receipts' \in {receipts, receipts \ {s}} /\ GiveUp(w)
    <3>1. \A t \in Session \ {s} : t \in receipts' <=> t \in receipts
      BY <2>5
    <3> QED
      BY <1>1, <2>1, <2>3, <2>5, <3>1
  <2> QED
    BY <1>5, <2>4, <2>5, <1>a DEF WriteReceipt
<1>6. CASE DeleteRaw(w)
  <2>1. UNCHANGED <<dataset, receipts>> /\ job[w].step = "delete"
    BY <1>6 DEF DeleteRaw
  <2>2. s \notin contended => dataset[s] # <<>> /\ s \in receipts
    BY <1>0, <2>1, <1>a DEF Safe
  <2>3. Left(s)'
    BY <1>0, <2>1, <2>2 DEF Left
  <2>4. CASE raw' = raw \ {s} /\ Advance(w, "meta")
    <3>1. job'[w].step = "meta" /\ job'[w].session = s => Safe(w)'
      BY DEF Safe
    <3>2. \A t \in Session \ {s} : t \in raw' <=> t \in raw
      BY <2>4
    <3> QED
      BY <1>2, <2>1, <2>3, <2>4, <3>1, <3>2
  <2>5. CASE UNCHANGED raw /\ GiveUp(w)
    BY <1>1, <2>1, <2>3, <2>5
  <2> QED
    BY <1>6, <2>4, <2>5, <1>a DEF DeleteRaw
<1>7. CASE DeleteMeta(w)
  <2>1. UNCHANGED <<raw, dataset, receipts>> /\ GiveUp(w)
    BY <1>7 DEF DeleteMeta
  <2>2. Left(s)'
    BY <1>0, <2>1 DEF Left, Recorded
  <2> QED
    BY <1>1, <2>1, <2>2
<1> QED
  BY <1>3, <1>4, <1>5, <1>6, <1>7

LEMMA DescribedCompacts == TypeOK /\ Busy /\ Described /\ Compaction => Described'
<1> SUFFICES ASSUME TypeOK, Busy, Described, Compaction PROVE Described'
  OBVIOUS
<1>0. Http \subseteq Worker /\ Batch \subseteq Worker /\ Loop \in Worker /\ NoSession \notin Session
  BY Nothing DEF Worker, Server
\* A job begins and ends, and is listed, without a session.
<1>1. ASSUME NEW w \in Worker, OthersKeep(w), UNCHANGED <<loop, disk, history>>,
             job'[w].step \in {"idle", "list", "read"}, job'[w].session = NoSession
      PROVE  Described'
  <2>1. Safe(w)'
    BY <1>1 DEF Safe
  <2>2. \A t \in Session : Left(t)'
    BY <1>1 DEF Described, Left, Recorded, loop, disk, history
  <2>3. Together'
    BY <1>0, <1>1 DEF Described, Together, OthersKeep, history
  <2>4. ASSUME NEW v \in Worker, v # w PROVE Safe(v)'
    <3>1. job'[v] = job[v] /\ Safe(v)
      BY <1>1, <2>4 DEF OthersKeep, Described
    <3> QED
      BY <1>1, <3>1 DEF Safe, disk, history
  <2> QED
    BY <2>1, <2>2, <2>3, <2>4 DEF Described
<1>2. ASSUME NEW w \in Worker, NEW kind, NEW step \in {"list", "read"}, NEW current, NEW todo,
             Begin(w, kind, step, current, todo)
      PROVE  Described'
  <2>1. OthersKeep(w) /\ job'[w].step = step /\ job'[w].session = NoSession
    BY <1>2, Begun
  <2>2. UNCHANGED <<loop, disk, history>>
    BY <1>2 DEF Begin
  <2> QED
    BY <1>1, <2>1, <2>2
<1>3. ASSUME NEW w \in Http, LearnRequest(w) \/ AgentCompact(w) PROVE Described'
  <2>1. Begin(w, "learn", "list", session, {}) \/ Begin(w, "big", "list", session, {})
    BY <1>3 DEF LearnRequest, AgentCompact
  <2> QED
    BY <1>0, <1>2, <2>1
<1>4. ASSUME NEW w \in Http, NEW s \in Session, CompactRequest(w, s) PROVE Described'
  BY <1>0, <1>2, <1>4 DEF CompactRequest
<1>5. CASE AutoCompact
  BY <1>0, <1>2, <1>5 DEF AutoCompact
<1>6. ASSUME NEW w \in Batch, LearnBatch(w) PROVE Described'
  BY <1>0, <1>2, <1>6 DEF LearnBatch
<1>7. ASSUME NEW w \in Batch, BatchCrash(w) PROVE Described'
  <2>1. End({w}) /\ UNCHANGED <<raw, contended, appended, recorder>> /\ {w} \in SUBSET Worker
    BY <1>0, <1>7 DEF BatchCrash, history, loop
  <2> QED
    BY <2>1, DescribedEnds
<1>8. ASSUME NEW w \in Worker, List(w) PROVE Described'
  <2>1. OthersKeep(w) /\ job'[w].step = "read" /\ job'[w].session = job[w].session
    BY <1>8, ListedJob
  <2>2. job[w].session = NoSession /\ UNCHANGED <<loop, disk, history>>
    BY <1>8 DEF List, Busy
  <2> QED
    BY <1>1, <2>1, <2>2
<1>9. ASSUME NEW w \in Worker, EndJob(w) PROVE Described'
  <2>1. OthersKeep(w) /\ job'[w] = NoJob /\ UNCHANGED <<loop, disk, history>>
    BY <1>9, EndedJob DEF EndJob
  <2>2. NoJob.step = "idle" /\ NoJob.session = NoSession
    BY DEF NoJob
  <2> QED
    BY <1>1, <2>1, <2>2
<1> QED
  BY <1>3, <1>4, <1>5, <1>6, <1>7, <1>8, <1>9, DescribedReads, DescribedWorks DEF Compaction

LEMMA DescribedStep == TypeOK /\ Busy /\ Described /\ [Next]_vars => Described'
<1> SUFFICES ASSUME TypeOK, Busy, Described, [Next]_vars PROVE Described'
  OBVIOUS
<1>1. CASE UNCHANGED <<job, disk, history, recorder>>
  BY <1>1, DescribedStays DEF disk, history, Recorded
<1>2. CASE Request
  BY <1>1, <1>2 DEF Request, OpenEpoch, AgentDisconnect, SetRecording, loop
\* The recorder that is opened has a raw file.
<1>3. ASSUME NEW closed, OpenCurrentRecorder(closed), UNCHANGED <<job, dataset, receipts, history>>
      PROVE  Described'
  <2>1. raw \subseteq raw' /\ (recorder' # NoRecorder => recorder'.session \in raw')
    BY <1>3 DEF OpenCurrentRecorder
  <2>2. \A s \in Session : s \notin raw' /\ Recorded(s)' => Recorded(s)
    BY <1>3, <2>1 DEF Recorded, history
  <2> QED
    BY <1>3, <2>1, <2>2, DescribedStays DEF history
<1>4. CASE Open \/ Reopen
  BY <1>3, <1>4 DEF Open, Reopen, history
\* A frame is appended by a recorder of that session.
<1>5. CASE AppendFrame
  <2>1. UNCHANGED <<job, raw, dataset, receipts, contended>>
    BY <1>5 DEF AppendFrame
  <2>2. ASSUME NEW frame \in pending.frames, Write(frame)
        PROVE  \A s \in Session : Recorded(s)' => Recorded(s)
    <3>1. /\ recorder # NoRecorder /\ recorder'.session = recorder.session
          /\ \A s \in Session \ {recorder.session} : appended'[s] = appended[s]
      BY <2>2 DEF Write, TypeOK, LoopOK, HistoryOK
    <3> QED
      BY <3>1 DEF Recorded
  <2>3. ASSUME FailToWrite \/ UNCHANGED <<recorder, appended>>
        PROVE  \A s \in Session : Recorded(s)' => Recorded(s)
    BY <2>3 DEF FailToWrite, Recorded
  <2>4. \A s \in Session : Recorded(s)' => Recorded(s)
    BY <1>5, <2>2, <2>3 DEF AppendFrame, AppendPending
  <2> QED
    BY <2>1, <2>4, DescribedStays
<1>6. CASE Snapshot \/ WriteBack \/ Sleep
  BY <1>1, <1>6 DEF Snapshot, WriteBack, Sleep
<1>7. CASE Crash
  <2>1. /\ End(Server) /\ UNCHANGED <<raw, contended, appended>> /\ recorder' = NoRecorder
        /\ Server \in SUBSET Worker
    BY <1>7 DEF Crash, history, Worker
  <2> QED
    BY <2>1, DescribedEnds
<1>8. CASE UNCHANGED vars
  BY <1>1, <1>8 DEF vars, loop
<1> QED
  BY <1>2, <1>4, <1>5, <1>6, <1>7, <1>8, DescribedCompacts DEF Next, Iterate

\* Whatever crashes and whichever writes fail, a session whose raw file was deleted has
\* its data set and its analysis receipt, if no two compactions worked on it at once
\* (storage.rs:267-355).
THEOREM DescribedBeforeDeleted == Spec => []DeletedWasDescribed
<1>1. Init => Described
  <2>1. NoJob.step = "idle" /\ NoJob.session \notin Session
    BY Nothing DEF NoJob
  <2>2. ASSUME Init PROVE Described
    <3>1. \A w \in Worker : job[w] = NoJob
      BY <2>2 DEF Init
    <3>2. Together /\ \A w \in Worker : Safe(w)
      BY <2>1, <3>1 DEF Together, Safe
    <3>3. \A s \in Session : Left(s)
      BY <2>2 DEF Init, Left, Recorded
    <3> QED
      BY <3>2, <3>3 DEF Described
  <2> QED
    BY <2>2
<1>2. Described => DeletedWasDescribed
  BY DEF Described, Left, Recorded, DeletedWasDescribed
<1> QED
  BY <1>1, <1>2, DescribedStep, Sound, PTL DEF Spec

--------------------------------------------------------------------------------
(* How late a frame can be. *)

\* The recorder is of another session than the current one only while an epoch was
\* opened that the loop has not seen, or it is about to reopen.
Behind == recorder # NoRecorder /\ recorder.session # session => epoch_changed \/ pc = "reopen"

\* The loop is about to append to s.
Due(s) == pc = "append" /\ recorder # NoRecorder /\ recorder.session = s

\* What a compaction asked for one session has read lacks a frame at most, and none as
\* long as the loop has one to append.
Complete(w) ==
  LET s == job[w].session IN
  job[w].kind = "one" /\ s # NoSession =>
    /\ Len(file[s]) <= Len(job[w].frames) + 1
    /\ Due(s) => Len(file[s]) <= Len(job[w].frames)

LEMMA BehindStep == TypeOK /\ Behind /\ [Next]_vars => Behind'
<1> SUFFICES ASSUME TypeOK, Behind, [Next]_vars PROVE Behind'
  OBVIOUS
<1>1. CASE UNCHANGED <<runtime, loop>>
  BY <1>1 DEF runtime, epochs, loop, Behind
<1>2. CASE OpenEpoch
  BY <1>2 DEF OpenEpoch, BeginNewEpoch, Behind
<1>3. CASE AgentDisconnect \/ \E enabled \in BOOLEAN : SetRecording(enabled)
  BY <1>3 DEF AgentDisconnect, SetRecording, epochs, loop, Behind
<1>4. CASE Open \/ Reopen
  BY <1>4, OpenRoutes DEF Open, Reopen, epochs, Behind
<1>5. CASE Snapshot
  BY <1>5 DEF Snapshot, Behind
<1>6. CASE AppendFrame
  <2>1. recorder' = recorder \/ (recorder # NoRecorder /\ recorder'.session = recorder.session)
    BY <1>6 DEF AppendFrame, AppendPending, FailToWrite, Write, TypeOK, LoopOK
  <2> QED
    BY <1>6, <2>1 DEF AppendFrame, runtime, epochs, Behind
<1>7. CASE WriteBack \/ Sleep
  BY <1>7 DEF WriteBack, Sleep, epochs, Behind
<1>8. CASE Compaction
  <2>1. UNCHANGED <<runtime, loop>>
    BY <1>8 DEF Compaction, LearnRequest, AgentCompact, CompactRequest, AutoCompact, LearnBatch, Begin,
                BatchCrash, List, ReadFrames, EndJob, Checksum, WriteDataset, WriteReceipt, DeleteRaw,
                DeleteMeta
  <2> QED
    BY <1>1, <2>1
<1>9. CASE Crash
  BY <1>9 DEF Crash, Behind
<1>10. CASE UNCHANGED vars
  BY <1>1, <1>10 DEF vars
<1> QED
  BY <1>2, <1>3, <1>4, <1>5, <1>6, <1>7, <1>8, <1>9, <1>10 DEF Next, Request, Iterate

\* What is read for one session is all of its file.
LEMMA AllIsRead ==
  ASSUME TypeOK, Busy, NEW w \in Worker, ReadFrames(w), job[w].kind = "one",
         job'[w].session # NoSession
  PROVE  Len(file[job'[w].session]) = Len(job'[w].frames)
<1>1. PICK s \in job[w].todo :
        job' = IF Readable(s)
                 THEN [job EXCEPT ![w] = [@ EXCEPT !.step = "checksum", !.todo = job[w].todo \ {s},
                                                   !.session = s, !.frames = FramesRead(w, s)]]
                 ELSE [job EXCEPT ![w] = [@ EXCEPT !.todo = job[w].todo \ {s}]]
  BY DEF ReadFrames
<1>2. job[w] \in JobType /\ job[w].step = "read" /\ job[w].session = NoSession /\ s \in Session
  BY JobOf DEF TypeOK, ReadFrames, Busy, JobType
<1>3. Readable(s)
  <2> SUFFICES ASSUME ~Readable(s) PROVE FALSE
    OBVIOUS
  <2>1. job' = [job EXCEPT ![w] = [job[w] EXCEPT !.todo = job[w].todo \ {s}]]
    BY <1>1
  <2>2. [job[w] EXCEPT !.todo = job[w].todo \ {s}].session = NoSession
    BY <1>2 DEF JobType
  <2> QED
    BY <2>1, <2>2 DEF TypeOK, JobOK
<1> DEFINE j == [job[w] EXCEPT !.step = "checksum", !.todo = job[w].todo \ {s},
                               !.session = s, !.frames = FramesRead(w, s)]
<1>4. job' = [job EXCEPT ![w] = j]
  BY <1>1, <1>3
<1>5. j.session = s /\ j.frames = FramesRead(w, s)
  BY <1>2 DEF JobType
<1> HIDE DEF j
<1>6. job'[w] = j
  BY <1>4 DEF TypeOK, JobOK
<1>7. file[s] \in Seq(Frame) /\ FramesRead(w, s) = SubSeq(file[s], 1, Len(file[s]))
  BY <1>2 DEF TypeOK, DiskOK, FramesRead
<1>8. Len(SubSeq(file[s], 1, Len(file[s]))) = Len(file[s])
  BY <1>7
<1> QED
  BY <1>5, <1>6, <1>7, <1>8

\* What another compaction deletes is not appended to.
LEMMA CompleteDeletes ==
  ASSUME TypeOK, NEW w \in Http, Complete(w), job'[w] = job[w], UNCHANGED <<pc, recorder>>,
         NEW s, file' = [file EXCEPT ![s] = <<>>]
  PROVE  Complete(w)'
<1> DEFINE t == job[w].session
<1> SUFFICES ASSUME job[w].kind = "one", t # NoSession
             PROVE  /\ Len(file'[t]) <= Len(job[w].frames) + 1
                    /\ Due(t) => Len(file'[t]) <= Len(job[w].frames)
  BY DEF Complete, Due
<1>1. job[w] \in JobType
  BY JobOf DEF TypeOK, Worker, Server
<1>2. t \in Session /\ Len(job[w].frames) \in Nat
  BY <1>1 DEF JobType
<1>3. file \in [Session -> Seq(Frame)]
  BY DEF TypeOK, DiskOK
<1>4. CASE t = s
  <2>1. Len(file'[t]) = 0
    BY <1>2, <1>3, <1>4
  <2> QED
    BY <1>2, <2>1
<1>5. CASE t # s
  BY <1>2, <1>3, <1>5 DEF Complete
<1> QED
  BY <1>4, <1>5

LEMMA CompleteCompacts ==
  ASSUME TypeOK, Busy, Older, NEW w \in Http, Complete(w), Compaction
  PROVE  Complete(w)'
<1>0. /\ UNCHANGED <<pc, recorder>> /\ w \in Worker /\ NoJob.session = NoSession
      /\ Http \subseteq Worker /\ Batch \subseteq Worker /\ Loop \in Worker
      /\ w # Loop /\ w \notin Batch
  <2>1. w # Loop /\ w \notin Batch
    BY RecordingAssumption
  <2> QED
    BY <2>1, CompactionShrinks DEF loop, Worker, Server, NoJob
<1>1. ASSUME job'[w] = job[w], UNCHANGED file PROVE Complete(w)'
  BY <1>0, <1>1 DEF Complete, Due
<1>2. ASSUME job'[w].session = NoSession PROVE Complete(w)'
  BY <1>2 DEF Complete
<1>3. ASSUME NEW v \in Worker, NEW kind, NEW step, NEW current, NEW todo,
             Begin(v, kind, step, current, todo)
      PROVE  Complete(w)'
  <2>1. OthersKeep(v) /\ job'[v].session = NoSession /\ UNCHANGED file
    BY <1>3, Begun DEF Begin, disk
  <2> QED
    BY <1>0, <1>1, <1>2, <2>1 DEF OthersKeep
<1>4. CASE \/ \E v \in Http : \/ LearnRequest(v) \/ AgentCompact(v)
                              \/ \E s \in Session : CompactRequest(v, s)
           \/ AutoCompact
           \/ \E v \in Batch : LearnBatch(v)
  BY <1>0, <1>3, <1>4 DEF LearnRequest, AgentCompact, CompactRequest, AutoCompact, LearnBatch
<1>5. ASSUME NEW v \in Batch, BatchCrash(v) PROVE Complete(w)'
  <2>1. End({v}) /\ UNCHANGED file
    BY <1>5 DEF BatchCrash
  <2>2. job'[w] = job[w]
    BY <1>0, <2>1, Ended
  <2> QED
    BY <1>1, <2>1, <2>2
<1>6. ASSUME NEW v \in Worker, List(v) PROVE Complete(w)'
  <2>1. OthersKeep(v) /\ job'[v].session = job[v].session /\ job[v].session = NoSession /\ UNCHANGED file
    BY <1>6, ListedJob DEF List, Busy, disk
  <2> QED
    BY <1>0, <1>1, <1>2, <2>1 DEF OthersKeep
<1>7. ASSUME NEW v \in Worker, ReadFrames(v) PROVE Complete(w)'
  <2>1. OthersKeep(v) /\ job'[v].kind = job[v].kind /\ UNCHANGED file
    BY <1>7, ReadJob DEF ReadFrames, disk
  <2>2. CASE v # w
    BY <1>0, <1>1, <2>1, <2>2 DEF OthersKeep
  <2>3. CASE v = w
    <3> SUFFICES ASSUME job'[w].kind = "one", job'[w].session # NoSession PROVE Complete(w)'
      BY DEF Complete
    <3>1. Len(file'[job'[w].session]) = Len(job'[w].frames)
      BY <1>0, <1>7, <2>1, <2>3, AllIsRead
    <3>2. job'[w].session \in Session
      <4>1. job'[w].session \in job[w].todo
        BY <1>0, <1>7, <2>3, ReadJob
      <4> QED
        BY <1>0, <4>1, JobOf DEF TypeOK, JobType
    <3>3. Len(file'[job'[w].session]) \in Nat
      BY <2>1, <3>2 DEF TypeOK, DiskOK
    <3> QED
      BY <3>1, <3>3 DEF Complete
  <2> QED
    BY <2>2, <2>3
<1>8. ASSUME NEW v \in Worker, EndJob(v) PROVE Complete(w)'
  <2>1. OthersKeep(v) /\ job'[v] = NoJob /\ UNCHANGED file
    BY <1>8, EndedJob DEF EndJob, disk
  <2> QED
    BY <1>0, <1>1, <1>2, <2>1 DEF OthersKeep
\* A job that goes on keeps what it has read.
<1>9. ASSUME NEW v \in Worker,
             Checksum(v) \/ WriteDataset(v) \/ WriteReceipt(v) \/ DeleteRaw(v) \/ DeleteMeta(v)
      PROVE  Complete(w)'
  <2>1. UNCHANGED file \/ \E s : file' = [file EXCEPT ![s] = <<>>]
    BY <1>9 DEF Checksum, WriteDataset, WriteReceipt, DeleteRaw, DeleteMeta, disk
  <2>2. GiveUp(v) \/ \E step \in {"dataset", "receipt", "delete", "meta"} : Advance(v, step)
    BY <1>9 DEF Checksum, WriteDataset, WriteReceipt, DeleteRaw, DeleteMeta
  <2>3. ASSUME job'[w] = job[w] PROVE Complete(w)'
    BY <1>0, <1>1, <2>1, <2>3, CompleteDeletes
  <2>4. CASE GiveUp(v)
    <3>1. OthersKeep(v) /\ job'[v].session = NoSession
      BY <2>4, GivenUp
    <3> QED
      BY <1>0, <1>2, <2>3, <3>1 DEF OthersKeep
  <2>5. ASSUME NEW step \in {"dataset", "receipt", "delete", "meta"}, Advance(v, step) PROVE Complete(w)'
    <3>1. /\ OthersKeep(v) /\ job'[v].session = job[v].session
          /\ job'[v].kind = job[v].kind /\ job'[v].frames = job[v].frames
      BY <2>5, Advanced
    <3>2. CASE v = w
      <4>1. CASE UNCHANGED file
        BY <1>0, <3>1, <3>2, <4>1 DEF Complete, Due
      <4>2. CASE \E s : file' = [file EXCEPT ![s] = <<>>]
        <5>1. PICK s : file' = [file EXCEPT ![s] = <<>>]
          BY <4>2
        <5> SUFFICES ASSUME job[w].kind = "one", job[w].session # NoSession PROVE Complete(w)'
          BY <3>1, <3>2 DEF Complete
        <5>2. job[w].session \in Session /\ Len(job[w].frames) \in Nat
          BY <1>0, JobOf DEF TypeOK, JobType
        <5>3. CASE job[w].session = s
          <6>1. Len(file'[s]) = 0
            BY <5>1, <5>2, <5>3 DEF TypeOK, DiskOK
          <6> QED
            BY <3>1, <3>2, <5>2, <5>3, <6>1 DEF Complete
        <5>4. CASE job[w].session # s
          <6>1. file'[job[w].session] = file[job[w].session]
            BY <5>1, <5>2, <5>4 DEF TypeOK, DiskOK
          <6> QED
            BY <1>0, <3>1, <3>2, <6>1 DEF Complete, Due
        <5> QED
          BY <5>3, <5>4
      <4> QED
        BY <2>1, <4>1, <4>2
    <3> QED
      BY <1>0, <2>3, <3>1, <3>2 DEF OthersKeep
  <2> QED
    BY <2>2, <2>4, <2>5
<1> QED
  BY <1>4, <1>5, <1>6, <1>7, <1>8, <1>9 DEF Compaction

LEMMA CompleteStep ==
  TypeOK /\ Busy /\ Older /\ Behind /\ [Next]_vars => \A w \in Http : Complete(w) => Complete(w)'
<1> SUFFICES ASSUME TypeOK, Busy, Older, Behind, [Next]_vars, NEW w \in Http, Complete(w)
             PROVE  Complete(w)'
  OBVIOUS
<1>0. w \in Worker /\ w \in Server
  BY DEF Worker, Server
\* The session of such a compaction is not the current one.
<1>1. job[w].kind = "one" => job[w].session # session
  <2>1. session \in Int
    BY Ordered
  <2> QED
    BY <1>0, <2>1 DEF Older, Reserved
<1>2. ASSUME UNCHANGED <<job, file>>, \A s : Due(s)' => Due(s) \/ s = session PROVE Complete(w)'
  BY <1>1, <1>2 DEF Complete
<1>3. ASSUME UNCHANGED <<job, file, pc, recorder>> PROVE Complete(w)'
  BY <1>3 DEF Complete, Due
<1>4. CASE Request
  BY <1>3, <1>4 DEF Request, OpenEpoch, AgentDisconnect, SetRecording, loop, disk
<1>5. CASE Open \/ Reopen
  BY <1>2, <1>5, OpenRoutes DEF Open, Reopen, Due
<1>6. CASE Snapshot
  BY <1>2, <1>6 DEF Snapshot, disk, Behind, Due
<1>7. CASE WriteBack \/ Sleep
  BY <1>2, <1>7 DEF WriteBack, Sleep, disk, Due
<1>8. CASE AppendFrame
  <2>1. pc = "append" /\ pc' = "write" /\ UNCHANGED job
    BY <1>8 DEF AppendFrame
  <2>2. ASSUME NEW frame \in pending.frames, Write(frame) PROVE Complete(w)'
    <3> DEFINE s == recorder.session
               t == job[w].session
    <3> SUFFICES ASSUME job[w].kind = "one", t # NoSession
                 PROVE  Len(file'[t]) <= Len(job[w].frames) + 1
      BY <2>1 DEF Complete, Due
    <3>1. job[w] \in JobType /\ file \in [Session -> Seq(Frame)] /\ frame \in Frame
      BY <1>0, JobOf DEF TypeOK, DiskOK, LoopOK
    <3>2. t \in Session /\ Len(job[w].frames) \in Nat /\ file[t] \in Seq(Frame) /\ Len(file[t]) \in Nat
      BY <3>1 DEF JobType
    <3>3. recorder # NoRecorder /\ (file' = file \/ file' = [file EXCEPT ![s] = Append(file[s], frame)])
      BY <2>2 DEF Write
    <3>4. CASE t = s
      <4>1. Len(file[t]) <= Len(job[w].frames)
        BY <2>1, <3>3, <3>4 DEF Complete, Due
      <4>2. Len(file'[t]) <= Len(file[t]) + 1
        <5>1. Len(Append(file[t], frame)) = Len(file[t]) + 1
          BY <3>1, <3>2
        <5>2. file'[t] = file[t] \/ file'[t] = Append(file[t], frame)
          BY <3>1, <3>2, <3>3, <3>4
        <5> QED
          BY <3>2, <5>1, <5>2
      <4>3. Len(file'[t]) \in Nat
        <5>1. file' \in [Session -> Seq(Frame)]
          BY <2>2, <3>1, WriteTypes
        <5> QED
          BY <3>2, <5>1
      <4> QED
        BY <3>2, <4>1, <4>2, <4>3
    <3>5. CASE t # s
      <4>1. file'[t] = file[t]
        BY <3>1, <3>2, <3>3, <3>5
      <4> QED
        BY <4>1 DEF Complete
    <3> QED
      BY <3>4, <3>5
  <2>3. CASE UNCHANGED file
    BY <1>2, <2>1, <2>3 DEF Due
  <2> QED
    BY <1>8, <2>2, <2>3 DEF AppendFrame, AppendPending, FailToWrite
<1>9. CASE Compaction
  BY <1>9, CompleteCompacts
<1>10. CASE Crash
  <2>1. job'[w] = NoJob
    BY <1>0, <1>10, Ended DEF Crash
  <2> QED
    BY <2>1 DEF Complete, NoJob
<1>11. CASE UNCHANGED vars
  BY <1>3, <1>11 DEF vars, loop, disk
<1> QED
  BY <1>4, <1>5, <1>6, <1>7, <1>8, <1>9, <1>10, <1>11 DEF Next, Iterate

\* A session that stopped being active a moment ago can be asked for while the loop still
\* has a frame of it to append: that is the only one which the compaction does not see
\* (server.rs:922-939, main.rs:222-291).
THEOREM OneFrameIsLate == Spec => []AtMostOneLateFrame
<1> DEFINE Late == \A w \in Http : Complete(w)
<1>1. Init => Known /\ Older /\ Behind /\ Late
  BY OlderInitially DEF Init, Behind, Complete, NoJob, Worker, Server
<1>2. TypeOK /\ Busy /\ Known /\ Older /\ Behind /\ Late /\ [Next]_vars =>
        Known' /\ Older' /\ Behind' /\ Late'
  BY KnownStep, OlderStep, BehindStep, CompleteStep
<1>3. Late => AtMostOneLateFrame
  BY DEF Complete, AtMostOneLateFrame
<1> QED
  BY <1>1, <1>2, <1>3, Sound, PTL DEF Spec

--------------------------------------------------------------------------------
(* What the sample counter tells. *)

\* Unless an epoch was opened that the loop has not seen, what it has seen and taken is
\* of the current epoch.
Stamped ==
  /\ ~epoch_changed /\ pc \in {"append", "reopen"} => seen.epoch = epoch
  /\ ~epoch_changed /\ pc \notin {"open", "reopen"} => \A f \in pending.frames : f.epoch = epoch
  /\ pc = "open" => pending.frames = {}

\* The counter may be ahead of the frames of its epoch, but not where it is about to
\* count one more, nor by a frame of the epoch before while the loop has not seen this one.
Counted ==
  /\ session_samples <= Cardinality(Taken(session, epoch)) + 1
  /\ pc = "write" /\ append = "written" => session_samples <= Cardinality(Taken(session, epoch))
  /\ pc \in {"reopen", "append"} /\ epoch_changed => session_samples = 0

LEMMA TakenIsFinite ==
  ASSUME TypeOK, NEW s \in Session, NEW e
  PROVE  IsFiniteSet(Taken(s, e)) /\ Cardinality(Taken(s, e)) \in Nat
<1>1. appended[s] \in Seq(Frame)
  BY DEF TypeOK, HistoryOK
<1>2. DOMAIN appended[s] = 1 .. Len(appended[s]) /\ Len(appended[s]) \in Nat
  BY <1>1
<1>3. IsFiniteSet(1 .. Len(appended[s]))
  BY <1>2, FS_Interval
<1>4. Taken(s, e) \subseteq 1 .. Len(appended[s])
  BY <1>2 DEF Taken
<1> QED
  BY <1>3, <1>4, FS_Subset, FS_CardinalityType

\* A frame that is appended is taken in its epoch, and takes away from none.
LEMMA TakenGrows ==
  ASSUME TypeOK, NEW s \in Session, NEW frame \in Frame, NEW e,
         appended' = [appended EXCEPT ![s] = Append(appended[s], frame)]
  PROVE  /\ \A t \in Session : Cardinality(Taken(t, e)') \in Nat
         /\ \A t \in Session : Cardinality(Taken(t, e)) <= Cardinality(Taken(t, e)')
         /\ frame.epoch = e => Cardinality(Taken(s, e)') = Cardinality(Taken(s, e)) + 1
<1> DEFINE q == appended[s]
           n == Len(appended[s]) + 1
<1>1. appended[s] \in Seq(Frame) /\ Len(appended[s]) \in Nat /\ appended'[s] = Append(appended[s], frame)
  BY DEF TypeOK, HistoryOK
<1>2. /\ DOMAIN appended'[s] = DOMAIN appended[s] \cup {n} /\ n \notin DOMAIN appended[s]
      /\ \A i \in DOMAIN appended[s] : appended'[s][i] = appended[s][i]
      /\ appended'[s][n] = frame
  BY <1>1
<1> HIDE DEF n
<1>3. Taken(s, e)' = Taken(s, e) \cup {i \in {n} : frame.epoch = e}
  BY <1>2 DEF Taken
<1>4. n \notin Taken(s, e)
  BY <1>2 DEF Taken
<1>5. IsFiniteSet(Taken(s, e)) /\ Cardinality(Taken(s, e)) \in Nat
  BY TakenIsFinite
<1>6. frame.epoch = e => Cardinality(Taken(s, e)') = Cardinality(Taken(s, e)) + 1
  <2> SUFFICES ASSUME frame.epoch = e PROVE Cardinality(Taken(s, e)') = Cardinality(Taken(s, e)) + 1
    OBVIOUS
  <2>1. Taken(s, e)' = Taken(s, e) \cup {n}
    BY <1>3
  <2> QED
    BY <1>4, <1>5, <2>1, FS_AddElement
<1>7. frame.epoch # e => Taken(s, e)' = Taken(s, e)
  BY <1>3
<1>8. ASSUME NEW t \in Session, t # s PROVE Taken(t, e)' = Taken(t, e)
  <2>1. appended'[t] = appended[t]
    BY <1>8 DEF TypeOK, HistoryOK
  <2> QED
    BY <2>1 DEF Taken
<1>9. ASSUME NEW t \in Session
      PROVE  Cardinality(Taken(t, e)') \in Nat /\ Cardinality(Taken(t, e)) <= Cardinality(Taken(t, e)')
  <2>1. Cardinality(Taken(t, e)) \in Nat
    BY TakenIsFinite
  <2>2. CASE Taken(t, e)' = Taken(t, e)
    BY <2>1, <2>2
  <2>3. CASE t = s /\ frame.epoch = e
    BY <1>6, <2>1, <2>3
  <2> QED
    BY <1>7, <1>8, <2>2, <2>3
<1> QED
  BY <1>6, <1>9

LEMMA StampedStep == TypeOK /\ Stamped /\ [Next]_vars => Stamped'
<1> SUFFICES ASSUME TypeOK, Stamped, [Next]_vars PROVE Stamped'
  OBVIOUS
<1>1. CASE UNCHANGED <<runtime, loop>>
  BY <1>1 DEF runtime, epochs, loop, Stamped
<1>2. CASE OpenEpoch
  BY <1>2 DEF OpenEpoch, BeginNewEpoch, loop, Stamped
<1>3. CASE AgentDisconnect \/ \E enabled \in BOOLEAN : SetRecording(enabled)
  BY <1>3 DEF AgentDisconnect, SetRecording, epochs, loop, Stamped
<1>4. CASE Open
  BY <1>4 DEF Open, epochs, Stamped
<1>5. CASE Snapshot
  <2>1. pending' = pending \/ pending'.frames = {}
    BY <1>5 DEF Snapshot, Forget, NoPending
  <2> QED
    BY <1>5, <2>1 DEF Snapshot, Stamped
<1>6. CASE Reopen
  BY <1>6 DEF Reopen, Forget, NoPending, epochs, Stamped
<1>7. CASE AppendFrame
  <2>1. \A f \in pending'.frames : f.epoch = seen.epoch
    BY <1>7 DEF AppendFrame, NewPending
  <2> QED
    BY <1>7, <2>1 DEF AppendFrame, runtime, epochs, Stamped
<1>8. CASE WriteBack \/ Sleep
  BY <1>8 DEF WriteBack, Sleep, epochs, Stamped
<1>9. CASE Compaction
  <2>1. UNCHANGED <<runtime, loop>>
    BY <1>9 DEF Compaction, LearnRequest, AgentCompact, CompactRequest, AutoCompact, LearnBatch, Begin,
                BatchCrash, List, ReadFrames, EndJob, Checksum, WriteDataset, WriteReceipt, DeleteRaw,
                DeleteMeta
  <2> QED
    BY <1>1, <2>1
<1>10. CASE Crash
  BY <1>10 DEF Crash, NoPending, Stamped
<1>11. CASE UNCHANGED vars
  BY <1>1, <1>11 DEF vars
<1> QED
  BY <1>2, <1>3, <1>4, <1>5, <1>6, <1>7, <1>8, <1>9, <1>10, <1>11 DEF Next, Request, Iterate

LEMMA CountedStep == TypeOK /\ Routed /\ Stamped /\ Counted /\ [Next]_vars => Counted'
<1> SUFFICES ASSUME TypeOK, Routed, Stamped, Counted, [Next]_vars PROVE Counted'
  OBVIOUS
<1> DEFINE n == Cardinality(Taken(session, epoch))
<1>0. n \in Nat /\ session_samples \in Nat /\ session \in Session
  BY TakenIsFinite DEF TypeOK, RuntimeOK
<1>1. CASE UNCHANGED <<session, epoch, epoch_changed, session_samples, pc, append, appended>>
  BY <1>1 DEF Counted, Taken
\* An epoch starts without samples.
<1>2. CASE session_samples' = 0 /\ session' \in Session /\ UNCHANGED appended
  <2>1. PICK s \in Session, e \in {epoch'} : s = session'
    BY <1>2
  <2>2. Cardinality(Taken(session, epoch)') = Cardinality(Taken(s, e))
    BY <1>2, <2>1 DEF Taken
  <2>3. Cardinality(Taken(s, e)) \in Nat
    BY TakenIsFinite
  <2> QED
    BY <1>2, <2>2, <2>3 DEF Counted
<1>3. CASE OpenEpoch
  BY <1>2, <1>3, EpochTypes DEF OpenEpoch, BeginNewEpoch, history
<1>4. CASE Crash
  BY <1>2, <1>4 DEF Crash, history
<1>5. CASE AgentDisconnect \/ \E enabled \in BOOLEAN : SetRecording(enabled)
  BY <1>1, <1>5 DEF AgentDisconnect, SetRecording, epochs, loop, history
<1>6. ASSUME UNCHANGED <<session, epoch, session_samples, appended>>,
             pc' # "write", epoch_changed' => epoch_changed,
             pc' \in {"reopen", "append"} /\ epoch_changed' => pc \in {"reopen", "append"}
      PROVE  Counted'
  BY <1>6 DEF Counted, Taken
<1>7. CASE Open
  BY <1>6, <1>7 DEF Open, epochs, history
<1>8. CASE Snapshot \/ Reopen \/ Sleep
  BY <1>6, <1>8 DEF Snapshot, Reopen, Sleep, epochs, history
\* The frame is of the current epoch, or the counter is zero.
<1>9. CASE AppendFrame
  <2>1. /\ UNCHANGED <<session, epoch, epoch_changed, session_samples>>
        /\ pc = "append" /\ pc' = "write"
    BY <1>9 DEF AppendFrame, runtime, epochs
  <2>2. ASSUME NEW frame \in pending.frames, Write(frame) PROVE Counted'
    <3>1. recorder \in [session : Session, samples : Nat] /\ frame \in Frame
      BY <2>2 DEF Write, TypeOK, LoopOK
    <3>2. appended' = [appended EXCEPT ![recorder.session] = Append(appended[recorder.session], frame)]
      BY <2>2 DEF Write
    <3>3. /\ Cardinality(Taken(session, epoch)') \in Nat /\ n <= Cardinality(Taken(session, epoch)')
          /\ frame.epoch = epoch /\ recorder.session = session =>
               Cardinality(Taken(session, epoch)') = n + 1
      <4>1. PICK r \in Session, s \in Session, e \in {epoch} : r = recorder.session /\ s = session
        BY <1>0, <3>1
      <4>2. appended' = [appended EXCEPT ![r] = Append(appended[r], frame)]
        BY <3>2, <4>1
      <4>3. /\ Cardinality(Taken(s, e)') \in Nat /\ Cardinality(Taken(s, e)) <= Cardinality(Taken(s, e)')
            /\ frame.epoch = e /\ r = s => Cardinality(Taken(s, e)') = Cardinality(Taken(s, e)) + 1
        BY <3>1, <4>2, TakenGrows
      <4>4. Taken(session, epoch)' = Taken(s, e)' /\ Taken(session, epoch) = Taken(s, e)
        BY <2>1, <4>1 DEF Taken
      <4> QED
        BY <4>1, <4>3, <4>4
    <3>4. CASE epoch_changed
      <4>1. session_samples' = 0
        BY <2>1, <3>4 DEF Counted
      <4> QED
        BY <2>1, <3>3, <4>1 DEF Counted
    <3>5. CASE ~epoch_changed
      <4>1. frame.epoch = epoch /\ recorder.session = session
        BY <2>1, <2>2, <3>5 DEF Stamped, Routed, Write
      <4>2. session_samples' <= Cardinality(Taken(session, epoch)')
        BY <1>0, <2>1, <3>3, <4>1 DEF Counted
      <4> QED
        BY <1>0, <2>1, <3>3, <4>2 DEF Counted
    <3> QED
      BY <3>4, <3>5
  <2>3. CASE UNCHANGED appended /\ append' # "written"
    BY <2>1, <2>3 DEF Counted, Taken
  <2> QED
    BY <1>9, <2>2, <2>3 DEF AppendFrame, AppendPending, FailToWrite
<1>10. CASE WriteBack
  <2>1. /\ UNCHANGED <<session, epoch, appended>> /\ pc = "write" /\ pc' = "hygiene"
        /\ session_samples' = session_samples + (IF append = "written" THEN 1 ELSE 0)
    BY <1>10 DEF WriteBack, epochs, history
  <2>2. Cardinality(Taken(session, epoch)') = n
    BY <2>1 DEF Taken
  <2>3. session_samples' <= n + 1
    BY <1>0, <2>1 DEF Counted
  <2> QED
    BY <2>1, <2>2, <2>3 DEF Counted
<1>11. CASE Compaction
  <2>1. UNCHANGED <<runtime, loop, appended>>
    BY <1>11 DEF Compaction, LearnRequest, AgentCompact, CompactRequest, AutoCompact, LearnBatch, Begin,
                 BatchCrash, List, ReadFrames, EndJob, Checksum, WriteDataset, WriteReceipt, DeleteRaw,
                 DeleteMeta, history
  <2> QED
    BY <1>1, <2>1 DEF runtime, epochs, loop
<1>12. CASE UNCHANGED vars
  BY <1>1, <1>12 DEF vars, runtime, epochs, loop, history
<1> QED
  BY <1>3, <1>4, <1>5, <1>7, <1>8, <1>9, <1>10, <1>11, <1>12 DEF Next, Request, Iterate

\* The sample counter, reset when an epoch is opened, counts no more than the frames of
\* that epoch and one that the loop appended before it saw the epoch
\* (model.rs:1007-1028, main.rs:537-625).
THEOREM CountsOneTooMany == Spec => []CountsAtMostOneTooMany
<1>1. Init => Routed /\ FramesInTheirFile /\ Stamped /\ Counted
  <2>1. ASSUME Init PROVE Counted
    <3>1. session_samples = 0 /\ session \in Session /\ TypeOK
      BY <2>1, InitialTypes DEF TypeOK, RuntimeOK, Init
    <3>2. Cardinality(Taken(session, epoch)) \in Nat
      BY <3>1, TakenIsFinite
    <3> QED
      BY <2>1, <3>1, <3>2 DEF Init, Counted
  <2>2. ASSUME Init PROVE Stamped
    BY <2>2 DEF Init, Stamped, NoPending
  <2> QED
    BY <2>1, <2>2, RoutedInitially
<1>2. /\ Routed /\ FramesInTheirFile /\ Stamped /\ Counted /\ TypeOK /\ [Next]_vars =>
           Routed' /\ FramesInTheirFile' /\ Stamped' /\ Counted'
      /\ Counted => CountsAtMostOneTooMany
  BY RoutedStep, StampedStep, CountedStep DEF Counted, CountsAtMostOneTooMany
<1> QED
  BY <1>1, <1>2, TypeCorrect, PTL DEF Spec
================================================================================
