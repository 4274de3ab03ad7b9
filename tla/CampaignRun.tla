------------------------------ MODULE CampaignRun ------------------------------
(***************************************************************************)
(* plant_campaign: a run's log (RunLogWriter: frames gathered, then        *)
(* compressed chunk by chunk), its summary (written aside and renamed), a  *)
(* kill or a failing write at any moment, and the campaign that starts     *)
(* again where it stopped; RunLogReader on what is left.                   *)
(*                                                                         *)
(* A frame is its number in its run; a chunk on the disk is whole or torn. *)
(***************************************************************************)
EXTENDS Naturals, SequencesExt

CONSTANTS
  Args,    \* the arguments a run may have
  Frames,  \* the most frames of a run, the Hello's included
  Chunk    \* kChunk, in frames

VARIABLES
  pc,       \* where main is; "idle" between two processes
  args,     \* the process's arguments
  made,     \* the frames written to the log so far
  raw,      \* RunLogWriter::raw_: frames not yet in a chunk
  chunks,   \* the chunks handed to the open file
  disk,     \* run.mmlog: [of: whose, chunks, torn, lost: a write of it failed]
  partial,  \* summary.json.partial
  summary   \* summary.json: [args, frames]

vars == <<pc, args, made, raw, chunks, disk, partial, summary>>

None == [args |-> "none", frames |-> 0]
Empty(a) == [of |-> a, chunks |-> <<>>, torn |-> FALSE, lost |-> FALSE]
Init ==
  /\ pc = "idle" /\ args \in Args /\ made = 0 /\ raw = <<>> /\ chunks = <<>>
  /\ disk = Empty("none") /\ partial = None /\ summary = None

-----------------------------------------------------------------------------
\* pending: a run is done if its summary was written for the same arguments.
Done(a) == summary.args = a

Start(a) ==
  /\ pc = "idle" /\ ~Done(a) /\ args' = a /\ pc' = "start"
  /\ UNCHANGED <<made, raw, chunks, disk, partial, summary>>

\* write: a frame is gathered; a full chunk goes to the file.
Written(r) == IF Len(r) >= Chunk THEN raw' = <<>> /\ chunks' = Append(chunks, r)
              ELSE raw' = r /\ UNCHANGED chunks

\* The writer truncates the file and writes the Hello.
Open ==
  /\ pc = "start" /\ pc' = "running" /\ made' = 1
  /\ IF Chunk = 1 THEN raw' = <<>> /\ chunks' = << <<1>> >> ELSE raw' = <<1>> /\ chunks' = <<>>
  /\ disk' = Empty(args)
  /\ UNCHANGED <<args, partial, summary>>

Cycle ==
  /\ pc = "running" /\ made < Frames
  /\ made' = made + 1 /\ Written(Append(raw, made + 1))
  /\ UNCHANGED <<pc, args, disk, partial, summary>>

\* The file system takes the chunks in order, at any time. After a write that
\* fails the stream takes nothing more, the chunk may be torn, and nobody looks.
Passed(handed, n) == [disk EXCEPT !.chunks = SubSeq(handed, 1, n)]
Failed(d) == {[d EXCEPT !.lost = TRUE, !.torn = t] : t \in BOOLEAN}
Sync ==
  /\ pc # "idle" /\ ~disk.lost /\ Len(disk.chunks) < Len(chunks)
  /\ disk' \in {Passed(chunks, Len(disk.chunks) + 1)} \cup Failed(disk)
  /\ UNCHANGED <<pc, args, made, raw, chunks, partial, summary>>

\* ~RunLogWriter: what is left goes to the file, all of it unless a write fails
\* or zlib does, whose exception the destructor swallows.
Handed(r) == IF r = <<>> THEN chunks ELSE Append(chunks, r)
Closing(handed) ==
  IF disk.lost THEN {disk}
  ELSE {Passed(handed, Len(handed))} \cup
       UNION {Failed(Passed(handed, n)) : n \in Len(disk.chunks)..(Len(handed) - 1)}
CloseLog(r) ==
  /\ disk' \in Closing(Handed(r)) /\ raw' = <<>> /\ chunks' = <<>>
  /\ UNCHANGED <<args, made, partial, summary>>

\* Mutant: what no chunk holds yet is not written.
CloseWithoutFlush == pc = "running" /\ pc' = "closed" /\ CloseLog(<<>>)

\* The session ends: its log is closed before the summary, well or not.
Close == pc = "running" /\ pc' = "closed" /\ CloseLog(raw)

WritePartial ==
  /\ pc = "closed" /\ pc' = "partial" /\ partial' = [args |-> args, frames |-> made]
  /\ UNCHANGED <<args, made, raw, chunks, disk, summary>>

Rename ==
  /\ pc = "partial" /\ pc' = "idle" /\ summary' = partial /\ partial' = None
  /\ UNCHANGED <<args, made, raw, chunks, disk>>

\* A cycle throws, or zlib does when a frame is written: the session is unwound
\* and its log closed, without a summary.
Throws ==
  /\ pc = "running" /\ pc' = "idle"
  /\ \E r \in {raw, Append(raw, made + 1)} : CloseLog(r)

\* The log or the partial summary cannot be written, or not be renamed.
Refused ==
  /\ pc \in {"start", "closed", "partial"} /\ pc' = "idle"
  /\ UNCHANGED <<args, made, raw, chunks, disk, partial, summary>>

\* A kill: the chunk that was being written may be torn.
Kill ==
  /\ pc # "idle" /\ pc' = "idle" /\ raw' = <<>> /\ chunks' = <<>>
  /\ \E torn \in BOOLEAN :
       /\ torn => ~disk.lost /\ Len(disk.chunks) < Len(chunks)
       /\ disk' = [disk EXCEPT !.torn = @ \/ torn]
  /\ UNCHANGED <<args, made, partial, summary>>

-----------------------------------------------------------------------------
Next == (\E a \in Args : Start(a)) \/ Open \/ Cycle \/ Sync \/ Close \/ WritePartial \/ Rename
  \/ Throws \/ Refused \/ Kill
Spec == Init /\ [][Next]_vars

-----------------------------------------------------------------------------
\* RunLogReader: the frames of the chunks that are whole, and how it ends.
ReadFrames == FlattenSeq(disk.chunks)
ReadEnds == IF ReadFrames = <<>> THEN "no header" ELSE IF disk.torn THEN "truncated chunk" ELSE "end"

\* Every variable keeps its range.
TypeOK ==
  /\ pc \in {"idle", "start", "running", "closed", "partial"} /\ args \in Args
  /\ made \in 0..Frames /\ Len(raw) < Chunk /\ {disk.torn, disk.lost} \subseteq BOOLEAN
  /\ {partial.args, summary.args, disk.of} \subseteq Args \cup {"none"}

\* "the run log is closed before the summary marks the run done"
\* (plant_campaign.cpp): a log that lies beside a summary of the same arguments
\* and is not being written is whole, whenever the runs were killed, unless a
\* write of that log failed.
SummaryMeansWholeLog ==
  LET written == pc # "idle" /\ args = summary.args
  IN summary # None /\ disk.of = summary.args /\ ~written /\ ~disk.lost =>
       /\ ReadFrames = [k \in 1..summary.frames |-> k]
       /\ ReadEnds = "end"

\* A run that is taken for done has its whole log, its writes' failures
\* included, which nothing in the writer reports (run_log.cpp:41-47, 65, 73).
DoneRunsLostNothing == \A a \in Args : pc = "idle" /\ Done(a) /\ disk.of = a => ~disk.lost

\* What a reader gets of a log that was cut off, by a kill or by a write that
\* failed, are the run's first frames, in order and without a gap
\* (RunLogReader::next).
ReadsAPrefix == ReadFrames = [k \in 1..Len(ReadFrames) |-> k]

\* A campaign that takes a run for done finds that run's own log beside the
\* summary ("the runs not yet done under out_dir", plant_campaign.py).
DoneRunsKeepTheirLog == \A a \in Args : pc = "idle" /\ Done(a) => disk.of = a
=============================================================================
