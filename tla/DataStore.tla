------------------------------ MODULE DataStore ------------------------------
(***************************************************************************)
(* The files of a run: DataStore in grand-daq/src/data_store.cpp.          *)
(*                                                                         *)
(* A stream ("L1": records as the DUs sent them; "CD": events) is written  *)
(* to a sequence of shards, RUN<run>...-<id>.dat.  A shard starts with a   *)
(* header, gets the time of its closing patched into that header, and is   *)
(* followed by the next one when it is full: L1 once it has passed the     *)
(* size limit, CD before an event that would pass it, or when it holds     *)
(* max_event_number_saved event keys.                                      *)
(*                                                                         *)
(* All methods run under one mutex: one action is one outcome of a call.   *)
(* A call fails at most at one place, where the system's functions may.    *)
(* A write that fails leaves a part of the record in the file, and the     *)
(* counter current_written behind; the file goes on being written.         *)
(*                                                                         *)
(* Abstractions.  The fragments of an event have one size.  A record is    *)
(* the name of its event.  "disk" is what was handed to stdio: a shard     *)
(* without the time of its closing may lack its end after a crash.  How    *)
(* much of a header was written when that fails is left out: nothing comes *)
(* after it.  Counts of failures and rotations, names and times are left   *)
(* out, and so are the modes without CD data (daqMode 1 and 4).            *)
(***************************************************************************)
EXTENDS Integers, Sequences, FiniteSets

CONSTANTS
  Events,              \* completed events: 1 .. number
  EventKey,            \* event -> event_key, the Builder's tag
  Fragments,           \* event -> fragments with a payload
  RecordSize,          \* event -> bytes of each of its records
  RawSize,             \* bytes of an L1 record
  HeadSize,            \* kFileHeadSize
  MaxFileSize,         \* max_file_size_bytes, 0: no limit (app.cpp: whole MiB)
  MaxEventNumberSaved, \* max_event_number_saved, 0: no limit
  DaqMode,             \* daq_mode, 2: CD only, 3: L1 and CD
  Matching,            \* streams whose names the scan of open() finds
  MaxRaws, MaxFaults   \* bounds of the model: L1 records, failing calls

ASSUME StoreConstants ==
  /\ IsFiniteSet(Events) /\ Events \subseteq Nat \ {0}
  /\ Fragments \in [Events -> Nat] /\ RecordSize \in [Events -> Nat \ {0}]
  /\ DOMAIN EventKey = Events
  /\ RawSize \in Nat \ {0} /\ HeadSize \in Nat \ {0}
  /\ MaxFileSize \in Nat /\ (MaxFileSize = 0 \/ HeadSize <= MaxFileSize)
  /\ MaxEventNumberSaved \in Nat /\ DaqMode \in {2, 3}
  /\ Matching \subseteq {"L1", "CD"} /\ MaxRaws \in Nat /\ MaxFaults \in Nat

VARIABLES
  is_open,     \* is_open_
  run_number,  \* l1_run_number_, cd_run_number_
  fs,          \* stream -> FileState: l1_ and cd_
  disk,        \* all shards, in the order of their creation
  raws,        \* bound of the model: L1 records handed in
  faults,      \* bound of the model: calls that failed for the system
  saved,       \* history: events for which writeCdEvent returned true
  refused      \* history: events for which it returned false

storeVars == <<is_open, run_number, fs, disk, raws, faults, saved, refused>>

Streams == {"L1", "CD"}
Raw  == 0   \* an L1 record
Torn == -1  \* a record of which only a part was written

\* file: the shard that is open, 0 for a null FILE*
Closed == [file |-> 0, id |-> 0, written |-> 0, keys |-> {}]

StoreInit ==
  /\ is_open = FALSE
  /\ run_number = [k \in Streams |-> 0]
  /\ fs = [k \in Streams |-> Closed]
  /\ disk = <<>>
  /\ raws = 0 /\ faults = 0 /\ saved = {} /\ refused = {}

\* bytes: the size of the file; torn (history): how many of them were left
\* by writes that failed
Shard(k, run, id) ==
  [kind |-> k, run |-> run, id |-> id, recs |-> <<>>, bytes |-> HeadSize, torn |-> 0,
   stamped |-> FALSE]
Headless(k, run, id) == [Shard(k, run, id) EXCEPT !.bytes = 0]

\* patchFileCloseTimeLocked for a set of shards
Stamped(d, files) ==
  [i \in DOMAIN d |-> IF i \in files THEN [d[i] EXCEPT !.stamped = TRUE] ELSE d[i]]

Fault == faults < MaxFaults /\ faults' = faults + 1

\* At the end of an open shard: records of so many bytes
WithRecords(d, i, recs, bytes) ==
  [d EXCEPT ![i].recs = @ \o recs, ![i].bytes = @ + bytes]

\* ... and part of one more, possibly nothing
WithTorn(d, i, part) ==
  [d EXCEPT ![i].recs = IF part = 0 THEN @ ELSE Append(@, Torn),
            ![i].bytes = @ + part, ![i].torn = @ + part]

Parts(size) == 0..(size - 1)

-----------------------------------------------------------------------------
(***************************************************************************)
(* open and close                                                          *)
(***************************************************************************)
\* scanNextRunNumberLocked: only files whose name has "MD_" (L1) or "CD_"
RunsFound(k) == {disk[i].run : i \in {j \in DOMAIN disk : disk[j].kind = k /\ k \in Matching}}
FirstRun(k) == IF k = "CD" THEN 10001 ELSE 1

\* Mutant: the largest number is used again.
ScannedRunSame(k) ==
  IF RunsFound(k) = {} THEN FirstRun(k)
  ELSE CHOOSE m \in RunsFound(k) : \A n \in RunsFound(k) : n <= m

ScannedRun(k) ==
  IF RunsFound(k) = {} THEN FirstRun(k)
  ELSE 1 + CHOOSE m \in RunsFound(k) : \A n \in RunsFound(k) : n <= m

ScannedRuns == [k \in Streams |-> ScannedRun(k)]

\* openFilesLocked opens the streams in this order.
OpenOrder == IF DaqMode = 3 THEN <<"L1", "CD">> ELSE <<"CD">>
NewShards(n) == [i \in 1..n |-> Shard(OpenOrder[i], ScannedRun(OpenOrder[i]), 1)]

\* After close: every file of the store is shut and stamped.
OpenFiles == {fs[k].file : k \in Streams}
AfterClose == Stamped(disk, OpenFiles)

OpenSucceeds ==
  LET n == Len(OpenOrder) IN
  /\ run_number' = ScannedRuns
  /\ disk' = AfterClose \o NewShards(n)
  /\ fs' = [k \in Streams |->
       IF \E i \in 1..n : OpenOrder[i] = k
         THEN [file |-> Len(disk) + (CHOOSE i \in 1..n : OpenOrder[i] = k),
               id |-> 1, written |-> HeadSize, keys |-> {}]
         ELSE Closed]
  /\ is_open' = TRUE
  /\ UNCHANGED <<raws, faults, saved, refused>>

\* The directory cannot be created: nothing was scanned yet.
OpenFindsNoDirectory ==
  /\ Fault
  /\ disk' = AfterClose
  /\ fs' = [k \in Streams |-> Closed]
  /\ is_open' = FALSE
  /\ UNCHANGED <<run_number, raws, saved, refused>>

FailedOpen(i) ==
  [l \in Streams |-> IF \E j \in 1..i : OpenOrder[j] = l THEN [Closed EXCEPT !.id = 1] ELSE Closed]

\* Stream i fails in fopen, or in writing the header; the others are closed.
OpenFailsAt(i, created) ==
  LET k == OpenOrder[i]
      before == Stamped(NewShards(i - 1), 1..(i - 1))
      broken == IF created THEN <<Headless(k, ScannedRun(k), 1)>> ELSE <<>>
  IN
  /\ Fault
  /\ run_number' = ScannedRuns
  /\ disk' = AfterClose \o before \o broken
  /\ fs' = FailedOpen(i)
  /\ is_open' = FALSE
  /\ UNCHANGED <<raws, saved, refused>>

OpenFails ==
  OpenFindsNoDirectory \/ \E i \in 1..Len(OpenOrder), created \in BOOLEAN : OpenFailsAt(i, created)

\* close; the patch of one of the headers may fail
CloseStore ==
  /\ \E failing \in SUBSET (OpenFiles \ {0}) :
       /\ faults + Cardinality(failing) <= MaxFaults
       /\ faults' = faults + Cardinality(failing)
       /\ disk' = Stamped(disk, OpenFiles \ failing)
  /\ fs' = [k \in Streams |-> [fs[k] EXCEPT !.file = 0, !.written = 0]]
  /\ is_open' = FALSE
  /\ UNCHANGED <<run_number, raws, saved, refused>>

\* The process dies: the store is as new, the shards stay as they are.
CrashStore ==
  /\ is_open' = FALSE
  /\ run_number' = [k \in Streams |-> 0]
  /\ fs' = [k \in Streams |-> Closed]
  /\ UNCHANGED <<disk, raws, faults, saved, refused>>

-----------------------------------------------------------------------------
(***************************************************************************)
(* The next shard of a stream                                              *)
(***************************************************************************)
\* Mutant: the keys of the old shard stay.
RotatedStateKeepsKeys(k) ==
  [file |-> Len(disk) + 1, id |-> fs[k].id + 1, written |-> HeadSize, keys |-> fs[k].keys]

RotatedState(k) ==
  [file |-> Len(disk) + 1, id |-> fs[k].id + 1, written |-> HeadSize, keys |-> {}]
RotatedDisk(k) ==
  Append(Stamped(disk, {fs[k].file}), Shard(k, run_number[k], fs[k].id + 1))

\* closeFileLocked fails, or openFileLocked in fopen or in the header.
\* The stream is left without a file, and with its old keys.
RotationFails(k) ==
  /\ Fault
  /\ \/ /\ fs[k].file # 0
        /\ fs' = [fs EXCEPT ![k].file = 0, ![k].written = 0]
        /\ disk' \in {disk, Stamped(disk, {fs[k].file})}
     \/ /\ fs' = [fs EXCEPT ![k].file = 0, ![k].written = 0, ![k].id = @ + 1]
        /\ disk' = Stamped(disk, {fs[k].file})
     \/ /\ fs' = [fs EXCEPT ![k].file = 0, ![k].written = 0, ![k].id = @ + 1]
        /\ disk' = Append(Stamped(disk, {fs[k].file}),
                          Headless(k, run_number[k], fs[k].id + 1))

-----------------------------------------------------------------------------
(***************************************************************************)
(* writeRawRecord, in daqMode 3                                            *)
(***************************************************************************)
\* rotateIfNeededLocked: after the limit has been passed
RawRotates == MaxFileSize # 0 /\ fs["L1"].written > MaxFileSize

RawState == IF RawRotates THEN RotatedState("L1") ELSE fs["L1"]
RawDisk  == IF RawRotates THEN RotatedDisk("L1") ELSE disk

RawAccepted ==
  /\ is_open /\ DaqMode = 3 /\ fs["L1"].file # 0
  /\ raws < MaxRaws /\ raws' = raws + 1
  /\ UNCHANGED <<is_open, run_number, saved, refused>>

RawSaved ==
  /\ RawAccepted
  /\ fs' = [fs EXCEPT !["L1"] = [RawState EXCEPT !.written = @ + RawSize]]
  /\ disk' = WithRecords(RawDisk, RawState.file, <<Raw>>, RawSize)
  /\ UNCHANGED faults

RawTorn ==
  /\ RawAccepted /\ Fault
  /\ fs' = [fs EXCEPT !["L1"] = RawState]
  /\ \E part \in Parts(RawSize) : disk' = WithTorn(RawDisk, RawState.file, part)

RawRotationFails == RawAccepted /\ RawRotates /\ RotationFails("L1")

WriteRawRecord == RawSaved \/ RawTorn \/ RawRotationFails

-----------------------------------------------------------------------------
(***************************************************************************)
(* writeCdEvent                                                            *)
(***************************************************************************)
EventBytes(e) == Fragments[e] * RecordSize[e]

\* A new key, and the shard holds as many as it may
NumberRotates(e) ==
  /\ MaxEventNumberSaved # 0
  /\ EventKey[e] \notin fs["CD"].keys
  /\ Cardinality(fs["CD"].keys) >= MaxEventNumberSaved

TooLarge(e) == MaxFileSize # 0 /\ HeadSize + EventBytes(e) > MaxFileSize

\* preflightCdSizeLocked
SizeRotates(e) ==
  /\ MaxFileSize # 0 /\ fs["CD"].written > HeadSize
  /\ fs["CD"].written + EventBytes(e) > MaxFileSize

\* The event number is looked at first, and also for an event too large.
Rotates(e) == NumberRotates(e) \/ (~TooLarge(e) /\ SizeRotates(e))

ReadyState(e) == IF Rotates(e) THEN RotatedState("CD") ELSE fs["CD"]
ReadyDisk(e)  == IF Rotates(e) THEN RotatedDisk("CD") ELSE disk

Remembered(f, e) ==
  IF MaxEventNumberSaved # 0 THEN f.keys \cup {EventKey[e]} ELSE f.keys

Records(e, n) == [i \in 1..n |-> e]

\* Mutant: every record by itself; the first still fits into the old shard.
SavedDiskByRecord(e) ==
  LET bytes == RecordSize[e]
      first == WithRecords(disk, fs["CD"].file, <<e>>, bytes)
      n     == Fragments[e] - 1
  IN
  IF SizeRotates(e) /\ ~NumberRotates(e) /\ fs["CD"].written + bytes <= MaxFileSize
    THEN WithRecords(Append(first, Shard("CD", run_number["CD"], fs["CD"].id + 1)),
                     Len(disk) + 1, Records(e, n), n * bytes)
    ELSE WithRecords(ReadyDisk(e), ReadyState(e).file, Records(e, Fragments[e]), EventBytes(e))

SavedDisk(e) ==
  WithRecords(ReadyDisk(e), ReadyState(e).file, Records(e, Fragments[e]), EventBytes(e))

CdSaved(e) ==
  /\ is_open /\ ~TooLarge(e) /\ ReadyState(e).file # 0
  /\ fs' = [fs EXCEPT !["CD"] =
       [ReadyState(e) EXCEPT !.written = @ + EventBytes(e), !.keys = Remembered(ReadyState(e), e)]]
  /\ disk' = SavedDisk(e)
  /\ saved' = saved \cup {e}
  /\ UNCHANGED <<is_open, run_number, raws, faults, refused>>

Refused(e) ==
  /\ refused' = refused \cup {e}
  /\ UNCHANGED <<is_open, run_number, raws, saved>>

\* n records are written, and of the next one possibly a part.
CdTorn(e) ==
  /\ is_open /\ ~TooLarge(e) /\ ReadyState(e).file # 0
  /\ Fault
  /\ \E n \in 0..(Fragments[e] - 1), part \in Parts(RecordSize[e]) :
       /\ fs' = [fs EXCEPT !["CD"] = [ReadyState(e) EXCEPT !.written = @ + n * RecordSize[e]]]
       /\ disk' = WithTorn(WithRecords(ReadyDisk(e), ReadyState(e).file,
                                       Records(e, n), n * RecordSize[e]),
                           ReadyState(e).file, part)
  /\ Refused(e)

CdRotationFails(e) == is_open /\ Rotates(e) /\ RotationFails("CD") /\ Refused(e)

CdTooLarge(e) ==
  /\ is_open /\ TooLarge(e)
  /\ fs' = [fs EXCEPT !["CD"] = ReadyState(e)]
  /\ disk' = ReadyDisk(e)
  /\ Refused(e) /\ UNCHANGED faults

\* The store is closed, or an earlier rotation has left it without a file.
CdNoFile(e) ==
  /\ ~is_open \/ (~TooLarge(e) /\ ReadyState(e).file = 0)
  /\ Refused(e) /\ UNCHANGED <<fs, disk, faults>>

WriteCdEvent(e) ==
  CdSaved(e) \/ CdTorn(e) \/ CdRotationFails(e) \/ CdTooLarge(e) \/ CdNoFile(e)
=============================================================================
