---------------------------- MODULE FileWitness ----------------------------
(***************************************************************************)
(* FileWitnessLedger.observe (src/proofos/file_witness.py) in the namespace   *)
(* of one operation: a directory with one create-only file for each           *)
(* checkpoint version.  Several processes observe at once; one may die or fail  *)
(* between any two steps, and the power of the storage may fail, when what no    *)
(* barrier has forced to disk is kept or lost.                                 *)
(*                                                                         *)
(* The file system is external.  Used of it: creation with O_EXCL is atomic,   *)
(* fsync of a file forces its content to disk and fsync of a directory its       *)
(* entries, and a file that is not written to its end is not JSON.               *)
(***************************************************************************)
EXTENDS WitnessLedger

CONSTANTS MaxInterruptions, \* bound on the deaths and failures of writers
          MaxPowerFailures  \* bound on the failures of the storage's power

ASSUME FileWitnessAssumption == MaxInterruptions \in Nat /\ MaxPowerFailures \in Nat

VARIABLES files,         \* checkpoint version -> file, for the files there are
          writer,        \* per writer, the observe() it is executing
          answers,       \* the records observe() returned, and how it had them
          interruptions,
          powerFailures,
          namespace      \* the directory in the ledger's root: not forced to disk,
                         \* kept by a power failure, or once lost in one

filesVars == <<files, writer, answers, observations, interruptions, powerFailures, namespace>>
counted == <<observations, interruptions, powerFailures, namespace>>

\* A file: its record, whether it is written to its end, whether its content
\* and its directory entry are on disk.
NewFile(record) == [record |-> record, written |-> FALSE, synced |-> FALSE, entered |-> FALSE]

\* A writer: where it is, for which of its readings of the history, what it
\* observes, the entries it listed, and the record it creates or was answered.
IdleWriter == [at |-> "idle", reading |-> "none", envelope |-> NoEnvelope, stamp |-> 0,
               listed |-> {}, record |-> << >>]

FilesInit ==
    /\ files = << >>
    /\ writer = [w \in Writers |-> IdleWriter]
    /\ answers = {}
    /\ observations = 0 /\ interruptions = 0 /\ powerFailures = 0 /\ namespace = "unforced"

WriterAt(w, place) == writer[w].at = place
WriterBecomes(w, state) == writer' = [writer EXCEPT ![w] = state]
WriterGoes(w, place) == WriterBecomes(w, [writer[w] EXCEPT !.at = place])

\* observe() returns the record.
WriterReturns(w, record, how) ==
    /\ answers' = answers \cup {[record |-> record, how |-> how]}
    /\ WriterBecomes(w, IdleWriter)

-----------------------------------------------------------------------------
(* history(): the directory is listed, then the files listed are read.       *)

Reads(w, reading) == WriterBecomes(w, [writer[w] EXCEPT !.at = "list", !.reading = reading])

List(w) ==
    /\ WriterAt(w, "list")
    /\ WriterBecomes(w, [writer[w] EXCEPT !.at = "read", !.listed = DOMAIN files])
    /\ UNCHANGED <<files, answers, counted>>

\* What is listed can be read and is one chain, else WitnessIntegrityError.
Readable(listed) ==
    /\ listed = 1..Cardinality(listed)
    /\ \A version \in listed : files[version].written
    /\ VerifyRecords([version \in 1..Cardinality(listed) |-> files[version].record])

\* The history read: the last record listed.
History(listed) == IF listed = {} THEN << >> ELSE files[Cardinality(listed)].record

HasRead(w, reading) == WriterAt(w, "read") /\ writer[w].reading = reading /\ Readable(writer[w].listed)
HistoryOf(w) == History(writer[w].listed)

Unreadable(w) ==
    /\ WriterAt(w, "read") /\ ~ Readable(writer[w].listed)
    /\ WriterBecomes(w, IdleWriter)
    /\ UNCHANGED <<files, answers, counted>>

-----------------------------------------------------------------------------
(* observe(), of an envelope that verifies, not before it was issued.        *)

ObserveFile(w, envelope, stamp) ==
    /\ WriterAt(w, "idle") /\ stamp >= envelope.issued
    /\ observations < MaxObservations /\ observations' = observations + 1
    /\ WriterBecomes(w, [IdleWriter EXCEPT !.at = "list", !.reading = "before",
                                          !.envelope = envelope, !.stamp = stamp])
    /\ UNCHANGED <<files, answers, interruptions, powerFailures, namespace>>

\* _validate_next refuses: signer drift, another execution, rollback,
\* equivocation or a gap.
Refuse(w) ==
    /\ HasRead(w, "before")
    /\ ~ Follows(writer[w].envelope, HistoryOf(w))
    /\ ~ Replays(writer[w].envelope, HistoryOf(w))
    /\ WriterBecomes(w, IdleWriter)
    /\ UNCHANGED <<files, answers, counted>>

Replay(w) ==
    /\ HasRead(w, "before") /\ Replays(writer[w].envelope, HistoryOf(w))
    /\ WriterReturns(w, HistoryOf(w), "replayed")
    /\ UNCHANGED <<files, counted>>

Prepare(w) ==
    /\ HasRead(w, "before") /\ Follows(writer[w].envelope, HistoryOf(w))
    /\ WriterBecomes(w, [writer[w] EXCEPT
                           !.at = "create",
                           !.record = Append(HistoryOf(w),
                                             Observation(writer[w].envelope, writer[w].stamp))])
    /\ UNCHANGED <<files, answers, counted>>

-----------------------------------------------------------------------------
(* _create: the file of the version, created by one writer only, written and  *)
(* forced to disk, then its directory.                                        *)

FileVersion(w) == Latest(writer[w].record).version

With(version, file) ==
    [v \in DOMAIN files \cup {version} |-> IF v = version THEN file ELSE files[v]]

Create(w) ==
    /\ WriterAt(w, "create") /\ FileVersion(w) \notin DOMAIN files
    /\ files' = With(FileVersion(w), NewFile(writer[w].record))
    /\ WriterGoes(w, "write")
    /\ UNCHANGED <<answers, counted>>

\* Variant for the mutation checks: the version exists, so it is recorded.
LosesRaceContent(w) ==
    /\ WriterAt(w, "create") /\ FileVersion(w) \in DOMAIN files
    /\ WriterReturns(w, writer[w].record, "raced")
    /\ UNCHANGED <<files, counted>>

\* FileExistsError: another writer won; the history is read again.
LosesRace(w) ==
    /\ WriterAt(w, "create") /\ FileVersion(w) \in DOMAIN files
    /\ Reads(w, "race")
    /\ UNCHANGED <<files, answers, counted>>

Write(w) ==
    /\ WriterAt(w, "write")
    /\ files' = [files EXCEPT ![FileVersion(w)].written = TRUE]
    /\ WriterGoes(w, "fsync")
    /\ UNCHANGED <<answers, counted>>

SyncFile(w) ==
    /\ WriterAt(w, "fsync")
    /\ files' = [files EXCEPT ![FileVersion(w)].synced = TRUE]
    /\ WriterGoes(w, "fsync_directory")
    /\ UNCHANGED <<answers, counted>>

\* Variant for the mutation checks: the directory is not forced to disk.
SkipDirectory(w) ==
    /\ WriterAt(w, "fsync_directory")
    /\ Reads(w, "after")
    /\ UNCHANGED <<files, answers, counted>>

\* _fsync_directory: the operation's directory.
SyncDirectory(w) ==
    /\ WriterAt(w, "fsync_directory")
    /\ files' = [version \in DOMAIN files |-> [files[version] EXCEPT !.entered = TRUE]]
    /\ Reads(w, "after")
    /\ UNCHANGED <<answers, counted>>

-----------------------------------------------------------------------------
\* After a lost race only the very same record is accepted.
SameRecord(w) == FileVersion(w) \in writer[w].listed /\ files[FileVersion(w)].record = writer[w].record

AcceptRace(w) ==
    /\ HasRead(w, "race") /\ SameRecord(w)
    /\ Reads(w, "after_race")
    /\ UNCHANGED <<files, answers, counted>>

Equivocation(w) ==
    /\ HasRead(w, "race") /\ ~ SameRecord(w)
    /\ WriterBecomes(w, IdleWriter)
    /\ UNCHANGED <<files, answers, counted>>

\* Read after write: the record is the last one stored.
Succeed(w) ==
    /\ \/ HasRead(w, "after") /\ WriterReturns(w, writer[w].record, "created")
       \/ HasRead(w, "after_race") /\ WriterReturns(w, writer[w].record, "raced")
    /\ HistoryOf(w) = writer[w].record
    /\ UNCHANGED <<files, counted>>

\* "witness write did not round-trip exactly": another writer was faster.
NoRoundTrip(w) ==
    /\ HasRead(w, "after") \/ HasRead(w, "after_race")
    /\ HistoryOf(w) # writer[w].record
    /\ WriterBecomes(w, IdleWriter)
    /\ UNCHANGED <<files, answers, counted>>

-----------------------------------------------------------------------------
\* The process of a writer dies, or a write or a barrier raises.
Interrupt(w) ==
    /\ ~ WriterAt(w, "idle") /\ interruptions < MaxInterruptions
    /\ interruptions' = interruptions + 1
    /\ WriterBecomes(w, IdleWriter)
    /\ UNCHANGED <<files, answers, observations, powerFailures, namespace>>

\* What is on disk afterwards, of these versions, of which some are torn.
Remaining(versions, torn) ==
    [version \in versions |->
        [files[version] EXCEPT !.written = @ /\ version \notin torn,
                               !.synced = TRUE, !.entered = TRUE]]

\* An entry and a content that no barrier forced to disk are kept or lost, and
\* so is the directory itself: nothing forces the ledger's root.
PowerFails ==
    /\ powerFailures < MaxPowerFailures /\ powerFailures' = powerFailures + 1
    /\ \/ /\ \E versions \in SUBSET DOMAIN files : \E torn \in SUBSET versions :
                /\ \A v \in DOMAIN files : files[v].entered => v \in versions
                /\ \A v \in torn : ~ files[v].synced
                /\ files' = Remaining(versions, torn)
          /\ namespace' = IF files # << >> /\ namespace = "unforced" THEN "kept" ELSE namespace
       \/ files # << >> /\ namespace # "kept"
          /\ files' = << >> /\ namespace' = "lost"
    /\ writer' = [w \in Writers |-> IdleWriter]
    /\ UNCHANGED <<answers, observations, interruptions>>

FilesNext ==
    \/ \E w \in Writers :
          \/ \E envelope \in Envelopes, stamp \in Stamps : ObserveFile(w, envelope, stamp)
          \/ List(w) \/ Unreadable(w) \/ Refuse(w) \/ Replay(w) \/ Prepare(w)
          \/ Create(w) \/ LosesRace(w) \/ Write(w) \/ SyncFile(w) \/ SyncDirectory(w)
          \/ AcceptRace(w) \/ Equivocation(w) \/ Succeed(w) \/ NoRoundTrip(w)
          \/ Interrupt(w)
    \/ PowerFails

FilesSpec == FilesInit /\ [][FilesNext]_filesVars

-----------------------------------------------------------------------------
Records == Seq([envelope : Envelopes, stamp : Stamps])
Files == [record : Records \ {<< >>}, written : BOOLEAN, synced : BOOLEAN, entered : BOOLEAN]
Places == {"idle", "list", "read", "create", "write", "fsync", "fsync_directory"}
Readings == {"none", "before", "race", "after", "after_race"}

FilesTypeOK ==
    /\ DOMAIN files \subseteq Nat \ {0} /\ \A version \in DOMAIN files : files[version] \in Files
    /\ writer \in [Writers -> [at : Places, reading : Readings,
                               envelope : Envelopes \cup {NoEnvelope}, stamp : Stamps \cup {0},
                               listed : SUBSET Nat, record : Records]]
    /\ answers \subseteq [record : Records \ {<< >>}, how : {"created", "replayed", "raced"}]
    /\ observations \in 0..MaxObservations
    /\ interruptions \in 0..MaxInterruptions /\ powerFailures \in 0..MaxPowerFailures
    /\ namespace \in {"unforced", "kept", "lost"}

\* A record whose writer passed the barriers is never forgotten: a later reader
\* is given a history that has it, or an error, and no history without it; and the
\* error only while a file is being written, or after a death or a failure.
CreatedIsNeverForgotten ==
    /\ namespace # "lost" /\ Readable(DOMAIN files) =>
          \A a \in answers : a.how = "created" => Extends(a.record, History(DOMAIN files))
    /\ Readable(DOMAIN files) \/ interruptions > 0 \/ powerFailures > 0
          \/ \E w \in Writers : WriterAt(w, "write")

\* The files of the longest readable prefix are the history of a witness.
Stored ==
    History({version \in DOMAIN files : 1..version \subseteq DOMAIN files /\ Readable(1..version)})

FilesPromise == INSTANCE WitnessHistory
                  WITH history <- Stored, answered <- {a.record : a \in answers}

FilesImplementWitnessHistory == FilesPromise!Spec
=============================================================================
