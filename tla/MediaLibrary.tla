---------------------------- MODULE MediaLibrary ----------------------------
(***************************************************************************)
(* The media of the devices: objects under the prefix media-logs/ of the    *)
(* bucket, rows of media_logs that refer to them, and the optical-flow jobs *)
(* a worker outside this program answers with a second object.  Objects and *)
(* rows are written, checked and deleted by separate awaited calls of       *)
(* confirmUpload, MediaLogsConsumer, requestOpticalFlowAnalysis,            *)
(* OpticalFlowResultConsumer, deleteGenericFile and the sweep               *)
(* cleanupOrphanedFiles.  Each action ends at the next awaited call.        *)
(***************************************************************************)
EXTENDS Integers, Sequences, FiniteSets

CONSTANTS
    Keys,             \* keys of uploaded files, numbers in the order of the listing
    PageSize,         \* objects a listing returns (1000 in S3)
    MaxRows,          \* bound: rows of media_logs
    MaxJobs,          \* bound: optical-flow jobs, their outputs are keys too
    MaxPuts,          \* bound: objects written by devices
    MaxMediaFaults,   \* bound: failing database, storage or Kafka calls
    MaxMediaCrashes   \* bound: process crashes

ASSUME MediaAssumption ==
    /\ Keys \subseteq Nat \ {0} /\ IsFiniteSet(Keys)
    /\ PageSize \in Nat \ {0} /\ MaxRows \in Nat /\ MaxJobs \in Nat
    /\ MaxPuts \in Nat /\ MaxMediaFaults \in Nat /\ MaxMediaCrashes \in Nat

VARIABLES
    objects,     \* keys of the bucket that hold an object
    old,         \* the objects that are older than 24 hours
    rows,        \* rows of media_logs, in the order they were inserted
    confirm,     \* key of the row a confirmation or an upload is about to save
    sweep,       \* the sweep in progress
    deleter,     \* the deleteGenericFile request in progress
    analyzer,    \* the requestOpticalFlowAnalysis call in progress
    jobs,        \* jobs[n]: the row of job n
    open,        \* jobs the worker has not answered yet
    results,     \* results the worker published and nobody has read
    reader,      \* the handleMessage call of the result consumer
    torn,        \* keys whose object was lost to a race this model names
    strayed,     \* rows whose job or result was lost to a fault or a crash
    puts, mediaFaults, mediaCrashes

mediaVars == <<objects, old, rows, confirm, sweep, deleter, analyzer, jobs, open,
          results, reader, torn, strayed, puts, mediaFaults, mediaCrashes>>
fileVars == <<confirm, puts>>
flowVars == <<analyzer, jobs, open, results, reader, strayed>>
faultVars == <<mediaFaults, mediaCrashes>>

-----------------------------------------------------------------------------
None == 0
Outputs == {100 + n : n \in 1..MaxJobs}
AllKeys == Keys \cup Outputs

\* processingStatus; "none" is NULL.
ProcessingStatuses == {"none", "pending", "completed", "failed"}

\* A row: its s3Key, processedS3Key, processingStatus and deletedAt.
MediaLog == [key : Keys, out : Outputs \cup {None}, status : ProcessingStatuses,
             deleted : BOOLEAN]

\* A call that holds a copy of a row it read before.
Copies == {<<>>} \cup (MediaLog \X (1..MaxRows))
NoCopy == <<>>

Result == [job : 1..MaxJobs, ok : BOOLEAN]
NoSweep == [todo |-> {}, key |-> None, free |-> FALSE, on |-> FALSE]

Refers(r) == {rows[r].key, rows[r].out} \ {None}

\* The rows a find sees: a soft-deleted row is hidden.
Live == {r \in DOMAIN rows : ~rows[r].deleted}
Referenced == UNION {Refers(r) : r \in Live}

MediaTypeOK ==
    /\ old \subseteq objects /\ objects \subseteq AllKeys
    /\ rows \in Seq(MediaLog) /\ Len(rows) <= MaxRows
    /\ confirm \in Keys \cup {None}
    /\ sweep \in [todo : SUBSET AllKeys, key : AllKeys \cup {None},
                 free : BOOLEAN, on : BOOLEAN]
    /\ ~sweep.on => sweep = NoSweep
    /\ deleter \in [copy : Copies, next : {"key", "out", "row"}]
    /\ analyzer \in [copy : Copies, pc : {"read", "saved", "failed"}]
    /\ jobs \in Seq(1..MaxRows) /\ Len(jobs) <= MaxJobs
    /\ open \subseteq DOMAIN jobs /\ results \subseteq Result
    /\ reader \in [copy : Copies, result : [job : Nat \ {0}, ok : BOOLEAN]]
    /\ torn \subseteq AllKeys /\ strayed \subseteq DOMAIN rows
    /\ puts \in 0..MaxPuts
    /\ mediaFaults \in 0..MaxMediaFaults /\ mediaCrashes \in 0..MaxMediaCrashes

NoDelete == [copy |-> NoCopy, next |-> "key"]
NoAnalysis == [copy |-> NoCopy, pc |-> "read"]
NoReader == [copy |-> NoCopy, result |-> [job |-> 1, ok |-> FALSE]]

MediaInit ==
    /\ objects = {} /\ old = {} /\ rows = <<>>
    /\ confirm = None /\ sweep = NoSweep
    /\ deleter = NoDelete /\ analyzer = NoAnalysis /\ reader = NoReader
    /\ jobs = <<>> /\ open = {} /\ results = {}
    /\ torn = {} /\ strayed = {}
    /\ puts = 0 /\ mediaFaults = 0 /\ mediaCrashes = 0

MediaFault == mediaFaults < MaxMediaFaults /\ mediaFaults' = mediaFaults + 1

Put(k) == objects' = objects \cup {k} /\ old' = old \ {k}
Drop(K) == objects' = objects \ K /\ old' = old \ K

-----------------------------------------------------------------------------
(* Uploads. *)

\* A device asks for a presigned URL (requestUploadUrl) and PUTs its file there.
\* The file name may come from the request, so a key can be written again.
RequestUploadUrl(k) ==
    /\ puts < MaxPuts
    /\ puts' = puts + 1
    /\ Put(k)
    /\ UNCHANGED <<rows, confirm, sweep, deleter, flowVars, torn, faultVars>>

\* MediaLogsConsumer decodes an MQTT upload and PUTs it under a new key.
UploadRaw(k) ==
    /\ confirm = None /\ puts < MaxPuts
    /\ k \notin objects /\ \A r \in DOMAIN rows : rows[r].key /= k
    /\ puts' = puts + 1 /\ confirm' = k
    /\ Put(k)
    /\ UNCHANGED <<rows, sweep, deleter, flowVars, torn, faultVars>>

\* confirmUpload: HeadObject finds a file of an acceptable size ...
ConfirmHead(k) ==
    /\ confirm = None /\ k \in objects
    /\ confirm' = k
    /\ UNCHANGED <<objects, old, rows, sweep, deleter, flowVars, torn, puts, faultVars>>

\* ... or one over the limit of the media type of the request, and deletes it.
ConfirmRefused(k) ==
    /\ confirm = None /\ k \in objects
    /\ Drop({k})
    /\ torn' = torn \cup ({k} \cap Referenced)
    /\ UNCHANGED <<rows, sweep, deleter, flowVars, fileVars, faultVars>>

\* The INSERT of confirmUpload and of MediaLogsConsumer.  The file may be gone
\* since it was checked.
SaveLog ==
    /\ confirm /= None /\ confirm' = None
    /\ \/ /\ Len(rows) < MaxRows
          /\ rows' = Append(rows, [key |-> confirm, out |-> None, status |-> "none",
                                   deleted |-> FALSE])
          /\ torn' = torn \cup ({confirm} \ objects)
          /\ UNCHANGED mediaFaults
       \/ MediaFault /\ UNCHANGED <<rows, torn>>
    /\ UNCHANGED <<objects, old, sweep, deleter, flowVars, puts, mediaCrashes>>

-----------------------------------------------------------------------------
(* StorageService.deleteGenericFile: read the row, delete the raw object, then
   the processed one (an error of either is swallowed), soft-remove the row. *)
DeleteRead(r) ==
    /\ deleter = NoDelete
    /\ deleter' = [copy |-> <<rows[r], r>>, next |-> "key"]
    /\ UNCHANGED <<objects, old, rows, sweep, flowVars, fileVars, torn, faultVars>>

OthersRefer(r) == UNION {Refers(s) : s \in Live \ {r}}

\* One deleteS3: the object the copy names, whatever the row says by now.  A
\* key that is null is passed over.
DeleteObject ==
    /\ deleter.copy /= NoCopy /\ deleter.next /= "row"
    /\ LET log == deleter.copy[1]
           key == log[deleter.next] IN
       /\ \/ /\ Drop({key})
             /\ torn' = torn \cup ({key} \cap OthersRefer(deleter.copy[2]))
             /\ UNCHANGED mediaFaults
          \/ MediaFault /\ UNCHANGED <<objects, old, torn>>
       /\ deleter' = [deleter EXCEPT !.next =
                         IF @ = "key" /\ log.out /= None THEN "out" ELSE "row"]
    /\ UNCHANGED <<rows, sweep, flowVars, fileVars, mediaCrashes>>

DeleteRow ==
    /\ deleter.next = "row"
    /\ deleter' = NoDelete
    /\ LET r == deleter.copy[2] IN
       \/ rows' = [rows EXCEPT ![r].deleted = TRUE] /\ UNCHANGED <<torn, mediaFaults>>
       \/ MediaFault /\ torn' = torn \cup Refers(r) /\ UNCHANGED rows
    /\ UNCHANGED <<objects, old, sweep, flowVars, fileVars, mediaCrashes>>

-----------------------------------------------------------------------------
(* cleanupOrphanedFiles.  One listing, then a lookup and a DELETE per key. *)

\* ListObjectsV2 without a continuation token: the first page of the prefix.
FirstPage == {k \in objects : Cardinality({j \in objects : j < k}) < PageSize}

SweepList ==
    /\ ~sweep.on
    /\ sweep' = [todo |-> FirstPage \cap old, key |-> None, free |-> FALSE, on |-> TRUE]
    /\ UNCHANGED <<objects, old, rows, deleter, flowVars, fileVars, torn, faultVars>>

\* Mutant of HasRecord: the lookup by s3Key alone, which the comment warns of.
HasRecordRaw(k) == \E r \in Live : rows[r].key = k

\* Mutant of HasRecord: the lookup sees soft-deleted rows too.
HasRecordEver(k) == \E r \in DOMAIN rows : rows[r].key = k \/ rows[r].out = k

HasRecord(k) == \E r \in Live : rows[r].key = k \/ rows[r].out = k

SweepLookup(k) ==
    /\ sweep.on /\ sweep.key = None /\ k \in sweep.todo
    /\ sweep' = [sweep EXCEPT !.todo = @ \ {k},
                              !.key = IF HasRecord(k) THEN None ELSE k,
                              !.free = k \notin Referenced]
    /\ UNCHANGED <<objects, old, rows, deleter, flowVars, fileVars, torn, faultVars>>

\* The DELETE.  A row that refers to the key was inserted after the lookup.
SweepDelete ==
    /\ sweep.key /= None
    /\ Drop({sweep.key})
    /\ torn' = IF sweep.free THEN torn \cup ({sweep.key} \cap Referenced) ELSE torn
    /\ sweep' = [sweep EXCEPT !.key = None, !.free = FALSE]
    /\ UNCHANGED <<rows, deleter, flowVars, fileVars, faultVars>>

\* The end of the loop, or an error that ends the sweep where it is.
SweepEnd ==
    /\ sweep.on
    /\ \/ sweep.todo = {} /\ sweep.key = None /\ UNCHANGED mediaFaults
       \/ MediaFault
    /\ sweep' = NoSweep
    /\ UNCHANGED <<objects, old, rows, deleter, flowVars, fileVars, torn, mediaCrashes>>

\* A day passes.
Age ==
    /\ old /= objects
    /\ old' = objects
    /\ UNCHANGED <<objects, rows, confirm, sweep, deleter, flowVars, torn, puts, faultVars>>

-----------------------------------------------------------------------------
(* Optical flow.  save(copy) makes the row equal to the copy, whatever others
   wrote since it was read, a soft-delete included. *)
Save(copy, r) ==
    /\ rows' = [rows EXCEPT ![r] = copy]
    /\ torn' = torn \cup (({copy.key, copy.out} \ {None}) \ objects)

\* requestOpticalFlowAnalysis, by a user or right after a video was stored.
AnalyzeRead(r) ==
    /\ analyzer = NoAnalysis /\ Len(jobs) < MaxJobs
    /\ analyzer' = [copy |-> <<rows[r], r>>, pc |-> "read"]
    /\ UNCHANGED <<objects, old, rows, sweep, deleter, jobs, open, results, reader,
                   strayed, fileVars, torn, faultVars>>

AnalyzeSave ==
    /\ analyzer.copy /= NoCopy /\ analyzer.pc = "read"
    /\ LET pending == [analyzer.copy[1] EXCEPT !.status = "pending"] IN
       \/ /\ Save(pending, analyzer.copy[2])
          /\ analyzer' = [copy |-> <<pending, analyzer.copy[2]>>, pc |-> "saved"]
          /\ UNCHANGED mediaFaults
       \/ MediaFault /\ analyzer' = NoAnalysis /\ UNCHANGED <<rows, torn>>
    /\ UNCHANGED <<objects, old, sweep, deleter, jobs, open, results, reader,
                   strayed, fileVars, mediaCrashes>>

AnalyzeProduce ==
    /\ analyzer.pc = "saved"
    /\ \/ /\ jobs' = Append(jobs, analyzer.copy[2])
          /\ open' = open \cup {Len(jobs')}
          /\ analyzer' = NoAnalysis /\ UNCHANGED mediaFaults
       \/ /\ MediaFault /\ analyzer' = [analyzer EXCEPT !.pc = "failed"]
          /\ UNCHANGED <<jobs, open>>
    /\ UNCHANGED <<objects, old, rows, sweep, deleter, results, reader, strayed,
                   fileVars, torn, mediaCrashes>>

\* Mutant of AnalyzeFail: a failed produce is thrown without writing the row.
AnalyzeFailQuietly ==
    /\ analyzer.pc = "failed"
    /\ analyzer' = NoAnalysis
    /\ UNCHANGED <<objects, old, rows, sweep, deleter, jobs, open, results, reader,
                   strayed, fileVars, torn, faultVars>>

\* The produce failed: the copy is saved once more, now as failed.
AnalyzeFail ==
    /\ analyzer.pc = "failed"
    /\ analyzer' = NoAnalysis
    /\ \/ Save([analyzer.copy[1] EXCEPT !.status = "failed"], analyzer.copy[2])
          /\ UNCHANGED <<strayed, mediaFaults>>
       \/ /\ MediaFault /\ strayed' = strayed \cup {analyzer.copy[2]}
          /\ UNCHANGED <<rows, torn>>
    /\ UNCHANGED <<objects, old, sweep, deleter, jobs, open, results, reader,
                   fileVars, mediaCrashes>>

\* The worker stores its output and publishes the result.
WorkerAnswer(n, ok) ==
    /\ n \in open
    /\ open' = open \ {n}
    /\ results' = results \cup {[job |-> n, ok |-> ok]}
    /\ IF ok THEN Put(100 + n) ELSE UNCHANGED <<objects, old>>
    /\ UNCHANGED <<rows, sweep, deleter, analyzer, jobs, reader, strayed, fileVars,
                   torn, faultVars>>

\* OpticalFlowResultConsumer: the jobId of a result is the id of the row.  A
\* row that cannot be read or is gone ends in the log, without a dead letter.
ResultRead(res) ==
    /\ reader = NoReader /\ res \in results
    /\ results' = results \ {res}
    /\ LET r == jobs[res.job] IN
       \/ /\ r \in Live
          /\ reader' = [copy |-> <<rows[r], r>>, result |-> res]
          /\ UNCHANGED <<strayed, mediaFaults>>
       \/ r \notin Live /\ UNCHANGED <<reader, mediaFaults>> /\ strayed' = strayed \cup {r}
       \/ MediaFault /\ strayed' = strayed \cup {r} /\ UNCHANGED reader
    /\ UNCHANGED <<objects, old, rows, sweep, deleter, analyzer, jobs, open,
                   fileVars, torn, mediaCrashes>>

Answered(copy, res) ==
    IF res.ok THEN [copy EXCEPT !.status = "completed", !.out = 100 + res.job]
              ELSE [copy EXCEPT !.status = "failed"]

ResultSave ==
    /\ reader /= NoReader
    /\ reader' = NoReader
    /\ LET r == reader.copy[2] IN
       \/ /\ Save(Answered(reader.copy[1], reader.result), r)
          /\ UNCHANGED <<strayed, mediaFaults>>
       \/ MediaFault /\ strayed' = strayed \cup {r} /\ UNCHANGED <<rows, torn>>
    /\ UNCHANGED <<objects, old, sweep, deleter, analyzer, jobs, open, results,
                   fileVars, mediaCrashes>>

-----------------------------------------------------------------------------
\* The process dies: calls in progress are gone.  A restarted result consumer
\* without a committed offset leaves the results behind that it had not read.
MediaCrash ==
    /\ mediaCrashes < MaxMediaCrashes
    /\ mediaCrashes' = mediaCrashes + 1
    /\ confirm' = None /\ sweep' = NoSweep /\ deleter' = NoDelete
    /\ analyzer' = NoAnalysis /\ reader' = NoReader
    /\ torn' = IF deleter.copy = NoCopy THEN torn ELSE torn \cup Refers(deleter.copy[2])
    /\ \E unread \in {{}, results} :
          /\ results' = results \ unread
          /\ strayed' = strayed \cup {jobs[res.job] : res \in unread}
                \cup (IF analyzer = NoAnalysis THEN {} ELSE {analyzer.copy[2]})
                \cup (IF reader = NoReader THEN {} ELSE {reader.copy[2]})
    /\ UNCHANGED <<objects, old, rows, jobs, open, puts, mediaFaults>>

SweepStep == SweepList \/ SweepDelete \/ SweepEnd \/ \E k \in AllKeys : SweepLookup(k)

MediaNext ==
    \/ \E k \in Keys : \/ RequestUploadUrl(k) \/ UploadRaw(k)
                       \/ ConfirmHead(k) \/ ConfirmRefused(k)
    \/ SaveLog
    \/ \E r \in Live : DeleteRead(r) \/ AnalyzeRead(r)
    \/ DeleteObject \/ DeleteRow
    \/ SweepStep \/ Age
    \/ AnalyzeSave \/ AnalyzeProduce \/ AnalyzeFail
    \/ \E n \in 1..MaxJobs, ok \in BOOLEAN : WorkerAnswer(n, ok)
    \/ \E res \in results : ResultRead(res)
    \/ ResultSave \/ MediaCrash

\* setInterval starts the sweep again every day, its loop runs on, and time
\* passes.
Fairness == WF_mediaVars(SweepStep) /\ WF_mediaVars(Age)

MediaSpec == MediaInit /\ [][MediaNext]_mediaVars /\ Fairness

-----------------------------------------------------------------------------
\* What getStreamUrl signs leads to an object: the raw and the processed file
\* of a visible row exist, unless the row is being deleted or its object went
\* in one of the races: a row inserted after the lookup of the sweep
\* (media-logs.service.ts:547), a file that vanished between HeadObject and
\* INSERT, a refused second confirmation, a deletion of another row with the
\* same key or cut short, a copy saved over a deleted or newer row.
RowHasObject ==
    \A r \in Live : deleter.copy = NoCopy \/ deleter.copy[2] /= r =>
        Refers(r) \subseteq objects \cup torn

\* A row shows pending only while its job is on the way, being worked on or
\* answered, unless an error or a crash took the job or the result.
PendingHasAJob ==
    \A r \in Live : rows[r].status = "pending" =>
        \/ \E n \in open : jobs[n] = r
        \/ \E res \in results : jobs[res.job] = r
        \/ r \in {c[2] : c \in {analyzer.copy, reader.copy} \ {NoCopy}}
        \/ r \in strayed

\* An object nobody refers to, on the first page of the listing, is deleted or
\* taken into a row.
OrphanIsSwept ==
    \A k \in AllKeys : (k \in FirstPage \ Referenced) ~> (k \notin FirstPage \ Referenced)
=============================================================================
