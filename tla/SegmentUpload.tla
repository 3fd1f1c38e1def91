---------------------------- MODULE SegmentUpload ----------------------------
(***************************************************************************)
(* The heavy path: one run after another of ship_segments.py uploads       *)
(* clips part by part to the object store (segment_upload.py), with the    *)
(* gateway as control plane (SegmentUploadService.java), and leaves a      *)
(* reference to each whole object in the write-ahead log, the outbox.      *)
(*                                                                         *)
(* A run may die at any point; an RPC the gateway was serving goes on by   *)
(* itself, and a PUT may still reach the store.  A clip's content is its   *)
(* version: a part, its ETag and the checksum carry the version they were  *)
(* taken from.  Requests the gateway refuses for their form, and the       *)
(* vehicle's own key prefix, are left out; Delivery has what becomes of    *)
(* the log's records.                                                      *)
(***************************************************************************)
EXTENDS Integers, FiniteSets, FiniteSetsExt, Functions

CONSTANTS Clip,        \* MCAP files in the directory
          PartCount,   \* parts of a clip
          MaxSegs,     \* bound: segment ids the gateway issues
          MaxFaults,   \* bound: deaths of a run, and failures it sees
          MaxRewrites, \* bound: times a clip's file is written anew
          MaxAborts    \* bound: uploads given up

ASSUME UploadAssumption ==
  /\ IsFiniteSet(Clip) /\ PartCount \in Nat \ {0} /\ MaxSegs \in Nat
  /\ MaxFaults \in Nat /\ MaxRewrites \in Nat /\ MaxAborts \in Nat

VARIABLES
  \* The vehicle's disk.
  clip,       \* clip |-> version of its file
  intent,     \* segment |-> UploadState saved in uploads/<segment_id>.json
  wal,        \* seq |-> reference in the log
  safe,       \* seqs that were fsynced
  opened,     \* first seq of this run; what is below left the write buffer
  committed,  \* highest acknowledged seq
  \* The run.
  pc,         \* what it does next; "down" between two runs
  todo,       \* pending() as read at the start, less what was dealt with
  clips,      \* clips of this run still to be uploaded
  job,        \* the UploadState in memory
  \* The object store and the gateway.
  issued,     \* segment ids issued
  uploads,    \* segment |-> part |-> version, for open multipart uploads
  object,     \* segment |-> part |-> version, for whole objects
  sum,        \* segment |-> version of the sha256 in the object's metadata
  handlers,   \* calls of complete() the gateway is serving
  stray,      \* PUTs on their way whose run is gone
  \* Budgets of the bounds.
  faults, rewrites, aborts

log == <<wal, safe, opened, committed>>
disk == <<clip, intent, log>>
run == <<pc, todo, clips, job>>
store == <<issued, uploads, object, sum, handlers, stray>>
budget == <<faults, rewrites, aborts>>
vars == <<disk, run, store, budget>>

Segment == 1..MaxSegs
Part == 1..PartCount
Version == 0..MaxRewrites
NoPart == -1

NoJob == [seg |-> 0, clip |-> 0, parts |-> {}, verified |-> FALSE, meta |-> NoPart]
\* The state file has no copy of the clip's metadata.
Saved(j) == [j EXCEPT !.meta = NoPart]
Known == DOMAIN intent
Without(f, s) == [x \in DOMAIN f \ {s} |-> f[x]]
With(f, s, v) == [x \in DOMAIN f \cup {s} |-> IF x = s THEN v ELSE f[x]]

Seqs == DOMAIN wal
NextSeq == Max({committed} \cup Seqs) + 1

\* Parts the vehicle has an ETag of, as <<part, version>>.
Done(j) == {p[1] : p \in j.parts}
Missing(j) == Part \ Done(j)

------------------------------------------------------------------------------
(* A run starts and ends.                                                  *)

\* main(): with --resume-only no clip is begun.
Start(resumeOnly) ==
  /\ pc = "down"
  /\ resumeOnly \/ issued + Cardinality(Clip) <= MaxSegs
  /\ todo' = Known
  /\ clips' = IF resumeOnly THEN {} ELSE Clip
  /\ pc' = "next"
  /\ UNCHANGED <<disk, job, store, budget>>

\* The process is gone, by a kill or an exception nobody catches.  Of the log's
\* unsynced tail any prefix may have left the write buffer; a call of complete()
\* is served on for nobody.
Stop ==
  /\ pc' = "down" /\ todo' = {} /\ clips' = {} /\ job' = NoJob
  /\ \E n \in opened..NextSeq :
       /\ \A i \in Seqs \cap safe : i < n
       /\ wal' = Restrict(wal, Seqs \cap 1..(n - 1))
       /\ opened' = n
  /\ UNCHANGED <<clip, intent, safe, committed>>

\* Mutant: the next run takes the answer to a call of a dead one.
OrphanedStillAnswer(hs) == hs

\* Calls whose run is gone.
Orphaned(hs) == {[h EXCEPT !.asked = FALSE] : h \in hs}

Fault == faults < MaxFaults /\ faults' = faults + 1 /\ UNCHANGED <<rewrites, aborts>>

Die ==
  /\ pc # "down"
  /\ Fault
  /\ Stop
  /\ handlers' = Orphaned(handlers)
  /\ UNCHANGED <<issued, uploads, object, sum, stray>>

\* The clip's file is written anew between two reads of it.
Rewrite(c) ==
  /\ rewrites < MaxRewrites
  /\ rewrites' = rewrites + 1
  /\ clip' = [clip EXCEPT ![c] = rewrites']
  /\ UNCHANGED <<intent, log, run, store, faults, aborts>>

------------------------------------------------------------------------------
(* upload(), resume() and _put_parts().                                    *)

\* resume() of the first pending upload: verified, whole or with parts missing.
Resume ==
  /\ pc = "next" /\ todo # {}
  /\ LET st == intent[Min(todo)]
     IN /\ job' = st
        /\ todo' = todo \ {st.seg}
        /\ pc' = IF st.verified THEN "append" ELSE "put"
  /\ UNCHANGED <<disk, clips, store, budget>>

\* begin(): the gateway issues the id, opens the multipart upload and notes the
\* sha256 the vehicle has just taken of the file, as it has its metadata.
Begin(c) ==
  /\ pc = "next" /\ todo = {} /\ c \in clips
  /\ issued' = issued + 1
  /\ uploads' = With(uploads, issued', [n \in Part |-> NoPart])
  /\ sum' = With(sum, issued', clip[c])
  /\ clips' = clips \ {c}
  /\ job' = [NoJob EXCEPT !.seg = issued', !.clip = c, !.meta = clip[c]]
  /\ pc' = "save"
  /\ UNCHANGED <<disk, todo, object, handlers, stray, budget>>

\* _save() of the intent, before the first part.
SaveIntent ==
  /\ pc = "save"
  /\ intent' = With(intent, job.seg, Saved(job))
  /\ pc' = "put"
  /\ UNCHANGED <<clip, log, todo, clips, job, store, budget>>

\* One turn of _put_parts(): the lowest missing part is stored, and its ETag saved.
PutPart ==
  /\ pc = "put" /\ Missing(job) # {} /\ job.seg \in DOMAIN uploads
  /\ LET n == Min(Missing(job))
         version == clip[job.clip]
     IN /\ uploads' = [uploads EXCEPT ![job.seg][n] = version]
        /\ job' = [job EXCEPT !.parts = @ \cup {<<n, version>>}]
  /\ intent' = With(intent, job.seg, Saved(job'))
  /\ UNCHANGED <<clip, log, pc, todo, clips,
                 issued, object, sum, handlers, stray, budget>>

\* The PUT times out or its run dies: it may reach the store later, or never.
PutLost ==
  /\ pc = "put" /\ Missing(job) # {}
  /\ Fault
  /\ Stop
  /\ stray' = stray \cup {<<job.seg, Min(Missing(job)), clip[job.clip]>>}
  /\ UNCHANGED <<issued, uploads, object, sum, handlers>>

StrayLands(p) ==
  /\ p \in stray
  /\ stray' = stray \ {p}
  /\ uploads' = IF p[1] \in DOMAIN uploads
                THEN [uploads EXCEPT ![p[1]][p[2]] = p[3]] ELSE uploads
  /\ UNCHANGED <<disk, run, issued, object, sum, handlers, budget>>

\* The store knows no such upload: HTTP 404, and the run ends.
PutRefused ==
  /\ pc = "put" /\ Missing(job) # {} /\ job.seg \notin DOMAIN uploads
  /\ Stop
  /\ UNCHANGED <<store, budget>>

\* _complete() calls the gateway.
AskComplete ==
  /\ pc = "put" /\ Missing(job) = {}
  /\ pc' = "asked"
  /\ handlers' = handlers \cup
       {[seg |-> job.seg, etags |-> job.parts, at |-> "finish", asked |-> TRUE]}
  /\ UNCHANGED <<disk, todo, clips, job, issued, uploads, object, sum, stray, budget>>

------------------------------------------------------------------------------
(* complete() in the gateway.                                              *)

Moved(h, at) == handlers' = (handlers \ {h}) \cup {[h EXCEPT !.at = at]}
Gone(h) == handlers' = handlers \ {h}

\* The call ends with an error status, which ends the run that waits for it.
Refuse(h) ==
  /\ Gone(h)
  /\ IF h.asked THEN Stop ELSE UNCHANGED <<disk, run>>

Matches(h) == h.etags = {<<n, uploads[h.seg][n]>> : n \in Part}

\* Mutant: an upload that is gone is an error like any other.
FinishUploadOnce(h) ==
  /\ h \in handlers /\ h.at = "finish"
  /\ IF h.seg \in DOMAIN uploads /\ Matches(h)
     THEN /\ object' = With(object, h.seg, uploads[h.seg])
          /\ uploads' = Without(uploads, h.seg)
          /\ Moved(h, "verify")
          /\ UNCHANGED <<disk, run>>
     ELSE UNCHANGED <<uploads, object>> /\ Refuse(h)
  /\ UNCHANGED <<issued, sum, stray, budget>>

\* completeMultipartUpload: the store compares the ETags.  NoSuchUpload counts as
\* done, for the object may be whole already.
FinishUpload(h) ==
  /\ h \in handlers /\ h.at = "finish"
  /\ IF h.seg \notin DOMAIN uploads
     THEN Moved(h, "verify") /\ UNCHANGED <<disk, run, uploads, object>>
     ELSE IF Matches(h)
     THEN /\ object' = With(object, h.seg, uploads[h.seg])
          /\ uploads' = Without(uploads, h.seg)
          /\ Moved(h, "verify")
          /\ UNCHANGED <<disk, run>>
     ELSE UNCHANGED <<uploads, object>> /\ Refuse(h)
  /\ UNCHANGED <<issued, sum, stray, budget>>

\* Mutant: an object that is there is taken for the right one.
WholeIfThere(s) == TRUE

\* The sha256 of the object read back is the one noted by begin().
Whole(s) == \A n \in Part : object[s][n] = sum[s]

\* headObject and sha256Of.  The answer "verified" is saved by _complete() before
\* anything else; a run that dies before it has is one that never heard of it.
Verify(h) ==
  /\ h \in handlers /\ h.at = "verify"
  /\ IF h.seg \notin DOMAIN object
     THEN Refuse(h)
     ELSE IF ~Whole(h.seg)
     THEN Moved(h, "delete") /\ UNCHANGED <<disk, run>>
     ELSE /\ Gone(h)
          /\ IF h.asked
             THEN /\ job' = [job EXCEPT !.verified = TRUE]
                  /\ intent' = With(intent, h.seg, Saved(job'))
                  /\ pc' = "append"
                  /\ UNCHANGED <<clip, log, todo, clips>>
             ELSE UNCHANGED <<disk, run>>
  /\ UNCHANGED <<issued, uploads, object, sum, stray, budget>>

\* deleteObject, and DATA_LOSS.
DeleteBroken(h) ==
  /\ h \in handlers /\ h.at = "delete"
  /\ object' = Without(object, h.seg)
  /\ Refuse(h)
  /\ UNCHANGED <<issued, uploads, sum, stray, budget>>

\* The store or the gateway fails in the middle.
HandlerFails(h) ==
  /\ h \in handlers
  /\ Fault
  /\ Refuse(h)
  /\ UNCHANGED <<issued, uploads, object, sum, stray>>

------------------------------------------------------------------------------
(* persist_reference() and _publish().                                     *)

\* The payload: the segment, and the clip's metadata, read again if it was resumed.
Reference == [seg |-> job.seg, meta |-> IF job.meta = NoPart THEN clip[job.clip] ELSE job.meta]

\* Mutant: the log is not searched before the append.
InLogNever == FALSE

\* The same payload is in the log after the commit point.
InLog == \E i \in Seqs : i > committed /\ wal[i] = Reference

\* Mutant: the state file is deleted without waiting for the fsync.
AppendUnsynced ==
  /\ pc = "append"
  /\ wal' = IF InLog THEN wal ELSE With(wal, NextSeq, Reference)
  /\ pc' = "discard"
  /\ UNCHANGED <<clip, intent, safe, opened, committed, todo, clips, job, store, budget>>

AppendReference ==
  /\ pc = "append"
  /\ wal' = IF InLog THEN wal ELSE With(wal, NextSeq, Reference)
  /\ pc' = "flush"
  /\ UNCHANGED <<clip, intent, safe, opened, committed, todo, clips, job, store, budget>>

\* Wal.flush(): the open segment has the records of this run only, and a run that
\* appended none calls no fsync.
Flush ==
  /\ pc = "flush"
  /\ safe' = safe \cup {i \in Seqs : i >= opened}
  /\ pc' = "discard"
  /\ UNCHANGED <<clip, intent, wal, opened, committed, todo, clips, job, store, budget>>

\* _discard() of the state file.
Discard ==
  /\ pc = "discard"
  /\ intent' = Without(intent, job.seg)
  /\ pc' = "next" /\ job' = NoJob
  /\ UNCHANGED <<clip, log, todo, clips, store, budget>>

\* _publish(), after every pending upload and every clip; the run ends.  It queues
\* what is left of the log and closes the channel at once, or after a minute or a lost
\* stream: the acks it has by then are any, or none.
Publish ==
  /\ pc = "next" /\ todo = {} /\ clips = {}
  /\ committed' \in committed..(NextSeq - 1)
  /\ opened' = NextSeq
  /\ pc' = "down"
  /\ UNCHANGED <<clip, intent, wal, safe, todo, clips, job, store, budget>>

------------------------------------------------------------------------------
(* abort(), in the place of resume().                                      *)

\* The store forgets the parts, or knows no such upload and the call fails.
Abort ==
  /\ pc = "next" /\ todo # {} /\ aborts < MaxAborts
  /\ aborts' = aborts + 1
  /\ IF Min(todo) \in DOMAIN uploads
     THEN /\ uploads' = Without(uploads, Min(todo))
          /\ job' = intent[Min(todo)]
          /\ todo' = todo \ {Min(todo)}
          /\ pc' = "discard"
          /\ UNCHANGED <<disk, clips>>
     ELSE UNCHANGED uploads /\ Stop
  /\ UNCHANGED <<issued, object, sum, handlers, stray, faults, rewrites>>

------------------------------------------------------------------------------

Init ==
  /\ clip = [c \in Clip |-> 0] /\ intent = <<>>
  /\ wal = <<>> /\ safe = {} /\ opened = 1 /\ committed = 0
  /\ pc = "down" /\ todo = {} /\ clips = {} /\ job = NoJob
  /\ issued = 0 /\ uploads = <<>> /\ object = <<>> /\ sum = <<>>
  /\ handlers = {} /\ stray = {}
  /\ faults = 0 /\ rewrites = 0 /\ aborts = 0

Gateway(h) == FinishUpload(h) \/ Verify(h) \/ DeleteBroken(h)

Vehicle ==
  \/ Resume
  \/ \E c \in Clip : Begin(c)
  \/ SaveIntent
  \/ PutPart
  \/ PutRefused
  \/ AskComplete
  \/ AppendReference
  \/ Flush
  \/ Discard
  \/ Publish

Next ==
  \/ \E resumeOnly \in BOOLEAN : Start(resumeOnly)
  \/ Vehicle
  \/ \E h \in handlers : Gateway(h) \/ HandlerFails(h)
  \/ Die
  \/ PutLost
  \/ \E p \in stray : StrayLands(p)
  \/ \E c \in Clip : Rewrite(c)
  \/ Abort

Spec == Init /\ [][Next]_vars

\* A run is started again after each end, goes on while it lives, and the
\* gateway serves its calls.
FairSpec ==
  /\ Spec
  /\ WF_vars(\E resumeOnly \in BOOLEAN : Start(resumeOnly))
  /\ WF_vars(Vehicle)
  /\ WF_vars(\E h \in handlers : Gateway(h))

------------------------------------------------------------------------------
(* Properties.                                                             *)

UploadState == [seg : Segment, clip : Clip, parts : SUBSET (Part \X Version),
                verified : BOOLEAN, meta : {NoPart} \cup Version]

\* The shape of the state.
TypeOK ==
  /\ clip \in [Clip -> Version]
  /\ Known \subseteq Segment /\ \A s \in Known : intent[s] \in UploadState
  /\ \A i \in Seqs : wal[i] \in [seg : Segment, meta : Version]
  /\ Seqs = 1..(NextSeq - 1) /\ safe \subseteq Seqs
  /\ opened \in 1..NextSeq /\ committed < NextSeq
  /\ pc \in {"down", "next", "save", "put", "asked", "append", "flush", "discard"}
  /\ todo \subseteq Known /\ clips \subseteq Clip
  /\ job \in {NoJob} \cup UploadState
  /\ issued \in 0..MaxSegs /\ DOMAIN sum = 1..issued
  /\ DOMAIN uploads \cap DOMAIN object = {}
  /\ \A s \in DOMAIN uploads : uploads[s] \in [Part -> {NoPart} \cup Version]
  /\ \A s \in DOMAIN object : object[s] \in [Part -> Version]
  /\ \A h \in handlers : h.asked => pc = "asked" /\ h.seg = job.seg

References == {wal[i].seg : i \in Seqs}

\* A reference names an object that is there and has the checksum of the
\* reference, whatever handlers of dead runs do to it later.
AnnouncedIsWhole ==
  \A s \in References :
    s \in DOMAIN object /\ \A n \in Part : object[s][n] = sum[s]

\* A reference to s is in the log, and no kill can take it away.
Durable(s) == \E i \in Seqs : wal[i].seg = s /\ (i < opened \/ i \in safe)

\* No orphan file (wal-design.md, section 3.9): a whole object is known to the
\* vehicle by its state file or by a reference that a kill cannot take away.
NoOrphanObject ==
  \A s \in DOMAIN object :
    s \in Known \/ Durable(s)

\* The same reference is not appended twice, though a run can die between the
\* append and the end of the upload state.
NoReferenceTwice ==
  \A i, j \in Seqs : wal[i] = wal[j] => i = j

\* An upload that was begun ends as a durable reference and its state file goes, through
\* every death of a run, every lost answer and every run that ends unacknowledged, unless
\* a clip is rewritten or an upload given up: either can leave one that no run gets past.
\* That the reference is acknowledged is promised by nothing, for no run waits for it.
EveryUploadReferenced ==
  \A s \in Segment :
    s \in Known ~> \/ Durable(s) /\ s \notin Known
                   \/ rewrites > 0 \/ aborts > 0

\* What holds at every moment: the shape, and a log without a repeated reference.
Consistent == TypeOK /\ NoReferenceTwice
=============================================================================
