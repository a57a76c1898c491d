---------------------------- MODULE MediaIngestion ----------------------------
(***************************************************************************)
(* The media of one video: MediaIngestionService.run of                    *)
(* src/src/douyin_research/media_ingestion.py with the asset rows of       *)
(* media_assets.py, the content-addressed objects of media_storage.py and  *)
(* the download and extraction of media_processing.py.                     *)
(*                                                                         *)
(* A worker holds a session lock, and the same session writes the item of  *)
(* its run; assets and runs are written on sessions of their own. A worker *)
(* may die, and it may lose its session and only notice at its next use.   *)
(***************************************************************************)
EXTENDS Naturals, Sequences, SequencesExt, FiniteSets, FiniteSetsExt

CONSTANTS
  Workers,
  Films,     \* what a download of the video may return, by digest
  Sounds,    \* what an extraction may return, by digest
  SoundsOf,  \* the sounds of a film
  Chains,    \* redirect chains of a media address: one host per hop
  Allowed,   \* allowed_download_hosts
  MaxRuns,   \* bound: runs started
  NoWorker, NoDigest

ASSUME MediaAssumption ==
  /\ Films \cap Sounds = {} /\ NoDigest \notin Films \cup Sounds
  /\ SoundsOf \in [Films -> SUBSET Sounds] /\ NoWorker \notin Workers
  /\ MaxRuns \in Nat

VARIABLES
  lock,     \* holder of the advisory lock of the video
  worker,   \* step, session, run and local files of a worker
  runs,     \* pipeline_run with its pipeline_run_item, in the order made
  objects,  \* digests in the bucket
  assets    \* media_asset rows, in the order made

ingestionVars == <<lock, worker, runs, objects, assets>>

Idle == [step |-> "idle", session |-> FALSE, run |-> 0, film |-> NoDigest, sound |-> NoDigest]

IngestionInit ==
  /\ lock = NoWorker
  /\ worker = [w \in Workers |-> Idle]
  /\ runs = <<>>
  /\ objects = {}
  /\ assets = <<>>

At(w, step) == worker[w].step = step
Goto(w, step) == worker' = [worker EXCEPT ![w].step = step]
Run(w) == worker[w].run

(* The worker leaves: the lock goes with its session, if it has one.       *)
Leave(w) ==
  /\ worker' = [worker EXCEPT ![w] = Idle]
  /\ lock' = IF lock = w THEN NoWorker ELSE lock

(* A statement on the session that holds the lock. Without it the error    *)
(* handler, which needs the same session, fails as well.                   *)
OnSession(w, step) == IF worker[w].session THEN Goto(w, step) /\ UNCHANGED lock ELSE Leave(w)

Video(film) == [kind |-> "video", digest |-> film, parent |-> NoDigest]
Audio(film, sound) == [kind |-> "audio", digest |-> sound, parent |-> film]

(* ------------------------------- opening ------------------------------- *)

TryLock(w) ==
  /\ At(w, "idle")
  /\ lock = NoWorker /\ Len(runs) < MaxRuns
  /\ lock' = w
  /\ worker' = [worker EXCEPT ![w] = [Idle EXCEPT !.step = "close", !.session = TRUE]]
  /\ UNCHANGED <<runs, objects, assets>>

(* Mutant: only runs whose item was finished are interrupted ones. *)
InterruptedFinished(r) == r.status = "running" /\ r.item \in {"success", "reused"}

Interrupted(r) == r.status = "running" /\ r.item = "running"

(* Runs of dead workers are failed, together with their items.             *)
CloseInterrupted(w) ==
  /\ At(w, "close")
  /\ runs' = IF worker[w].session
             THEN [i \in DOMAIN runs |-> IF Interrupted(runs[i])
                                         THEN [status |-> "failed", item |-> "failed"] ELSE runs[i]]
             ELSE runs
  /\ OnSession(w, "create")
  /\ UNCHANGED <<objects, assets>>

CreateRun(w) ==
  /\ At(w, "create")
  /\ Len(runs) < MaxRuns
  /\ runs' = Append(runs, [status |-> "running", item |-> "none"])
  /\ worker' = [worker EXCEPT ![w].step = "item", ![w].run = Len(runs) + 1]
  /\ UNCHANGED <<lock, objects, assets>>

SetItem(w, outcome) ==
  runs' = IF worker[w].session THEN [runs EXCEPT ![Run(w)].item = outcome] ELSE runs

InsertItem(w) ==
  /\ At(w, "item")
  /\ SetItem(w, "running")
  /\ OnSession(w, "existing")
  /\ UNCHANGED <<objects, assets>>

(* ------------------------------ the stages ----------------------------- *)

(* _completed_pair: an audio asset with its video.                         *)
CompletedPair == \E i, j \in DOMAIN assets :
                   /\ assets[i].kind = "video" /\ assets[j].kind = "audio"
                   /\ assets[j].parent = assets[i].digest

(* The newest video asset of a run that got no further.                    *)
Partial == LET own == {i \in DOMAIN assets : assets[i].kind = "video"}
           IN IF own = {} THEN NoDigest ELSE assets[Max(own)].digest

(* verify_object: the bucket still has it.                                 *)
Verified(digest) == digest \in objects

Existing(w) ==
  /\ At(w, "existing")
  /\ OnSession(w, IF CompletedPair THEN "reuse" ELSE IF Partial # NoDigest THEN "resume" ELSE "source")
  /\ UNCHANGED <<runs, objects, assets>>

Reuse(w) ==
  /\ At(w, "reuse")
  /\ \A i \in DOMAIN assets : Verified(assets[i].digest)
  /\ SetItem(w, "reused")
  /\ OnSession(w, "finish")
  /\ UNCHANGED <<objects, assets>>

(* download_file checks what it read against the digest.                   *)
Resume(w) ==
  /\ At(w, "resume")
  /\ Partial # NoDigest /\ Verified(Partial)
  /\ worker' = [worker EXCEPT ![w].step = "extract", ![w].film = Partial]
  /\ UNCHANGED <<lock, runs, objects, assets>>

(* The newest cached detail response that names the video.                 *)
FindSource(w) ==
  /\ At(w, "source")
  /\ OnSession(w, "download")
  /\ UNCHANGED <<runs, objects, assets>>

(* Every hop must be allowed, and the fourth redirect is one too many.     *)
Downloadable(chain) == Len(chain) <= 4 /\ ToSet(chain) \subseteq Allowed

Download(w, chain, film) ==
  /\ At(w, "download")
  /\ Downloadable(chain)
  /\ worker' = [worker EXCEPT ![w].step = "upload_video", ![w].film = film]
  /\ UNCHANGED <<lock, runs, objects, assets>>

(* Mutant: the row is written and the upload left for later. *)
UploadNothing(digest) == UNCHANGED objects

(* upload_file: an object that is there already is confirmed, not replaced.*)
Upload(digest) == objects' = objects \cup {digest}

UploadVideo(w) ==
  /\ At(w, "upload_video")
  /\ Upload(worker[w].film)
  /\ Goto(w, "record_video")
  /\ UNCHANGED <<lock, runs, assets>>

RowOf(a) == {i \in DOMAIN assets : assets[i].kind = a.kind /\ assets[i].digest = a.digest}

(* record: a row is inserted once; a row that is there must agree, also in *)
(* its parent.                                                             *)
Record(w, a, step) ==
  /\ \A i \in RowOf(a) : assets[i].parent = a.parent
  /\ assets' = IF RowOf(a) = {} THEN Append(assets, a) ELSE assets
  /\ Goto(w, step)
  /\ UNCHANGED <<lock, runs, objects>>

RecordVideo(w) == At(w, "record_video") /\ Record(w, Video(worker[w].film), "extract")

Extract(w, sound) ==
  /\ At(w, "extract")
  /\ sound \in SoundsOf[worker[w].film]
  /\ worker' = [worker EXCEPT ![w].step = "upload_audio", ![w].sound = sound]
  /\ UNCHANGED <<lock, runs, objects, assets>>

UploadAudio(w) ==
  /\ At(w, "upload_audio")
  /\ Upload(worker[w].sound)
  /\ Goto(w, "record_audio")
  /\ UNCHANGED <<lock, runs, assets>>

RecordAudio(w) ==
  At(w, "record_audio") /\ Record(w, Audio(worker[w].film, worker[w].sound), "final")

(* ------------------------------- the end ------------------------------- *)

Finalize(w) ==
  /\ At(w, "final")
  /\ SetItem(w, "success")
  /\ OnSession(w, "finish")
  /\ UNCHANGED <<objects, assets>>

(* finish_run is on a session of its own. It may raise though it committed,*)
(* and then the handler fails the run after all.                           *)
Finish(w, seen) ==
  /\ At(w, "finish")
  /\ runs' = [runs EXCEPT ![Run(w)].status = "success"]
  /\ IF seen THEN Leave(w) ELSE Goto(w, "failed") /\ UNCHANGED lock
  /\ UNCHANGED <<objects, assets>>

Stages == {"existing", "reuse", "resume", "source", "download", "upload_video", "record_video",
           "extract", "upload_audio", "record_audio", "final", "finish"}

(* Any stage may raise.                                                    *)
Fail(w) ==
  /\ worker[w].step \in Stages
  /\ Goto(w, "failed")
  /\ UNCHANGED <<lock, runs, objects, assets>>

ItemFailed(w) == SetItem(w, "failed")

FailItem(w) ==
  /\ At(w, "failed")
  /\ ItemFailed(w)
  /\ OnSession(w, "fail_run")
  /\ UNCHANGED <<objects, assets>>

FailRun(w) ==
  /\ At(w, "fail_run")
  /\ runs' = [runs EXCEPT ![Run(w)].status = "failed"]
  /\ Leave(w)
  /\ UNCHANGED <<objects, assets>>

Die(w) ==
  /\ ~At(w, "idle")
  /\ Leave(w)
  /\ UNCHANGED <<runs, objects, assets>>

LoseSession(w) ==
  /\ worker[w].session
  /\ worker' = [worker EXCEPT ![w].session = FALSE]
  /\ lock' = NoWorker
  /\ UNCHANGED <<runs, objects, assets>>

IngestionNext ==
  \E w \in Workers :
    \/ TryLock(w) \/ CloseInterrupted(w) \/ CreateRun(w) \/ InsertItem(w)
    \/ Existing(w) \/ Reuse(w) \/ Resume(w) \/ FindSource(w)
    \/ \E chain \in Chains, film \in Films : Download(w, chain, film)
    \/ UploadVideo(w) \/ RecordVideo(w)
    \/ \E sound \in Sounds : Extract(w, sound)
    \/ UploadAudio(w) \/ RecordAudio(w) \/ Finalize(w)
    \/ \E seen \in BOOLEAN : Finish(w, seen)
    \/ Fail(w) \/ FailItem(w) \/ FailRun(w) \/ Die(w) \/ LoseSession(w)

IngestionSpec == IngestionInit /\ [][IngestionNext]_ingestionVars

-----------------------------------------------------------------------------
(* ---------------------------- properties ------------------------------- *)

(* What is recorded is there. What a row names is in the bucket, and an    *)
(* audio asset is the sound of the very film it is filed under, also when  *)
(* a worker without its lock and its successor downloaded different films  *)
(* (media_ingestion.py:57). A run that closed as a success has delivered a *)
(* film with its sound, and one that closed as failed shows it in its      *)
(* item, whoever closed it: the worker, its error handler or the next      *)
(* worker. And only the item of the worker that has the lock and has       *)
(* cleaned up is running.                                                  *)
MediaIsWhole ==
  /\ \A i \in DOMAIN assets :
       /\ assets[i].digest \in objects
       /\ assets[i].kind = "audio" =>
            /\ Video(assets[i].parent) \in ToSet(assets)
            /\ assets[i].digest \in SoundsOf[assets[i].parent]
  /\ \A i \in DOMAIN runs :
       /\ runs[i].item = "running" =>
            \A w \in Workers : lock = w /\ ~At(w, "close") => i = Run(w)
       /\ runs[i].status = "success" => CompletedPair
       /\ runs[i].status = "failed" => runs[i].item = "failed"
=============================================================================
