------------------------------- MODULE Clips -------------------------------
(***************************************************************************)
(* Clips of scenes: convert_scenes.py with extract_scene() and             *)
(* write_scene_mcap(), and the check of its output by verify_mcap.py.      *)
(*                                                                         *)
(* A dataset is the sample_data chain of one sensor in one log, in time    *)
(* order, over two scenes; what lies between two keyframes is assigned to  *)
(* one of them.  Left out: the other sensors (each a chain like this one), *)
(* object boxes, calibration, and the random access to a clip.             *)
(***************************************************************************)
EXTENDS Integers, FiniteSets, FiniteSetsExt

CONSTANT MaxChain    \* bound: sample_data of the chain

ClipsAssumption == MaxChain \in Nat \ {0}

VARIABLES
  chain,     \* the dataset
  lost,      \* sample_data whose file is missing
  pc, args, next, metas,   \* a run of convert_scenes.py
  clips,     \* scene |-> the .mcap file
  manifest,  \* scenes |-> what manifest.json says
  last       \* history: arguments of the run that wrote it, if none came after

dataset == <<chain, lost>>
run == <<pc, args, next, metas>>
vars == <<dataset, run, clips, manifest, last>>

Scene == {1, 2}
Item == 1..MaxChain
NoArgs == [raw |-> FALSE, sweeps |-> FALSE, scenes |-> 0]
NoClip == [whole |-> FALSE, raw |-> {}, signals |-> 0]

Keys == {i \in Item : chain[i].key}
KeysOf(s) == {i \in Keys : chain[i].scene = s}

\* Scenes follow each other; a sweep goes with the keyframe before or after it.
IsDataset(c) ==
  LET keys == {i \in Item : c[i].key}
      near(i) == {k \in keys : (k < i /\ ~\E j \in keys : k < j /\ j < i)
                            \/ (i < k /\ ~\E j \in keys : i < j /\ j < k)}
  IN /\ \A s \in Scene : \E i \in keys : c[i].scene = s
     /\ \A i, j \in keys : i < j => c[i].scene <= c[j].scene
     /\ \A i \in Item \ keys : \E k \in near(i) : c[i].scene = c[k].scene

\* Mutant: the walk stops in front of the scene's last keyframe.
WalkShort(s) == {i \in Item : Min(KeysOf(s)) <= i /\ i < Max(KeysOf(s))}

\* _iter_sample_data(): from the first keyframe on, until past the last one.
Walk(s) == {i \in Item : Min(KeysOf(s)) <= i /\ i <= Max(KeysOf(s))}

\* extract_scene(): the raw samples of the scene.
Raw(s) == {i \in Walk(s) : args.sweeps \/ chain[i].key}

\* What write_scene_mcap() puts into the file: a missing one is passed over.
Written(s) == IF args.raw THEN Raw(s) \ lost ELSE {}

\* extract_scene(): one signal for each sample_data of the ego channel.
Signals(s) == Cardinality(Walk(s))

\* The summary it returns counts what was extracted.
Meta(s) == [signals |-> Signals(s), n |-> Cardinality(Raw(s)),
            topic |-> Written(s) # {}]

Start(a) ==
  /\ pc = "idle"
  /\ pc' = "extract" /\ args' = a /\ next' = 1 /\ metas' = {}
  /\ last' = NoArgs
  /\ UNCHANGED <<dataset, clips, manifest>>

\* The file is opened for writing, and an older one is gone.
OpenClip ==
  /\ pc = "extract" /\ next <= args.scenes
  /\ pc' = "write"
  /\ clips' = [clips EXCEPT ![next] = NoClip]
  /\ UNCHANGED <<dataset, args, next, metas, manifest, last>>

FinishClip ==
  /\ pc = "write"
  /\ pc' = "extract" /\ next' = next + 1
  /\ clips' = [clips EXCEPT ![next] =
       [whole |-> TRUE, raw |-> Written(next), signals |-> Signals(next)]]
  /\ metas' = metas \cup {[scene |-> next, meta |-> Meta(next)]}
  /\ UNCHANGED <<dataset, args, manifest, last>>

WriteManifest ==
  /\ pc = "extract" /\ next > args.scenes
  /\ pc' = "idle"
  /\ manifest' = metas
  /\ last' = args
  /\ UNCHANGED <<dataset, args, next, metas, clips>>

Die ==
  /\ pc # "idle"
  /\ pc' = "idle"
  /\ UNCHANGED <<dataset, args, next, metas, clips, manifest, last>>

\* canonical_raw_counts(): sample_data of the scene's samples.
Canonical(s) == {i \in Item : chain[i].scene = s}

\* What verify_mcap.py finds right about one clip, given the dataset.
ClipVerified(s, meta) ==
  /\ clips[s].whole
  /\ clips[s].signals = meta.signals
  /\ (clips[s].raw # {}) = meta.topic
  /\ Cardinality(clips[s].raw) = meta.n
  /\ Cardinality(clips[s].raw) = Cardinality(Canonical(s))

Verified == \A m \in manifest : ClipVerified(m.scene, m.meta)

Init ==
  /\ chain \in {c \in [Item -> [key : BOOLEAN, scene : Scene]] : IsDataset(c)}
  /\ lost \in {{}, {MaxChain - 1}}  \* bound: one file
  /\ pc = "idle" /\ args = NoArgs /\ next = 1 /\ metas = {}
  /\ clips = [s \in Scene |-> NoClip]
  /\ manifest = {} /\ last = NoArgs

Next ==
  \/ \E a \in [raw : BOOLEAN, sweeps : BOOLEAN, scenes : Scene] : Start(a)
  \/ OpenClip \/ FinishClip \/ WriteManifest \/ Die

------------------------------------------------------------------------------
\* A clip verify_mcap.py passes holds every sample_data of its scene and nothing else,
\* whatever runs came to an end before and left the manifest behind; and it passes what
\* a run with the default arguments made of a dataset with all its files, unless a scene
\* has sweeps outside its keyframes, which no run extracts.
VerifierAgrees ==
  /\ Verified => \A m \in manifest : clips[m.scene].raw = Canonical(m.scene)
  /\ (/\ last.raw /\ last.sweeps /\ lost = {}
      /\ \A i \in Item : i \in Min(KeysOf(chain[i].scene))..Max(KeysOf(chain[i].scene))) => Verified
=============================================================================
