------------------------------ MODULE AudioFiles ------------------------------
(***************************************************************************)
(* The audio of a call on disk: the files of the chunks, the root files    *)
(* that are merged from them, and who merges, promotes and trims them.     *)
(*                                                                         *)
(*   pipeline/audio_merger.rs    promote_root_to_chunk0, merge_track,       *)
(*                               merge_both_tracks                          *)
(*   audio/wav_trim.rs           trim_wav_tail                              *)
(*   pipeline/local_run.rs, commands/calls.rs, commands/pipeline.rs,        *)
(*   pipeline/chunk_recovery.rs  the callers                                *)
(*                                                                         *)
(* A file is the sequence of the chunks whose sound it holds.  Recordings   *)
(* of earlier versions kept chunk 0 as the root file.  The four checks of  *)
(* a promotion and its rename are one step: a merge takes a copy of hours  *)
(* of sound, and is never whole in between.                                *)
(***************************************************************************)
EXTENDS Naturals, Sequences, Functions, FiniteSets

CONSTANTS
    TopChunk,   \* bound: chunks 0 .. TopChunk
    Keeps       \* where an automatic stop may have cut, in chunks; 0 is nowhere

ASSUME AudioAssumption == TopChunk \in Nat /\ Keeps \subseteq Nat

VARIABLES
    callDir,    \* the directory of the call is there
    rootWav,    \* track -> mic.wav, system.wav
    chunkWav,   \* track -> chunk -> chunks/N/mic.wav, system.wav
    sentinel,   \* chunks/.merged
    keep,       \* silence_trim_ms
    mergers,    \* who works on the files
    recorded    \* history: track -> the chunks with sound in them

audioVars == <<callDir, rootWav, chunkWav, sentinel, keep, mergers, recorded>>

AudioTracks == {"mic", "system"}
Indices == 0..TopChunk
Mergers == {"player", "run"}  \* get_call_audio_path; a run, a reprocess or a recovery

\* "torn": it breaks off while it is read.  "bad": it cannot be opened.
File(chunks, quality) == [holds |-> chunks, quality |-> quality]
NoFile == File(<<>>, "none")
IsThere(file) == file # NoFile

Resting == [at |-> "idle", track |-> "mic", tmp |-> <<>>, trims |-> FALSE]

\* The indices of the chunks with sound in them, in their order.
InOrder(S) ==
    [n \in 1..Cardinality(S) |-> CHOOSE c \in S : Cardinality({d \in S : d < c}) = n - 1]
Recorded(files) == InOrder({c \in Indices : IsThere(files[c]) /\ files[c].quality # "bad"})

\* Whatever the capture left: a chunk may lack a track, and one may be broken.
AudioInit ==
    /\ callDir = TRUE /\ sentinel = FALSE /\ keep \in Keeps
    /\ mergers = [m \in Mergers |-> Resting]
    /\ \E lacks \in SUBSET Indices, broken \in Indices, how \in {"good", "torn", "bad"},
          older \in BOOLEAN :
           LET files == [t \in AudioTracks |-> [c \in Indices |->
                            IF t = "system" /\ c \in lacks THEN NoFile
                            ELSE File(<<c>>, IF c = broken THEN how ELSE "good")]]
           IN  /\ recorded = [t \in AudioTracks |-> Recorded(files[t])]
               /\ rootWav = [t \in AudioTracks |-> IF older THEN files[t][0] ELSE NoFile]
               /\ chunkWav = IF older THEN [t \in AudioTracks |-> [files[t] EXCEPT ![0] = NoFile]]
                             ELSE files
-----------------------------------------------------------------------------
(* merge_both_tracks *)

Listed(t) == {c \in Indices : IsThere(chunkWav[t][c])}
\* Mutant: the sentinel is not looked at.
PromotesAgain(t) == ~IsThere(chunkWav[t][0]) /\ IsThere(rootWav[t]) /\ Listed(t) # {}

PromotesRoot(t) ==
    ~sentinel /\ ~IsThere(chunkWav[t][0]) /\ IsThere(rootWav[t]) /\ Listed(t) # {}

Promoted(t) ==
    IF PromotesRoot(t)
    THEN /\ chunkWav' = [chunkWav EXCEPT ![t][0] = rootWav[t]]
         /\ rootWav' = [rootWav EXCEPT ![t] = NoFile]
    ELSE UNCHANGED <<chunkWav, rootWav>>

Becomes(m, at) == mergers' = [mergers EXCEPT ![m].at = at]

\* The player, when the root file it was asked for is not there.
PlayerMerges(t) ==
    /\ callDir /\ mergers["player"].at = "idle" /\ ~IsThere(rootWav[t])
    /\ Becomes("player", "promote mic")
    /\ UNCHANGED <<callDir, rootWav, chunkWav, sentinel, keep, recorded>>

\* A run merges whenever there are rows of chunks, a reprocess when the root
\* file is missing: then the run that follows works on the root files alone.
RunMerges(trims) ==
    /\ callDir /\ mergers["run"].at = "idle"
    /\ ~trims => ~IsThere(rootWav["mic"])
    /\ mergers' = [mergers EXCEPT !["run"].at = "promote mic", !["run"].trims = trims]
    /\ UNCHANGED <<callDir, rootWav, chunkWav, sentinel, keep, recorded>>

\* A run with no rows of chunks goes straight to the trim.
RunTrims ==
    /\ callDir /\ mergers["run"].at = "idle" /\ keep # 0
    /\ mergers' = [mergers EXCEPT !["run"].at = "measure", !["run"].trims = TRUE]
    /\ UNCHANGED <<callDir, rootWav, chunkWav, sentinel, keep, recorded>>

\* reconstruct_chunk_rows promotes, and leaves the merge to the run.
RecoveryPromotes ==
    /\ callDir /\ mergers["run"].at = "idle"
    /\ \E t \in AudioTracks : PromotesRoot(t) /\ Promoted(t)
    /\ UNCHANGED <<callDir, sentinel, keep, mergers, recorded>>

\* Both roots before the first merge: the sentinel is of both tracks.
PromoteMic(m) ==
    /\ mergers[m].at = "promote mic" /\ Becomes(m, "promote system")
    /\ Promoted("mic")
    /\ UNCHANGED <<callDir, sentinel, keep, recorded>>

PromoteSystem(m) ==
    /\ mergers[m].at = "promote system"
    /\ mergers' = [mergers EXCEPT ![m].at = "list", ![m].track = "mic"]
    /\ Promoted("system")
    /\ UNCHANGED <<callDir, sentinel, keep, recorded>>

\* What follows a track: the other one, the trim, or the end.
Following(m) ==
    IF mergers[m].track = "mic"
    THEN [mergers[m] EXCEPT !.at = "list", !.track = "system", !.tmp = <<>>]
    ELSE IF mergers[m].trims /\ keep # 0
         THEN [mergers[m] EXCEPT !.at = "measure", !.track = "mic", !.tmp = <<>>]
         ELSE Resting

FirstOf(S) == CHOOSE c \in S : \A d \in S : c <= d

\* What is read of the files, one after the other: of a file that cannot be
\* opened nothing, of one that breaks off what came before.
Sound(file) == IF file.quality = "bad" THEN <<>> ELSE file.holds
Joined(files) ==
    LET upTo[n \in 0..TopChunk + 1] ==
            IF n = 0 THEN <<>> ELSE upTo[n - 1] \o Sound(files[n - 1])
    IN  upTo[TopChunk + 1]
Copied(t) == Joined(chunkWav[t])
\* The first file gives the format; one at least must be read to its end.
Mergeable(t) ==
    /\ Listed(t) # {}
    /\ chunkWav[t][FirstOf(Listed(t))].quality # "bad"
    /\ \E c \in Listed(t) : chunkWav[t][c].quality = "good"

\* merge_track up to finalize, into a file of its own name; promotes first.
CopyChunks(m) ==
    LET t == mergers[m].track IN
    /\ mergers[m].at = "list"
    /\ IF callDir /\ ~PromotesRoot(t) /\ Mergeable(t)
       THEN mergers' = [mergers EXCEPT ![m].at = "mark", ![m].tmp = Copied(t)]
       ELSE /\ ~PromotesRoot(t)
            /\ mergers' = [mergers EXCEPT ![m] = Following(m)]
    /\ UNCHANGED <<callDir, rootWav, chunkWav, sentinel, keep, recorded>>

PromoteLate(m) ==
    /\ mergers[m].at = "list" /\ PromotesRoot(mergers[m].track)
    /\ Promoted(mergers[m].track)
    /\ UNCHANGED <<callDir, sentinel, keep, mergers, recorded>>

MarkMerged(m) ==
    /\ mergers[m].at = "mark" /\ Becomes(m, "rename")
    /\ sentinel' = callDir
    /\ UNCHANGED <<callDir, rootWav, chunkWav, keep, recorded>>

RenameMerged(m) ==
    /\ mergers[m].at = "rename"
    /\ rootWav' = IF callDir
                  THEN [rootWav EXCEPT ![mergers[m].track] = File(mergers[m].tmp, "good")]
                  ELSE rootWav
    /\ mergers' = [mergers EXCEPT ![m] = Following(m)]
    /\ UNCHANGED <<callDir, chunkWav, sentinel, keep, recorded>>
-----------------------------------------------------------------------------
(* trim_silence_tail, by a run, after its merge *)

TrimNext(m) ==
    IF mergers[m].track = "mic"
    THEN [mergers[m] EXCEPT !.at = "measure", !.track = "system", !.tmp = <<>>]
    ELSE Resting

\* trim_wav_tail: a file that is shorter stays as it is.
ReadPrefix(m) ==
    LET file == rootWav[mergers[m].track] IN
    /\ mergers[m].at = "measure"
    /\ mergers' = [mergers EXCEPT ![m] =
           IF IsThere(file) /\ file.quality = "good" /\ Len(file.holds) > keep
           THEN [@ EXCEPT !.at = "trim", !.tmp = SubSeq(file.holds, 1, keep)]
           ELSE TrimNext(m)]
    /\ UNCHANGED <<callDir, rootWav, chunkWav, sentinel, keep, recorded>>

RenameTrimmed(m) ==
    /\ mergers[m].at = "trim"
    /\ rootWav' = IF callDir
                  THEN [rootWav EXCEPT ![mergers[m].track] = File(mergers[m].tmp, "good")]
                  ELSE rootWav
    /\ mergers' = [mergers EXCEPT ![m] = TrimNext(m)]
    /\ UNCHANGED <<callDir, chunkWav, sentinel, keep, recorded>>
-----------------------------------------------------------------------------
\* The application ends: the files of the unfinished stay behind, unread.
AudioCrash ==
    /\ \E m \in Mergers : mergers[m].at # "idle"
    /\ mergers' = [m \in Mergers |-> Resting]
    /\ UNCHANGED <<callDir, rootWav, chunkWav, sentinel, keep, recorded>>

\* delete_call; a merge in the blocking pool goes on.
DeleteAudio ==
    /\ callDir /\ callDir' = FALSE /\ sentinel' = FALSE
    /\ rootWav' = [t \in AudioTracks |-> NoFile]
    /\ chunkWav' = [t \in AudioTracks |-> [c \in Indices |-> NoFile]]
    /\ UNCHANGED <<keep, mergers, recorded>>

AudioNext ==
    \/ \E t \in AudioTracks : PlayerMerges(t)
    \/ \E trims \in BOOLEAN : RunMerges(trims)
    \/ RunTrims \/ RecoveryPromotes
    \/ \E m \in Mergers :
           \/ PromoteMic(m) \/ PromoteSystem(m) \/ PromoteLate(m) \/ CopyChunks(m)
           \/ MarkMerged(m) \/ RenameMerged(m) \/ ReadPrefix(m) \/ RenameTrimmed(m)
    \/ AudioCrash \/ DeleteAudio

AudioSpec == AudioInit /\ [][AudioNext]_audioVars
-----------------------------------------------------------------------------
(* Properties *)

\* A root file that was merged is what was recorded, every chunk once and in
\* its order, or the beginning of that up to the cut; whoever merges or trims
\* at a time, and wherever a merge broke off.
RootIsTheRecording ==
    \A t \in AudioTracks : sentinel /\ IsThere(rootWav[t]) =>
        \/ rootWav[t].holds = recorded[t]
        \/ keep # 0 /\ rootWav[t].holds = SubSeq(recorded[t], 1, keep)

\* No sound is lost while the call is there, and none comes back afterwards.
SoundIsKept ==
    \A t \in AudioTracks :
        IF callDir
        THEN \A c \in Range(recorded[t]) :
                 \/ c \in Range(rootWav[t].holds)
                 \/ \E i \in Indices : c \in Range(chunkWav[t][i].holds)
        ELSE ~IsThere(rootWav[t]) /\ Listed(t) = {}

AudioKept == RootIsTheRecording /\ SoundIsKept
=============================================================================
