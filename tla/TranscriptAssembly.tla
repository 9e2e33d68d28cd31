-------------------------- MODULE TranscriptAssembly --------------------------
(***************************************************************************)
(* From what was said to the transcript: the words of the chunks, or of    *)
(* the whole tracks, their language, their speakers and one timeline.      *)
(*                                                                         *)
(*   pipeline/chunk_runner.rs, local_engine/stt.rs, whisper_json.rs         *)
(*                                       a track becomes words              *)
(*   pipeline/chunk_assembly.rs, speaker_reclustering.rs, owner_identify.rs *)
(*                                       the chunks become two tracks       *)
(*   pipeline/local_run.rs, diarize.rs, local_engine/diarization.rs         *)
(*                                       language and speakers              *)
(*   pipeline/merge.rs                   the tracks become one              *)
(*                                                                         *)
(* Embeddings are real numbers whose closeness nothing here decides: any    *)
(* grouping of the voices of the chunks may come out, and any speaker be    *)
(* heard for a word.  A word is a segment of a transcript, and a track the  *)
(* set of its words: their times order them.  The `track` of a word is kept *)
(* along for the properties only.                                          *)
(***************************************************************************)
EXTENDS Naturals, Sequences, FiniteSets, Functions

CONSTANTS
    TrackChunks,  \* bound: chunks of the call
    SpanLen,      \* length of a chunk
    Cuts,         \* places where the silence watch may have cut the call
    Uncut,        \* None
    Utterances,   \* the texts of words
    Long,         \* those of at least LOOP_MIN_WORDS and MIN_WORDS_FOR_LANG_PIN words
    Noise,        \* those that are is_hallucination
    Takes,        \* what whisper may make of a file of each track: sets of words
    MaxSpeakers,  \* MAX_LOCAL_SPEAKERS
    LoopAt,       \* LOOP_MIN_OCCURRENCES
    Langs, NoLang

Sides == {"mic", "system"}

\* The tags of segments: speaker:N, speaker:unknown, merge.rs OWNER_TAG, and what
\* whisper_json.rs calls the microphone.
Speaker(n) == <<"speaker", n>>
Unknown == <<"unknown", 0>>
OwnerSpeaker == <<"owner", 0>>
WhisperOwner == <<"whisper", 0>>

\* build_transcript
Words(track) ==
    [track : {track}, from : 0..SpanLen - 1, to : 1..SpanLen, text : Utterances,
     tag : {IF track = "mic" THEN WhisperOwner ELSE Speaker(1)}]

ASSUME TranscriptAssumption ==
    /\ TrackChunks \in Nat /\ SpanLen \in Nat \ {0} /\ LoopAt \in Nat /\ MaxSpeakers \in Nat
    /\ Uncut \notin Nat /\ Cuts \subseteq Nat \ {0} /\ NoLang \notin Langs
    /\ \A t \in Sides : \A words \in Takes[t] :
           /\ words \subseteq Words(t) /\ IsFiniteSet(words) /\ \A w \in words : w.from < w.to
           /\ \A v, w \in words : v.from = w.from /\ v.text = w.text => v = w

VARIABLES
    tStep,   \* where the run is
    rows,    \* call_chunks, in the order of chunk_idx
    cut,     \* auto_stopped_at's cut, or Uncut
    tracks,  \* the two DiarizedTranscripts
    lang,    \* their lang_detected
    merged,  \* the segments of the transcript
    flagged,    \* degraded_flags that this run sets
    said     \* history: the words that were heard, at their time in the call

asmVars == <<tStep, rows, cut, tracks, lang, merged, flagged, said>>

\* cap_speaker_tag and reassign_unknown_to_neighbors: an index over the limit
\* is unknown, unless somebody else speaks close to it.
HeardTags == {Speaker(n) : n \in 1..MaxSpeakers} \cup {Unknown}

NoTracks == [t \in Sides |-> {}]
NoLangs == [t \in Sides |-> NoLang]

AsmInit ==
    /\ tStep = "recording" /\ rows = <<>> /\ cut = Uncut
    /\ tracks = NoTracks /\ lang = NoLangs /\ merged = <<>> /\ flagged = {} /\ said = {}
-----------------------------------------------------------------------------
(* A chunk *)

\* build_transcript: artifacts are dropped.
IsHallucination(text) == text \in Noise
HeardWords(words) == {w \in words : ~IsHallucination(w.text)}

\* merge_word_with_speaker: each word has the tag of somebody.
Diarized(words) ==
    {{[w EXCEPT !.tag = t[w]] : w \in words} : t \in [words -> HeardTags]}

\* diarize_mic_track: without the models, or when they fail, the tags are whisper's.
HeardOnMic(words) == Diarized(words) \cup {words}

StartOf(c) == (c - 1) * SpanLen
RowWords(c) == rows[c].words["mic"] \cup rows[c].words["system"]

\* What mark_chunk_done keeps of a chunk.
HeardRow(mic, system, embedded) ==
    [done |-> TRUE, embedded |-> embedded,
     words |-> [t \in Sides |-> IF t = "mic" THEN mic ELSE system]]

\* A word at its time in the call, whoever speaks it.
Timed(w, start) == [track |-> w.track, from |-> w.from + start, to |-> w.to + start, text |-> w.text]
SaidIn(take, start) == UNION {{Timed(w, start) : w \in HeardWords(take[t])} : t \in Sides}

\* run_chunk: the microphone's track must be read; the system's may fail
\* (no words), and so may the diarization of the microphone and the embeddings.
HearChunk(take, embedded) ==
    /\ tStep = "recording" /\ Len(rows) < TrackChunks
    /\ said' = said \cup SaidIn(take, StartOf(Len(rows) + 1))
    /\ \E mic \in HeardOnMic(HeardWords(take["mic"])) :
           rows' = Append(rows, HeardRow(mic, HeardWords(take["system"]), embedded))
    /\ UNCHANGED <<tStep, cut, tracks, lang, merged, flagged>>

FailChunk ==
    /\ tStep = "recording" /\ Len(rows) < TrackChunks
    /\ rows' = Append(rows, [done |-> FALSE, embedded |-> FALSE, words |-> NoTracks])
    /\ UNCHANGED <<tStep, cut, tracks, lang, merged, flagged, said>>
-----------------------------------------------------------------------------
(* The chunks become two tracks *)

BeforeCut(at, k) == IF k = Uncut THEN TRUE ELSE at < k
Usable(k) == {c \in DOMAIN rows : rows[c].done /\ BeforeCut(StartOf(c), k)}

\* Mutant: the words keep the time they have within the chunk.
PlacedAsIs(word, c, k) == IF BeforeCut(word.from, k) THEN {word} ELSE {}

\* clip_segment, after the offset of the chunk: the word, unless it begins too late.
Placed(word, c, k) ==
    LET from == word.from + StartOf(c)
        to == word.to + StartOf(c)
    IN  IF BeforeCut(from, k)
        THEN {[word EXCEPT !.from = from, !.to = IF BeforeCut(to, k) THEN to ELSE k]}
        ELSE {}

\* agglomerative_cluster: which voices it joins is open.
VoicesOf(used) ==
    UNION {{<<c, w.tag>> : w \in {v \in RowWords(c) : v.tag # Unknown}} :
              c \in {d \in used : rows[d].embedded}}
Clusterings(used) ==
    LET voices == VoicesOf(used)
    IN  {g \in [voices -> 1..Cardinality(voices)] :
            \E n \in 0..Cardinality(voices) : Range(g) = 1..n}
Remapped(word, c, g) ==
    IF <<c, word.tag>> \in DOMAIN g THEN [word EXCEPT !.tag = Speaker(g[<<c, word.tag>>])]
    ELSE word

TrackOf(track, used, k, g) ==
    UNION {UNION {Placed(Remapped(w, c, g), c, k) : w \in rows[c].words[track]} : c \in used}

TagsOf(words) == {w.tag : w \in words}
SpeaksFor(words, tag) ==
    Cardinality(UNION {{w} \X (w.from + 1..w.to) : w \in {v \in words : v.tag = tag}})

\* identify_owner_speaker: a tag whose voice is known and matches, or else the
\* one that speaks longest.
OwnersOf(words, known) ==
    IF words = {} THEN {{}}
    ELSE {{t} : t \in {u \in TagsOf(words) : \/ u \in known
                    \/ \A v \in TagsOf(words) : SpeaksFor(words, v) <= SpeaksFor(words, u)}}
Relabelled(words, tags) ==
    {[w EXCEPT !.tag = IF @ \in tags THEN OwnerSpeaker ELSE @] : w \in words}

\* The points that are offered to the identification have the tags of the
\* chunks, the words the global ones.
KnownTags(used) == {p[2] : p \in VoicesOf(used)}

\* chunks_ready and load_chunked_transcripts.  The microphone's owner is
\* relabelled on the other track too.
AssembleChunks(k) ==
    /\ tStep = "recording" /\ Usable(k) # {}
    /\ \E g \in Clusterings(Usable(k)) :
           LET placed == [t \in Sides |-> TrackOf(t, Usable(k), k, g)]
           IN  \E owner \in OwnersOf(placed["mic"], KnownTags(Usable(k))) :
                   tracks' = [t \in Sides |-> Relabelled(placed[t], owner)]
    /\ tStep' = "diarize system" /\ cut' = k /\ rows' = <<>>
    /\ flagged' = IF \E c \in DOMAIN rows : ~rows[c].done THEN {"partial"} ELSE {}
    /\ said' = {w \in said : BeforeCut(w.from, k)}
    /\ UNCHANGED <<lang, merged>>

\* No chunk is done: the run ends and the call is parked.
NoneDone ==
    /\ tStep = "recording" /\ rows # <<>> /\ \A c \in DOMAIN rows : ~rows[c].done
    /\ tStep' = "halted" /\ rows' = <<>>
    /\ UNCHANGED <<cut, tracks, lang, merged, flagged, said>>
-----------------------------------------------------------------------------
(* The whole tracks, when there are no chunks *)

NothingToAssemble(k) ==
    rows = <<>> \/ (Usable(k) = {} /\ \E c \in DOMAIN rows : rows[c].done)

\* trim_silence_tail has cut the files before.
InFile(words, k) == \A w \in words : k # Uncut => w.to <= k

HearTracks(k, take, found) ==
    /\ tStep = "recording" /\ NothingToAssemble(k) /\ \A t \in Sides : InFile(take[t], k)
    /\ tStep' = "repin mic" /\ rows' = <<>> /\ cut' = k
    /\ tracks' = [t \in Sides |-> HeardWords(take[t])] /\ lang' = found
    /\ said' = SaidIn(take, 0)
    /\ UNCHANGED <<merged, flagged>>

HearTracksFails ==
    /\ tStep = "recording" /\ rows = <<>>
    /\ tStep' = "halted"
    /\ UNCHANGED <<rows, cut, tracks, lang, merged, flagged, said>>

\* call_language: the system's, if it speaks enough, or else the microphone's.
SpeaksEnough(words) == \E w \in words : w.text \in Long
CallLanguage ==
    IF SpeaksEnough(tracks["system"]) /\ lang["system"] # NoLang THEN lang["system"]
    ELSE IF SpeaksEnough(tracks["mic"]) /\ lang["mic"] # NoLang THEN lang["mic"]
    ELSE NoLang

\* repin_track_language, the microphone's track first: both with the language
\* that was found before.
Repin ==
    /\ tStep = "repin mic"
    /\ \E failed \in SUBSET Sides :
           LET wrong == {t \in Sides : CallLanguage # NoLang /\ lang[t] # CallLanguage}
           IN  /\ failed \subseteq wrong
               /\ lang' = [t \in Sides |->
                              IF t \in wrong \ failed THEN CallLanguage ELSE lang[t]]
               /\ flagged' = IF failed = {} THEN flagged ELSE flagged \cup {"language"}
    /\ tStep' = "diarize system"
    /\ UNCHANGED <<rows, cut, tracks, merged, said>>
-----------------------------------------------------------------------------
(* Speakers *)

DiarizeSystem ==
    /\ tStep = "diarize system" /\ tStep' = "diarize mic"
    /\ \E words \in Diarized(tracks["system"]) : tracks' = [tracks EXCEPT !["system"] = words]
    /\ UNCHANGED <<rows, cut, lang, merged, flagged, said>>

DiarizeMic ==
    /\ tStep = "diarize mic" /\ tStep' = "owner"
    /\ \E words \in Diarized(tracks["mic"]) : tracks' = [tracks EXCEPT !["mic"] = words]
    /\ UNCHANGED <<rows, cut, lang, merged, flagged, said>>

\* Without the models, or when they fail: the tags stay, and a flag tells.
DiarizeFails ==
    /\ tStep \in {"diarize system", "diarize mic"}
    /\ tStep' = IF tStep = "diarize system" THEN "diarize mic" ELSE "owner"
    /\ flagged' = flagged \cup {IF tStep = "diarize system" THEN "system tags" ELSE "mic tags"}
    /\ UNCHANGED <<rows, cut, tracks, lang, merged, said>>

\* relabel_owner_on_mic_full_file: any voice that was long enough is known.
RelabelOwner ==
    /\ tStep = "owner" /\ tStep' = "merge"
    /\ \E owner \in OwnersOf(tracks["mic"], TagsOf(tracks["mic"])) :
           tracks' = [tracks EXCEPT !["mic"] = Relabelled(@, owner)]
    /\ UNCHANGED <<rows, cut, lang, merged, flagged, said>>
-----------------------------------------------------------------------------
(* One timeline *)

Earlier(v, w) == v.from < w.from \/ (v.from = w.from /\ v.track = "mic" /\ w.track # "mic")
KeepMicTags ==
    /\ OwnerSpeaker \in TagsOf(tracks["mic"])
    /\ \E tag \in TagsOf(tracks["mic"]) : tag[1] = "speaker"
MicWords ==
    IF KeepMicTags THEN tracks["mic"] ELSE Relabelled(tracks["mic"], TagsOf(tracks["mic"]))

\* Words that begin together may come out in any order, on one track.
Timelines(words) ==
    {m \in [1..Cardinality(words) -> words] :
        /\ \A i \in 1..Len(m) - 1 : ~Earlier(m[i + 1], m[i])
        /\ Range(m) = words}

\* merge_tracks; the sort is stable, with the microphone first.
MergeTracks ==
    /\ tStep = "merge" /\ tStep' = "sanitize"
    /\ merged' \in Timelines(MicWords \cup tracks["system"])
    /\ tracks' = NoTracks
    /\ UNCHANGED <<rows, cut, lang, flagged, said>>

\* sanitize_merged: a long text that comes too often is a loop, and a speaker
\* who says the same twice in a row says it once, for longer.
Loops == {x \in Long : Cardinality({i \in DOMAIN merged : merged[i].text = x}) >= LoopAt}

Collapse(out, w) ==
    IF out # <<>> /\ out[Len(out)].tag = w.tag /\ out[Len(out)].text = w.text
    THEN [out EXCEPT ![Len(out)].to = IF w.to > @ THEN w.to ELSE @]
    ELSE Append(out, w)

\* The first n segments.
Sanitized[n \in 0..Len(merged)] ==
    IF n = 0 THEN <<>>
    ELSE IF merged[n].text \in Loops THEN Sanitized[n - 1]
    ELSE Collapse(Sanitized[n - 1], merged[n])

Sanitize ==
    /\ tStep = "sanitize" /\ tStep' = "written"
    /\ merged' = Sanitized[Len(merged)]
    /\ UNCHANGED <<rows, cut, tracks, lang, flagged, said>>

Hearings ==
    {[t \in Sides |-> IF t = "mic" THEN mic ELSE system] :
        mic \in Takes["mic"], system \in Takes["system"]}

HearNext ==
    \/ \E take \in Hearings, embedded \in BOOLEAN : HearChunk(take, embedded)
    \/ \E k \in Cuts \cup {Uncut} :
           \/ AssembleChunks(k)
           \/ \E take \in Hearings, found \in [Sides -> Langs \cup {NoLang}] :
                 HearTracks(k, take, found)
    \/ FailChunk \/ NoneDone \/ HearTracksFails

AsmNext ==
    \/ tStep = "recording" /\ HearNext
    \/ Repin \/ DiarizeSystem \/ DiarizeMic \/ DiarizeFails \/ RelabelOwner
    \/ MergeTracks \/ Sanitize

AsmSpec == AsmInit /\ [][AsmNext]_asmVars
-----------------------------------------------------------------------------
(* Properties *)

\* Whatever was heard before the cut stands in the transcript, at its time in
\* the call, and nothing else does; only what comes too often may be missing.
WordsKept ==
    tStep = "written" =>
        /\ \A w \in said :
              \/ \E m \in Range(merged) :
                     /\ m.text = w.text /\ m.from <= w.from
                     /\ m.to >= w.to \/ m.to = cut
              \/ w.text \in Long /\ Cardinality({v \in said : v.text = w.text}) >= LoopAt
        /\ \A m \in Range(merged) : \E w \in said :
              /\ m.text = w.text /\ m.from = w.from /\ m.track = w.track
              /\ cut # Uncut => m.to <= cut
        /\ \A i \in 1..Len(merged) - 1 : merged[i].from <= merged[i + 1].from

\* The owner speaks on the microphone whenever somebody does, whatever of the
\* diarization failed; and where it did not fail, nobody else's track has the
\* owner on it and no tag of whisper's is left.
OwnerOnMic ==
    tStep = "sanitize" =>
        /\ (\E m \in Range(merged) : m.track = "mic") =>
              \E m \in Range(merged) : m.track = "mic" /\ m.tag = OwnerSpeaker
        /\ "system tags" \notin flagged =>
              \A m \in Range(merged) : m.track = "system" => m.tag # OwnerSpeaker
        /\ "mic tags" \notin flagged => \A m \in Range(merged) : m.tag # WhisperOwner

\* Both tracks have the language of the one that speaks enough, the system's
\* first, or a flag tells.
OneLanguage ==
    tStep = "diarize system" /\ "language" \notin flagged =>
        \/ \A t \in Sides : ~SpeaksEnough(tracks[t])
        \/ lang["mic"] = lang["system"]
        \/ \A t \in Sides : SpeaksEnough(tracks[t]) => lang[t] = NoLang

TranscriptTrue == WordsKept /\ OwnerOnMic /\ OneLanguage
=============================================================================
