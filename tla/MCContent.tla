------------------------------ MODULE MCContent ------------------------------
(* What is made of a recording: its files, its transcript, the recap's text, *)
(* the speakers, the index of the assistant and its answers.  These parts    *)
(* share no variable; `focus` chooses one, the others stay in one of their   *)
(* initial states.                                                           *)
EXTENDS RecapText, Speakers, TranscriptAssembly, AudioFiles, AssistantIndex, AssistantAnswer,
        TLC

CONSTANTS
    w1, w2, w3, w4,     \* words of the texts that are compared
    i1, i2, j2,         \* two calls of the assistant, a task of its index
    q1, q2, e1, e2,     \* two questions to it, two calls they may be about
    Phrase, Brief, Artifact    \* what a word of the transcript may be

SomeTexts == {t \in SUBSET {w1, w2, w3, w4} : Cardinality(t) >= 3}

\* Two windows that overlap, an item without an end, and words said in both calls.
Turn(s, w) == [start |-> s, words |-> w, tokens |-> 1]
SomeTurns ==
    e1 :> <<Turn(0, "a"), Turn(1, "b"), Turn(2, "c")>> @@ e2 :> <<Turn(0, "a"), Turn(1, "b")>>
SomeRows ==
    e1 :> <<RowPassage(e1, "item", 1, "d", 1)>>
        @@ e2 :> <<RowPassage(e2, "recap", NoTime, "e", 3)>>

\* Nothing, or one word to the end of the chunk.
OneWord(track, texts) == {{w} : w \in {v \in Words(track) : v.to = SpanLen /\ v.text \in texts}}
SomeTakes ==
    "mic" :> ({{}} \cup OneWord("mic", {Phrase, Artifact}))
        @@ "system" :> ({{}} \cup OneWord("system", {Phrase, Brief}))

VARIABLE focus

Contents == {"text", "speakers", "transcript", "audio", "index", "search", "chats",
             "ask"}

\* One of the initial states of AudioFiles.
AudioRests ==
    /\ callDir = TRUE /\ sentinel = FALSE /\ keep = 0
    /\ mergers = [m \in Mergers |-> Resting]
    /\ rootWav = [t \in AudioTracks |-> NoFile]
    /\ chunkWav = [t \in AudioTracks |-> [c \in Indices |-> File(<<c>>, "good")]]
    /\ recorded = [t \in AudioTracks |-> Recorded(chunkWav[t])]

Init ==
    /\ focus \in Contents
    /\ focus # "text" => chars = 1
    /\ autoBind = TRUE
    /\ focus # "speakers" => consent = {}
    /\ IF focus = "audio" THEN AudioInit ELSE AudioRests
    /\ archive = IF focus = "index" THEN i1 :> "ready" @@ i2 :> "gone"
                 ELSE i1 :> "busy" @@ i2 :> "busy"
    /\ oldModel \in {b \in BOOLEAN : b => focus = "index"}
    /\ TextInit /\ SpeakersInit /\ AsmInit /\ IndexInit /\ CacheInit /\ AskInit
    /\ focus \notin {"chats", "ask"} => \A h \in Chats : chats[h].state = "unborn"

NotText == <<speakerVars, asmVars, audioVars, indexVars, cacheVars, askVars>>
NotSpeakers == <<textVars, asmVars, audioVars, indexVars, cacheVars, askVars>>
NotTranscript == <<textVars, speakerVars, audioVars, indexVars, cacheVars, askVars>>
NotAudio == <<textVars, speakerVars, asmVars, indexVars, cacheVars, askVars>>
NotIndex == <<textVars, speakerVars, asmVars, audioVars, askVars>>
NotAsk == <<textVars, speakerVars, asmVars, audioVars, indexVars, cacheVars>>

\* Bound: what the copy of the vectors may miss takes one task and one text.
OneIndexes ==
    content' = content /\ tasks'["startup"].at = "start" /\ tasks'[j2].at = "idle"

\* Bound: the questions whose chats interleave need no search.
AskBriefly == \A a \in Asks : asks'[a].at \notin {"search", "period", "generate"}

\* Bound: a question that is searched for is alone, in a chat that is there.
AskAlone ==
    /\ asks'[q2] = Begun /\ asks'[q1].at # "create"
    /\ \A h \in Chats : chats[h].state = "unborn" => chats'[h].state = "unborn"

Next ==
    /\ UNCHANGED focus
    /\ \/ focus = "text" /\ TextNext /\ UNCHANGED NotText
       \/ focus = "speakers" /\ SpeakersNext /\ UNCHANGED NotSpeakers
       \/ focus = "transcript" /\ AsmNext /\ UNCHANGED NotTranscript
       \/ focus = "audio" /\ AudioNext /\ UNCHANGED NotAudio
       \/ /\ focus = "index" /\ UNCHANGED NotIndex
          /\ (IndexNext \/ Restart) /\ UNCHANGED cacheVars
       \/ focus = "search" /\ SearchNext /\ OneIndexes /\ UNCHANGED NotIndex
       \/ focus = "chats" /\ AskNext /\ AskBriefly /\ UNCHANGED NotAsk
       \/ focus = "ask" /\ AskNext /\ AskAlone /\ UNCHANGED NotAsk
=============================================================================
