---------------------------- MODULE RecapGeneration ----------------------------
(***************************************************************************)
(* How a recap is generated and put in the place of the one before it.      *)
(*                                                                         *)
(*   pipeline/local_run.rs, local_llm.rs   the two callers, and the banner  *)
(*   pipeline/local_orchestrator.rs,                                       *)
(*   pipeline/refine_chain.rs              the passes of the language model *)
(*   pipeline/recap.rs                     what is written, in which order  *)
(*   pipeline/recap_progress.rs            the ticker beside the passes     *)
(*   commands/pipeline.rs                  the run over all blank recaps    *)
(*                                                                         *)
(* A generation writes six places one after the other, with no transaction  *)
(* around them.  The registry of PipelineTasks keeps the registered tasks   *)
(* of a call apart and may abort one wherever it awaits; the run over the   *)
(* blank recaps does not ask it.                                            *)
(***************************************************************************)
EXTENDS Naturals, Sequences, FiniteSets

CONSTANTS
    RecapCalls,
    LongCalls,  \* those whose transcript goes through the chain
    ChunkCount, \* chunks of a long transcript
    MaxGen,     \* bound: generations begun
    Bulks,      \* runs of regenerate_empty_recaps
    NoCall

ASSUME RecapAssumption ==
    /\ LongCalls \subseteq RecapCalls /\ NoCall \notin RecapCalls /\ "task" \notin Bulks
    /\ {ChunkCount, MaxGen} \subseteq Nat \ {0}

VARIABLES
    art,        \* call -> part -> the generation it is from; 0 before any
    banner,     \* calls with a recap_failed_reason
    writer,     \* who generates: the registered task, and the runs over all
    ticking,    \* generations whose ticker runs
    targets, bulkAt, bulkCancel,    \* regenerate_empty_recaps
    begun,      \* generations begun
    blankGens,  \* history: generations whose answer was blank
    torn,       \* history: calls with a write that failed, was cut short or overlapped
    lastEnd,    \* history: call -> how its last generation ended that came to an end
    cutShort,   \* history: generations that were aborted or panicked
    written,    \* history: run -> calls written to since it looked for the blank ones
    told,       \* history: the runs that were told to stop
    misdeeds    \* history: "ignored" a stop, "replaced" a recap that was there

callVars == <<art, banner, torn, lastEnd>>
bulkVars == <<targets, bulkAt, bulkCancel, written, told, misdeeds>>
recapVars == <<callVars, bulkVars, writer, ticking, begun, blankGens, cutShort>>

Writers == {"task"} \cup Bulks
\* The places a recap is written to, in the order of persist_summary_v2.
ItemsPart == 1
DecisionsPart == 2
QuestionsPart == 3
TitlePart == 4
MetaPart == 5
FilePart == 6
Parts == {ItemsPart, DecisionsPart, QuestionsPart, TitlePart, MetaPart, FilePart}
Chunks(c) == IF c \in LongCalls THEN ChunkCount ELSE 1
Tries(c) == IF c \in LongCalls THEN 2 ELSE 1

\* good are the chunks the state of the model stands for, valid those it
\* answered well.
Passes == {"classify", "model", "polish", "narrate"}
IdleWriter == [at |-> "idle", call |-> NoCall, pipeline |-> FALSE, gen |-> 0, chunk |-> 0,
               try |-> 0, good |-> {}, valid |-> {}, part |-> 0, ok |-> FALSE]

RecapTypeOK ==
    /\ art \in [RecapCalls -> [Parts -> 0..MaxGen]]
    /\ banner \subseteq RecapCalls /\ torn \subseteq RecapCalls
    /\ \A w \in Writers : /\ writer[w].at \in Passes \cup {"idle", "provider", "check", "write",
                                                         "settle"}
                          /\ writer[w].call \in RecapCalls \cup {NoCall}
                          /\ writer[w].part \in 0..FilePart
    /\ ticking \subseteq 1..MaxGen /\ begun \in 0..MaxGen
    /\ targets \in [Bulks -> SUBSET RecapCalls]

RecapInit ==
    /\ art = [c \in RecapCalls |-> [p \in Parts |-> 0]]
    /\ banner = {} /\ torn = {} /\ lastEnd = [c \in RecapCalls |-> "none"]
    /\ writer = [w \in Writers |-> IdleWriter]
    /\ ticking = {} /\ begun = 0 /\ blankGens = {} /\ cutShort = {}
    /\ targets = [b \in Bulks |-> {}] /\ bulkAt = [b \in Bulks |-> "off"]
    /\ bulkCancel = FALSE
    /\ written = [b \in Bulks |-> {}] /\ told = {} /\ misdeeds = {}

Busy(c) == \E w \in Writers : writer[w].call = c
Set(w, rec) == writer' = [writer EXCEPT ![w] = rec]
Settling(w, ok) == [IdleWriter EXCEPT !.at = "settle", !.call = writer[w].call, !.ok = ok]

\* regenerate_recap clears the banner first; the pipeline when it is done.
Begin(w, c, pipeline) ==
    /\ writer[w].at = "idle" /\ begun < MaxGen
    /\ begun' = begun + 1
    /\ Set(w, [IdleWriter EXCEPT !.at = "provider", !.call = c, !.pipeline = pipeline,
                                 !.gen = begun + 1])
    /\ banner' = IF pipeline THEN banner ELSE banner \ {c}
    /\ torn' = IF Busy(c) THEN torn \cup {c} ELSE torn
    /\ lastEnd' = [lastEnd EXCEPT ![c] = "none"]
    /\ UNCHANGED <<art, ticking, blankGens, cutShort>>

BeginTask(c, pipeline) == Begin("task", c, pipeline) /\ UNCHANGED bulkVars

\* build_local_llm_provider.  Its error leaves run_recap by `?`: the pipeline
\* fails as a whole and says so in the status of the call, not in the banner.
Provider(w) ==
    /\ writer[w].at = "provider"
    /\ \/ /\ Set(w, [writer[w] EXCEPT !.at = "classify", !.pipeline = FALSE])
          /\ ticking' = ticking \cup {writer[w].gen}
       \/ /\ Set(w, IF writer[w].pipeline THEN IdleWriter ELSE Settling(w, FALSE))
          /\ UNCHANGED ticking
    /\ UNCHANGED <<callVars, begun, blankGens, cutShort, bulkVars>>

\* The kind of call is a hint: without it the prompt is the universal one.
Classify(w) ==
    /\ writer[w].at = "classify"
    /\ Set(w, [writer[w] EXCEPT !.at = "model", !.chunk = 1, !.try = 1])
    /\ UNCHANGED <<callVars, ticking, begun, blankGens, cutShort, bulkVars>>

\* The next chunk, or "all chunks failed", or the passes that follow.
AfterChunk(w, good, valid) ==
    IF writer[w].chunk < Chunks(writer[w].call)
    THEN /\ Set(w, [writer[w] EXCEPT !.chunk = @ + 1, !.try = 1, !.good = good, !.valid = valid])
         /\ UNCHANGED ticking
    ELSE IF good = {}
    THEN Set(w, Settling(w, FALSE)) /\ ticking' = ticking \ {writer[w].gen}
    ELSE /\ Set(w, [writer[w] EXCEPT !.at = "polish", !.chunk = 0, !.try = 0,
                                     !.good = good, !.valid = valid])
         /\ UNCHANGED ticking

ValidAnswer(w) ==
    /\ writer[w].at = "model"
    /\ LET i == writer[w].chunk
       IN  AfterChunk(w, writer[w].good \cup {i}, writer[w].valid \cup {i})
    /\ UNCHANGED <<callVars, begun, blankGens, cutShort, bulkVars>>

\* An error or an invalid state: once more with a shorter state, then the
\* chunk is skipped and the state of those before it stays.
BadAnswer(w) ==
    /\ writer[w].at = "model"
    /\ IF writer[w].try < Tries(writer[w].call)
       THEN Set(w, [writer[w] EXCEPT !.try = @ + 1]) /\ UNCHANGED ticking
       ELSE AfterChunk(w, writer[w].good, writer[w].valid)
    /\ UNCHANGED <<callVars, begun, blankGens, cutShort, bulkVars>>

\* refine_action_items: whatever goes wrong, the items stay as they are.
PostPass(w) ==
    /\ writer[w].at = "polish"
    /\ Set(w, [writer[w] EXCEPT !.at = "narrate"])
    /\ UNCHANGED <<callVars, ticking, begun, blankGens, cutShort, bulkVars>>

\* generate_narrative: none when the model fails.  The passes are over.
Narrate(w) ==
    /\ writer[w].at = "narrate"
    /\ Set(w, [writer[w] EXCEPT !.at = "check"])
    /\ ticking' = ticking \ {writer[w].gen}
    /\ UNCHANGED <<callVars, begun, blankGens, cutShort, bulkVars>>

\* Mutant: the rows are replaced before the blank check.
CheckAnswerLate(w) ==
    /\ writer[w].at = "check"
    /\ art' = [art EXCEPT ![writer[w].call][ItemsPart] = writer[w].gen]
    /\ \/ /\ Set(w, [writer[w] EXCEPT !.at = "write", !.good = {}, !.valid = {},
                                           !.part = DecisionsPart])
          /\ UNCHANGED blankGens
       \/ /\ Set(w, Settling(w, FALSE))
          /\ blankGens' = blankGens \cup {writer[w].gen}
    /\ UNCHANGED <<banner, torn, lastEnd, ticking, begun, cutShort, bulkVars>>

\* parse, strip_and_dedup, and the check for a blank recap before any write.
CheckAnswer(w) ==
    /\ writer[w].at = "check"
    /\ \/ /\ Set(w, [writer[w] EXCEPT !.at = "write", !.good = {}, !.valid = {},
                                           !.part = ItemsPart])
          /\ UNCHANGED blankGens
       \/ /\ Set(w, Settling(w, FALSE))
          /\ blankGens' = blankGens \cup {writer[w].gen}
    /\ UNCHANGED <<callVars, ticking, begun, cutShort, bulkVars>>

NextPart(w) ==
    IF writer[w].part = FilePart
    THEN Settling(w, TRUE)
    ELSE [writer[w] EXCEPT !.part = @ + 1]

\* What the histories say of a write of w to c.
Observe(w, c) ==
    /\ written' = [b \in Bulks |-> IF b = w \/ bulkAt[b] = "off" THEN written[b]
                                   ELSE written[b] \cup {c}]
    /\ misdeeds' = IF w \in Bulks /\ art[c][FilePart] # 0 /\ c \notin written[w]
                   THEN misdeeds \cup {"replaced"} ELSE misdeeds

\* One of the six writes; an empty title is not written.
WritePart(w) ==
    LET c == writer[w].call IN
    /\ writer[w].at = "write"
    /\ \/ art' = [art EXCEPT ![c][writer[w].part] = writer[w].gen]
       \/ writer[w].part = TitlePart /\ UNCHANGED art
    /\ Set(w, NextPart(w))
    /\ Observe(w, c)
    /\ UNCHANGED <<banner, torn, lastEnd, ticking, begun, blankGens, cutShort, targets, bulkAt,
                   bulkCancel, told>>

\* The parts before it stay written.
WriteFails(w) ==
    /\ writer[w].at = "write"
    /\ Set(w, Settling(w, FALSE))
    /\ torn' = torn \cup {writer[w].call}
    /\ UNCHANGED <<art, banner, lastEnd, ticking, begun, blankGens, cutShort, bulkVars>>

\* set_recap_failed_reason(None) or set_recap_failure.
Settle(w) ==
    LET c == writer[w].call IN
    /\ writer[w].at = "settle"
    /\ banner' = IF writer[w].ok THEN banner \ {c} ELSE banner \cup {c}
    /\ lastEnd' = [lastEnd EXCEPT ![c] = IF writer[w].ok THEN "ok" ELSE "failed"]
    /\ Set(w, IdleWriter)
    /\ UNCHANGED <<art, torn, ticking, begun, blankGens, cutShort, bulkVars>>

\* The future is dropped where it awaits: its ticker, a task of its own, is
\* detached and goes on; a write under way stays half done.
CutShort(w) ==
    LET c == writer[w].call IN
    /\ torn' = IF writer[w].at = "write" THEN torn \cup {c} ELSE torn
    /\ cutShort' = cutShort \cup ({writer[w].gen} \cap ticking)
    /\ Set(w, IdleWriter)
    /\ UNCHANGED <<art, banner, lastEnd, ticking, begun, blankGens>>

\* cancel, delete, reprocess.
AbortTask == writer["task"].at # "idle" /\ CutShort("task") /\ UNCHANGED bulkVars

\* An invalid state whose 120th byte lies inside a letter: the log line panics.
Panics(w) ==
    /\ writer[w].at = "model" /\ writer[w].call \in LongCalls
    /\ CutShort(w)
    /\ bulkAt' = IF w \in Bulks THEN [bulkAt EXCEPT ![w] = "off"] ELSE bulkAt
    /\ UNCHANGED <<targets, bulkCancel, written, told, misdeeds>>

BlankCalls == {c \in RecapCalls : art[c][FilePart] = 0}

BulkScan(b) ==
    /\ bulkAt[b] = "off" /\ writer[b].at = "idle" /\ BlankCalls # {} /\ begun < MaxGen
    /\ bulkAt' = [bulkAt EXCEPT ![b] = "found"]
    /\ targets' = [targets EXCEPT ![b] = BlankCalls]
    /\ written' = [written EXCEPT ![b] = {}]
    /\ UNCHANGED <<callVars, writer, ticking, begun, blankGens, cutShort, bulkCancel, told,
                   misdeeds>>

\* The one flag is reset, whoever has been told to stop by it.
BulkSpawn(b) ==
    /\ bulkAt[b] = "found"
    /\ bulkAt' = [bulkAt EXCEPT ![b] = "run"]
    /\ bulkCancel' = FALSE /\ told' = {}
    /\ UNCHANGED <<callVars, writer, ticking, begun, blankGens, cutShort, targets, written,
                   misdeeds>>

CancelBulk ==
    /\ bulkCancel' = TRUE
    /\ told' = {b \in Bulks : bulkAt[b] = "run"}
    /\ UNCHANGED <<callVars, writer, ticking, begun, blankGens, cutShort, targets, bulkAt,
                   written, misdeeds>>

GoesOn(b) == targets[b] # {} /\ ~bulkCancel

\* The next target; one that is gone or lost its transcript is only counted.
BulkNext(b) ==
    /\ bulkAt[b] = "run" /\ writer[b].at = "idle" /\ GoesOn(b)
    /\ \E c \in targets[b] :
        /\ targets' = [targets EXCEPT ![b] = @ \ {c}]
        /\ \/ Begin(b, c, FALSE)
           \/ UNCHANGED <<callVars, writer, ticking, begun, blankGens, cutShort>>
    /\ misdeeds' = IF b \in told THEN misdeeds \cup {"ignored"} ELSE misdeeds
    /\ UNCHANGED <<bulkAt, bulkCancel, written, told>>

BulkEnds(b) ==
    /\ bulkAt[b] = "run" /\ writer[b].at = "idle" /\ ~GoesOn(b)
    /\ bulkAt' = [bulkAt EXCEPT ![b] = "off"]
    /\ told' = told \ {b}
    /\ targets' = [targets EXCEPT ![b] = {}] /\ written' = [written EXCEPT ![b] = {}]
    /\ UNCHANGED <<callVars, writer, ticking, begun, blankGens, cutShort, bulkCancel, misdeeds>>

\* run_v2_pipeline: a short transcript in one piece, a long one through the chain.
Generates(w) ==
    \/ Classify(w) \/ ValidAnswer(w) \/ BadAnswer(w) \/ Panics(w)
    \/ PostPass(w) \/ Narrate(w)

\* persist_recap_from_json
Persists(w) == CheckAnswer(w) \/ WritePart(w) \/ WriteFails(w)

Writes(w) == Provider(w) \/ Generates(w) \/ Persists(w) \/ Settle(w)

RecapNext ==
    \/ \E c \in RecapCalls, pipeline \in BOOLEAN : BeginTask(c, pipeline)
    \/ AbortTask \/ CancelBulk
    \/ \E w \in Writers : Writes(w)
    \/ \E b \in Bulks : BulkScan(b) \/ BulkSpawn(b) \/ BulkNext(b) \/ BulkEnds(b)

RecapSpec == RecapInit /\ [][RecapNext]_recapVars
-----------------------------------------------------------------------------
(* Properties *)

\* What the user sees of one call is of one generation: rows, figures and file
\* agree once nobody writes, unless a write failed, was cut short, or two
\* writers met.  A title may be older, for an empty one is not written.
OneGeneration ==
    \A c \in RecapCalls : c \notin torn /\ ~Busy(c) =>
        \A p, q \in Parts \ {TitlePart} : art[c][p] = art[c][q]

\* An answer that says nothing replaces nothing of the recap before it.
BlankKeepsOld == \A c \in RecapCalls, p \in Parts : art[c][p] \notin blankGens

\* The banner is there after a generation that failed, and only then.
BannerTells ==
    \A c \in RecapCalls :
        /\ lastEnd[c] = "failed" => c \in banner
        /\ lastEnd[c] = "ok" => c \notin banner

\* A chunk that fails twice costs that chunk and no other: what was taken from
\* those before it stays in the recap.
LosesOnlyBadChunks == \A w \in Writers : writer[w].good = writer[w].valid

\* "Recreating, n seconds" is announced only while the model works on that
\* generation; one that is aborted leaves its ticker behind.
TickerEnds ==
    \A g \in ticking \ cutShort :
        \E w \in Writers : writer[w].gen = g /\ writer[w].at \in Passes

\* The run over the blank recaps begins no call after it was told to stop, as
\* long as no other run is started, and writes over a recap that is there only
\* when somebody wrote it since the run looked.
BulkKeepsToBlank == misdeeds = {}

\* A recap is replaced as a whole, by one that says something, and the banner
\* tells when it was not.
RecapIsWhole == OneGeneration /\ BlankKeepsOld /\ BannerTells

\* The passes end as they should, each for itself and all one after the other.
PassesEnd == LosesOnlyBadChunks /\ TickerEnds /\ BulkKeepsToBlank

\* All of it: a recap is whole, and the passes end as they should.
RecapKept == RecapTypeOK /\ RecapIsWhole /\ PassesEnd
=============================================================================
