------------------------------- MODULE Speakers -------------------------------
(***************************************************************************)
(* Who spoke: the speakers of one call, the contacts they are bound to and *)
(* the voice samples by which the contacts are known again.                *)
(*                                                                         *)
(*   pipeline/local_run.rs, pipeline/mod.rs   the steps of a run            *)
(*   pipeline/voice_backfill.rs, matching.rs  learning and recognising      *)
(*   db/calls/speakers.rs, suggestions.rs, clusters.rs, db/contacts.rs,     *)
(*   db/voice_samples.rs                      the rows and the commands     *)
(*                                                                         *)
(* Every query is a step of its own and the user's commands come between   *)
(* them; a transaction is one step.  A tag is what the diarization of the  *)
(* run named: the next run may give it to another voice.                   *)
(***************************************************************************)
EXTENDS Naturals, Sequences, Functions, FiniteSets

CONSTANTS
    SpeakerTags,   \* "speaker:0", "speaker:1", ... : all but OWNER_TAG
    OwnerTag,
    Persons,       \* contacts, the owner apart
    Me,            \* the owner's contact
    Voices, MyVoice,
    Nobody,        \* NULL, None
    MaxSamples,    \* MAX_SAMPLES_PER_CONTACT
    EnoughSamples, \* of a contact that may be bound without being asked for
    SpeakerRuns,   \* bound: runs of the pipeline over the call
    Commands       \* bound: commands of the user

VARIABLES
    callThere,  \* the row of the call
    speakers,   \* call_speakers: tag -> row or Nobody
    voiceSamples,    \* voice_samples: contact -> its samples, oldest first
    person,     \* contacts: "future", "there", "deleted"
    consent,    \* the contacts with consent_voice = "true"
    autoBind,   \* the setting, read when a run starts
    speakerRun, \* the run over the call
    decided,    \* history: what the user said last of a tag: a contact, "undone" or Nobody
    spent       \* runs and commands so far

speakerVars == <<callThere, speakers, voiceSamples, person, consent, autoBind, speakerRun,
                 decided, spent>>

AllTags == SpeakerTags \cup {OwnerTag}
Contacts == Persons \cup {Me}
AnyVoice == Voices \cup {MyVoice, Nobody}

\* A sample's quality is the score of the suggestion, or 1.0 without one.
Weak == 1    \* at least 0.5
Strong == 2  \* at least the threshold of the automatic binding
Unscored == 3

SpeakerRows ==
    [contact : Contacts \cup {Nobody}, confirmed : BOOLEAN, auto : BOOLEAN,
     suggestion : Persons \cup {Nobody}, score : {0, Weak, Strong}, voice : AnyVoice]
Anonymous == [contact |-> Nobody, confirmed |-> FALSE, auto |-> FALSE,
              suggestion |-> Nobody, score |-> 0, voice |-> Nobody]

ASSUME SpeakersAssumption ==
    /\ OwnerTag \notin SpeakerTags /\ Me \notin Persons
    /\ {Nobody, "undone"} \cap Contacts = {} /\ Nobody \notin SpeakerRows
    /\ MaxSamples \in Nat \ {0} /\ EnoughSamples \in 0..MaxSamples
    /\ SpeakerRuns \in Nat /\ Commands \in Nat

NoRun == [step |-> "none", heard |-> <<>>, reconciled |-> FALSE, todo |-> {}, tag |-> Nobody,
          learn |-> Nobody, quality |-> 0, known |-> [k \in Persons |-> {}]]

Exists(k) == k = Me \/ (k \in Persons /\ person[k] = "there")
Elsewhere(v) == [voice |-> v, here |-> FALSE, quality |-> Unscored]

SpeakersInit ==
    /\ callThere = TRUE
    /\ speakers = [t \in AllTags |-> Nobody]
    /\ \E v \in Voices, n \in [Persons -> {0, EnoughSamples}] :
           voiceSamples = [k \in Contacts |-> IF k = Me THEN <<>>
                                         ELSE [i \in 1..n[k] |-> Elsewhere(v)]]
    /\ \E there \in SUBSET Persons :
           /\ person = [k \in Persons |-> IF k \in there THEN "there" ELSE "future"]
           /\ \A k \in Persons \ there : voiceSamples[k] = <<>>
           /\ consent = there
    /\ autoBind \in BOOLEAN
    /\ speakerRun = NoRun
    /\ decided = [t \in AllTags |-> Nobody]
    /\ spent = [runs |-> 0, commands |-> 0]
-----------------------------------------------------------------------------
(* A run of the pipeline *)

OnlyRows == UNCHANGED <<callThere, voiceSamples, person, consent, autoBind, decided, spent>>
Goes(step) == speakerRun' = [speakerRun EXCEPT !.step = step]

StartSpeakers(heard) ==
    /\ callThere /\ speakerRun.step = "none" /\ spent.runs < SpeakerRuns
    /\ spent' = [spent EXCEPT !.runs = @ + 1]
    /\ speakerRun' = [NoRun EXCEPT !.step = "owner", !.heard = heard, !.reconciled = TRUE]
    /\ decided' = [t \in AllTags |-> IF decided[t] = "undone" THEN Nobody ELSE decided[t]]
    /\ UNCHANGED <<callThere, speakers, voiceSamples, person, consent, autoBind>>

\* auto_bind_owner_speaker: a new row, without what the old one knew.
BindOwner ==
    /\ speakerRun.step = "owner" /\ Goes("prune")
    /\ speakers' = [speakers EXCEPT ![OwnerTag] =
                        [Anonymous EXCEPT !.contact = Me, !.confirmed = TRUE]]
    /\ OnlyRows

SpokenTags == DOMAIN speakerRun.heard \ {OwnerTag}
Pruned == {t \in SpeakerTags \ SpokenTags : speakers[t] # Nobody /\ ~speakers[t].confirmed}

\* Mutant: the clean-up forgets that a confirmed row is the user's.
PruneAnything ==
    /\ speakerRun.step = "prune"
    /\ Goes(IF SpokenTags = {} THEN "extract" ELSE "ensure")
    /\ speakers' = [t \in AllTags |-> IF t \in SpeakerTags \ SpokenTags THEN Nobody
                                      ELSE speakers[t]]
    /\ OnlyRows

\* prune_call_speakers_not_in, also when the owner spoke alone.
Prune ==
    /\ speakerRun.step = "prune"
    /\ Goes(IF SpokenTags = {} THEN "extract" ELSE "ensure")
    /\ speakers' = [t \in AllTags |-> IF t \in Pruned THEN Nobody ELSE speakers[t]]
    /\ OnlyRows

EnsurePresent ==
    /\ speakerRun.step = "ensure" /\ Goes("extract")
    /\ speakers' = [t \in AllTags |-> IF t \in SpokenTags /\ speakers[t] = Nobody THEN Anonymous
                                      ELSE speakers[t]]
    /\ OnlyRows

\* Each of the three may fail; the run logs it and goes on.
ReconcileFails ==
    /\ speakerRun.step \in {"owner", "prune", "ensure"}
    /\ speakerRun' = [speakerRun EXCEPT !.reconciled = FALSE,
                         !.step = CASE @ = "owner" -> "prune"
                                    [] @ = "prune" /\ SpokenTags # {} -> "ensure"
                                    [] OTHER -> "extract"]
    /\ UNCHANGED speakers /\ OnlyRows

\* list_consenting_samples: read once, before the first tag.
Consenting ==
    [k \in Persons |-> IF k \in consent /\ Exists(k)
                       THEN {s.voice : s \in Range(voiceSamples[k])} ELSE {}]

\* extract_clusters: a tag with no segment long enough has no cluster.
ExtractClusters ==
    /\ speakerRun.step = "extract"
    /\ \E todo \in SUBSET DOMAIN speakerRun.heard :
           speakerRun' = [speakerRun EXCEPT !.todo = todo,
                             !.known = IF todo = {} THEN @ ELSE Consenting,
                             !.step = IF todo = {} THEN "bind" ELSE "cluster"]
    /\ UNCHANGED speakers /\ OnlyRows

\* set_call_speaker_cluster; the clusters are a HashMap, so in any order.
SetCluster(t) ==
    /\ speakerRun.step = "cluster" /\ t \in speakerRun.todo
    /\ speakerRun' = [speakerRun EXCEPT !.step = "backfill", !.tag = t, !.todo = @ \ {t}]
    /\ speakers' = IF speakers[t] = Nobody THEN speakers
                   ELSE [speakers EXCEPT ![t].voice = speakerRun.heard[t]]
    /\ OnlyRows

QualityOf(row) == IF row.suggestion = Nobody THEN Unscored ELSE row.score

\* The read of maybe_backfill_voice_sample, outside its transaction.
ReadBackfill ==
    /\ speakerRun.step = "backfill"
    /\ LET row == speakers[speakerRun.tag]
           learns == row # Nobody /\ row.confirmed /\ row.contact \in consent
       IN  speakerRun' = [speakerRun EXCEPT !.step = IF learns THEN "learn" ELSE "suggest",
                             !.learn = IF learns THEN row.contact ELSE Nobody,
                             !.quality = IF learns THEN QualityOf(row) ELSE 0]
    /\ UNCHANGED speakers /\ OnlyRows

\* evict_old_voice_samples: ORDER BY quality DESC, created_at DESC LIMIT 5.
Better(s, i, j) == s[i].quality > s[j].quality \/ (s[i].quality = s[j].quality /\ i > j)
Picked(s, places) ==
    [n \in 1..Cardinality(places) |->
        s[CHOOSE i \in places : Cardinality({j \in places : j < i}) = n - 1]]
Evict(s) ==
    Picked(s, {i \in DOMAIN s : Cardinality({j \in DOMAIN s : Better(s, j, i)}) < MaxSamples})

FromHere(v, q) == [voice |-> v, here |-> TRUE, quality |-> q]
FromOthers(s) == Picked(s, {i \in DOMAIN s : ~s[i].here})

\* The transaction: the contact's sample of this call is replaced.  For a
\* contact that was deleted meanwhile the foreign key refuses it.
Backfill ==
    /\ speakerRun.step = "learn"
    /\ speakerRun' = [speakerRun EXCEPT !.step = "suggest", !.learn = Nobody, !.quality = 0]
    /\ LET k == speakerRun.learn
           new == FromHere(speakerRun.heard[speakerRun.tag], speakerRun.quality)
       IN  voiceSamples' = IF ~Exists(k) THEN voiceSamples
                      ELSE [voiceSamples EXCEPT ![k] = Evict(Append(FromOthers(@), new))]
    /\ UNCHANGED <<callThere, speakers, person, consent, autoBind, decided, spent>>

NextTag == IF speakerRun.todo = {} THEN "bind" ELSE "cluster"

\* rank_candidates over what was read and set_call_speaker_suggestion: the
\* owner's tag is not matched, no candidate changes nothing, and neither does
\* one that was deleted (the foreign key) or a row that is gone.
Candidates == {k \in Persons : speakerRun.heard[speakerRun.tag] \in speakerRun.known[k]}

SuggestContact(k, score) ==
    /\ speakerRun.step = "suggest" /\ speakerRun.tag # OwnerTag /\ k \in Candidates
    /\ speakerRun' = [speakerRun EXCEPT !.step = NextTag, !.tag = Nobody]
    /\ speakers' = IF speakers[speakerRun.tag] = Nobody \/ ~Exists(k) THEN speakers
                   ELSE [speakers EXCEPT ![speakerRun.tag].suggestion = k,
                                         ![speakerRun.tag].score = score]
    /\ OnlyRows

NoCandidate ==
    /\ speakerRun.step = "suggest" /\ (speakerRun.tag = OwnerTag \/ Candidates = {})
    /\ speakerRun' = [speakerRun EXCEPT !.step = NextTag, !.tag = Nobody]
    /\ UNCHANGED speakers /\ OnlyRows

MayBind(t) ==
    LET row == speakers[t]
    IN  /\ t # OwnerTag /\ row # Nobody /\ ~row.confirmed /\ row.contact = Nobody
        /\ row.suggestion # Nobody /\ row.score >= Strong
        /\ row.suggestion \in consent
        /\ Len(voiceSamples[row.suggestion]) >= EnoughSamples

\* auto_bind_high_confidence_speakers, one statement, and the end of the run.
AutoBind ==
    /\ speakerRun.step = "bind" /\ speakerRun' = NoRun
    /\ speakers' = [t \in AllTags |->
                      IF autoBind /\ MayBind(t)
                      THEN [speakers[t] EXCEPT !.contact = speakers[t].suggestion,
                                               !.confirmed = TRUE, !.auto = TRUE]
                      ELSE speakers[t]]
    /\ OnlyRows

\* The user aborts the run, or the application ends.
CutRun ==
    /\ speakerRun.step # "none" /\ speakerRun' = NoRun
    /\ UNCHANGED speakers /\ OnlyRows
-----------------------------------------------------------------------------
(* The user's commands *)

Command == spent.commands < Commands /\ spent' = [spent EXCEPT !.commands = @ + 1]

\* confirm_call_speaker, one transaction.  It inserts a sample each time.
ConfirmSpeaker(t, k) ==
    /\ Command /\ speakers[t] # Nobody /\ Exists(k)
    /\ speakers' = [speakers EXCEPT ![t].contact = k, ![t].confirmed = TRUE, ![t].auto = FALSE]
    /\ voiceSamples' = IF k \in consent /\ speakers[t].voice # Nobody
                       THEN [voiceSamples EXCEPT ![k] =
                           Evict(Append(@, FromHere(speakers[t].voice, QualityOf(speakers[t]))))]
                       ELSE voiceSamples
    /\ decided' = [decided EXCEPT ![t] = k]
    /\ UNCHANGED <<callThere, person, consent, autoBind, speakerRun>>

\* unbind_call_speaker: the sample it may have left stays.
UnbindSpeaker(t) ==
    /\ Command /\ speakers[t] # Nobody
    /\ speakers' = [speakers EXCEPT ![t].contact = Nobody, ![t].confirmed = FALSE,
                                    ![t].auto = FALSE]
    /\ decided' = [decided EXCEPT ![t] = "undone"]
    /\ UNCHANGED <<callThere, voiceSamples, person, consent, autoBind, speakerRun>>

CreateContact(k) ==
    /\ Command /\ person[k] = "future"
    /\ person' = [person EXCEPT ![k] = "there"]
    /\ UNCHANGED <<callThere, speakers, voiceSamples, consent, autoBind, speakerRun, decided>>

\* update_contact writes the attributes, and with them the consent.
UpdateContact(k) ==
    /\ Command /\ Exists(k)
    /\ consent' = IF k \in consent THEN consent \ {k} ELSE consent \cup {k}
    /\ UNCHANGED <<callThere, speakers, voiceSamples, person, autoBind, speakerRun, decided>>

\* ON DELETE SET NULL: a confirmed row stays confirmed, of nobody.
WithoutContact(row, k) ==
    IF row = Nobody THEN row
    ELSE [row EXCEPT !.contact = IF @ = k THEN Nobody ELSE @,
                     !.suggestion = IF @ = k THEN Nobody ELSE @]

DeleteContact(k) ==
    /\ Command /\ Exists(k) /\ k # Me
    /\ person' = [person EXCEPT ![k] = "deleted"]
    /\ consent' = consent \ {k} /\ voiceSamples' = [voiceSamples EXCEPT ![k] = <<>>]
    /\ speakers' = [t \in AllTags |-> WithoutContact(speakers[t], k)]
    /\ decided' = [t \in AllTags |-> IF decided[t] = k THEN Nobody ELSE decided[t]]
    /\ UNCHANGED <<callThere, autoBind, speakerRun>>

DeleteSample(k, i) ==
    /\ Command /\ i \in DOMAIN voiceSamples[k]
    /\ voiceSamples' = [voiceSamples EXCEPT ![k] = Picked(@, DOMAIN @ \ {i})]
    /\ UNCHANGED <<callThere, speakers, person, consent, autoBind, speakerRun, decided>>

\* delete_call ends the run first; delete_call_and_samples is one transaction.
DeleteCall ==
    /\ Command /\ callThere
    /\ callThere' = FALSE /\ speakerRun' = NoRun
    /\ speakers' = [t \in AllTags |-> Nobody]
    /\ voiceSamples' = [k \in Contacts |-> FromOthers(voiceSamples[k])]
    /\ decided' = [t \in AllTags |-> Nobody]
    /\ UNCHANGED <<person, consent, autoBind>>

\* run_cluster_pipeline
RunClusters ==
    \/ ExtractClusters
    \/ \E t \in AllTags : SetCluster(t)
    \/ ReadBackfill \/ Backfill
    \/ \E k \in Persons, score \in {Weak, Strong} : SuggestContact(k, score)
    \/ NoCandidate

SpeakersNext ==
    \/ \E spoken \in SUBSET SpeakerTags : \E v \in [spoken -> Voices] :
           StartSpeakers([t \in spoken \cup {OwnerTag} |-> IF t = OwnerTag THEN MyVoice ELSE v[t]])
    \/ BindOwner \/ Prune \/ EnsurePresent \/ ReconcileFails
    \/ RunClusters \/ AutoBind \/ CutRun
    \/ \E t \in AllTags, k \in Contacts : ConfirmSpeaker(t, k)
    \/ \E t \in AllTags : UnbindSpeaker(t)
    \/ \E k \in Persons : CreateContact(k) \/ DeleteContact(k)
    \/ \E k \in Contacts : UpdateContact(k)
    \/ \E k \in Contacts, i \in 1..MaxSamples : DeleteSample(k, i)
    \/ DeleteCall

SpeakersSpec == SpeakersInit /\ [][SpeakersNext]_speakerVars
-----------------------------------------------------------------------------
(* Properties *)

\* What the user decided of a speaker stands, whatever runs and however often,
\* until the user undoes it or deletes the contact.
DecisionStands ==
    \A t \in SpeakerTags : decided[t] \in Contacts =>
        /\ speakers[t] # Nobody
        /\ speakers[t].contact = decided[t] /\ speakers[t].confirmed /\ ~speakers[t].auto

\* After a run in which nothing failed there is a row for each tag of the
\* transcript, so that a cluster and a suggestion find one, and no other row
\* than the user's.
RowsFollowTranscript ==
    speakerRun.reconciled /\ speakerRun.step \notin {"owner", "prune", "ensure"} =>
        \A t \in SpeakerTags :
            IF t \in SpokenTags THEN speakers[t] # Nobody
            ELSE speakers[t] # Nobody => speakers[t].confirmed \/ decided[t] = "undone"

\* Nothing names a contact that is gone or comes from a call that is gone,
\* whatever a run had read before, and no contact has more samples than it may.
NoDangling ==
    /\ \A t \in AllTags : speakers[t] # Nobody =>
           /\ callThere
           /\ speakers[t].contact # Nobody => Exists(speakers[t].contact)
           /\ speakers[t].suggestion # Nobody => Exists(speakers[t].suggestion)
    /\ \A k \in Contacts :
           /\ voiceSamples[k] # <<>> => Exists(k)
           /\ Len(voiceSamples[k]) <= MaxSamples
           /\ \A s \in Range(voiceSamples[k]) : s.here => callThere

\* Speakers, contacts and samples agree.
SpeakersKept == DecisionStands /\ RowsFollowTranscript /\ NoDangling
=============================================================================
