----------------------------- MODULE Provisioning -----------------------------
(***************************************************************************)
(* The models of the local engine on disk: download, check, removal.       *)
(*                                                                         *)
(*   local_engine/models.rs          status, download under a lock, delete  *)
(*   local_engine/provisioning.rs    ensure_required, free_space            *)
(*   local_engine/model_integrity.rs the check after a start, its verdicts  *)
(*   local_engine/readiness.rs       which models a preset needs            *)
(*   local_engine/model_migrate.rs   the embedder of earlier versions       *)
(*   commands/local_engine.rs        the commands, set_active_preset        *)
(*                                                                         *)
(* A verdict is the fingerprint of the file that was checked: "matches"    *)
(* when it is the present file's, "stale" when that was replaced since.    *)
(* Files go bad while the application does not run, and their fingerprint  *)
(* changes; the reads of one readiness computation are taken together.     *)
(***************************************************************************)
EXTENDS Naturals, FiniteSets

CONSTANTS
    ModelPresets,
    Own,          \* preset -> the models only it needs
    Base,         \* the embedder, which every preset needs
    NoModel

Models == (UNION {Own[p] : p \in ModelPresets}) \cup {Base}

ASSUME ProvisionAssumption ==
    /\ ModelPresets # {} /\ \A p \in ModelPresets : Base \notin Own[p]
    /\ NoModel \notin Models

VARIABLES
    chosenPreset,
    disk,         \* models: "absent", "good", "bad" (right size, wrong bytes)
    verdict,      \* models: "matches", "stale" (or none), "failed"
    legacy,       \* the embedder under its old path
    locks,        \* download_lock: models -> who holds it
    loads,        \* who downloads what, and where it is
    ensure,       \* ensure_required: where, for which models (none after an error)
    freeing,      \* free_space: the ids it still removes
    checking,     \* verify_present_models: models to go, and the one at hand
    lost          \* history: those of them removed or failed since it began

provisionVars == <<chosenPreset, disk, verdict, legacy, locks, loads, ensure, freeing, checking,
                   lost>>

Loaders == {"ensure", "command"}
Required(p) == Own[p] \cup {Base}
\* check_status_fast looks at the size.
PresentBySize(m) == disk[m] # "absent"
Missing(p) == {m \in Required(p) : ~PresentBySize(m) \/ verdict[m] = "failed"}
ReadyNow == Missing(chosenPreset) = {}

NoLoad == [at |-> "idle", model |-> NoModel]
NoEnsure == [at |-> "idle", todo |-> {}, for |-> {}, failed |-> FALSE]
AllModels == [at |-> "next", todo |-> Models, model |-> NoModel, replaced |-> FALSE]

ProvisionInit ==
    /\ chosenPreset \in ModelPresets
    /\ disk = [m \in Models |-> "absent"] /\ verdict = [m \in Models |-> "stale"]
    /\ legacy \in {"absent", "good"}
    /\ locks = [m \in Models |-> "free"]
    /\ loads = [l \in Loaders |-> NoLoad]
    /\ ensure = NoEnsure /\ freeing = {}
    /\ checking = AllModels
    /\ lost = {}

\* What a replaced or removed file does to a verdict about it, and to a check
\* that has read its fingerprint.
Outdated(m) == IF verdict[m] = "matches" THEN [verdict EXCEPT ![m] = "stale"] ELSE verdict
LostNow(m) == lost \cup ({m} \cap ensure.for)
SeesReplaced(m) == [checking EXCEPT !.replaced = @ \/ checking.model = m]

ChoosePreset ==
    /\ chosenPreset' \in ModelPresets \ {chosenPreset}
    /\ UNCHANGED <<disk, verdict, legacy, locks, loads, ensure, freeing, checking, lost>>

\* models::download, first the lock of the model.
BeginLoad(l, m) == loads' = [loads EXCEPT ![l] = [at |-> "lock", model |-> m]]

CommandDownload(m) ==
    /\ loads["command"].at = "idle"
    /\ BeginLoad("command", m)
    /\ UNCHANGED <<chosenPreset, disk, verdict, legacy, locks, ensure, freeing, checking, lost>>

\* The command is over with its download: it does not touch the verdict.
LoadEnds(l, how) ==
    loads' = [loads EXCEPT ![l] = IF l = "command" THEN NoLoad ELSE [@ EXCEPT !.at = how]]

\* Under the lock the file is checked by its hash.
LockModel(l) ==
    LET m == loads[l].model IN
    /\ loads[l].at = "lock" /\ locks[m] = "free"
    /\ IF disk[m] = "good"
       THEN LoadEnds(l, "ok") /\ UNCHANGED locks
       ELSE /\ loads' = [loads EXCEPT ![l].at = "fetch"]
            /\ locks' = [locks EXCEPT ![m] = l]
    /\ UNCHANGED <<chosenPreset, disk, verdict, legacy, ensure, freeing, checking, lost>>

UnlockedModel(l) == [locks EXCEPT ![loads[l].model] = IF @ = l THEN "free" ELSE @]

\* A part file of its own; renamed when its hash is right.  A transfer that
\* breaks off leaves the part file, a wrong hash removes it.
Fetch(l) ==
    LET m == loads[l].model IN
    /\ loads[l].at = "fetch"
    /\ \/ /\ disk' = [disk EXCEPT ![m] = "good"]
          /\ verdict' = Outdated(m) /\ checking' = SeesReplaced(m)
          /\ LoadEnds(l, "ok")
       \/ /\ LoadEnds(l, "err")
          /\ UNCHANGED <<disk, verdict, checking>>
    /\ locks' = UnlockedModel(l)
    /\ UNCHANGED <<chosenPreset, legacy, ensure, freeing, lost>>

\* delete; nothing keeps it from a download in progress.
Removed(m) ==
    /\ disk' = [disk EXCEPT ![m] = "absent"]
    /\ verdict' = Outdated(m) /\ checking' = SeesReplaced(m)
    /\ lost' = LostNow(m)

CommandDelete(m) ==
    /\ PresentBySize(m) /\ Removed(m)
    /\ UNCHANGED <<chosenPreset, legacy, locks, loads, ensure, freeing>>

\* Recognition and language models the preset does not need.
Removable(p) == Models \ Required(p)

BeginFree ==
    /\ freeing = {} /\ freeing' = {m \in Removable(chosenPreset) : PresentBySize(m)}
    /\ freeing' # {}
    /\ UNCHANGED <<chosenPreset, disk, verdict, legacy, locks, loads, ensure, checking, lost>>

FreeOne(m) ==
    /\ m \in freeing /\ freeing' = freeing \ {m}
    /\ Removed(m)
    /\ UNCHANGED <<chosenPreset, legacy, locks, loads, ensure>>

BeginEnsure ==
    /\ ensure.at = "idle"
    /\ ensure' = [at |-> "next", todo |-> Missing(chosenPreset), for |-> Required(chosenPreset),
                  failed |-> FALSE]
    /\ lost' = {}
    /\ UNCHANGED <<chosenPreset, disk, verdict, legacy, locks, loads, freeing, checking>>

EnsureNext ==
    LET m == CHOOSE c \in ensure.todo : TRUE IN
    /\ ensure.at = "next" /\ ensure.todo # {}
    /\ ensure' = [ensure EXCEPT !.at = "load", !.todo = @ \ {m}]
    /\ BeginLoad("ensure", m)
    /\ UNCHANGED <<chosenPreset, disk, verdict, legacy, locks, freeing, checking, lost>>

\* Mutant: the verdict about the old file stays.
EnsureLoadedUnmarked ==
    /\ ensure.at = "load" /\ loads["ensure"].at \in {"ok", "err"}
    /\ ensure' = [ensure EXCEPT !.at = "next", !.failed = @ \/ loads["ensure"].at = "err"]
    /\ loads' = [loads EXCEPT !["ensure"] = NoLoad]
    /\ UNCHANGED <<chosenPreset, disk, verdict, legacy, locks, freeing, checking, lost>>

\* mark_reverified after a success; an error is kept and the rest goes on.
EnsureLoaded ==
    LET m == loads["ensure"].model IN
    /\ ensure.at = "load" /\ loads["ensure"].at \in {"ok", "err"}
    /\ IF loads["ensure"].at = "err"
       THEN /\ ensure' = [ensure EXCEPT !.at = "next", !.for = {}, !.failed = TRUE]
            /\ lost' = {}
       ELSE ensure' = [ensure EXCEPT !.at = "next"] /\ UNCHANGED lost
    /\ verdict' = IF loads["ensure"].at = "err" THEN verdict
                  ELSE [verdict EXCEPT ![m] = IF PresentBySize(m) THEN "matches" ELSE "stale"]
    /\ loads' = [loads EXCEPT !["ensure"] = NoLoad]
    /\ UNCHANGED <<chosenPreset, disk, legacy, locks, freeing, checking>>

EnsureReturns ==
    /\ ensure.at = "next" /\ ensure.todo = {}
    /\ ensure' = IF ensure.failed THEN NoEnsure ELSE [ensure EXCEPT !.at = "ok"]
    /\ lost' = IF ensure.failed THEN {} ELSE lost
    /\ UNCHANGED <<chosenPreset, disk, verdict, legacy, locks, loads, freeing, checking>>

EnsureAgain ==
    /\ ensure.at = "ok" /\ ensure' = NoEnsure /\ lost' = {}
    /\ UNCHANGED <<chosenPreset, disk, verdict, legacy, locks, loads, freeing, checking>>

\* verify_present_models: the fingerprint, and the verdict it may have.
CheckNext ==
    LET m == CHOOSE c \in checking.todo : TRUE IN   \* in the order of the catalog
    /\ checking.at = "next" /\ checking.todo # {}
    /\ checking' = IF PresentBySize(m) /\ verdict[m] # "matches"
                   THEN [at |-> "hash", todo |-> checking.todo \ {m}, model |-> m,
                         replaced |-> FALSE]
                   ELSE [checking EXCEPT !.todo = @ \ {m}]
    /\ UNCHANGED <<chosenPreset, disk, verdict, legacy, locks, loads, ensure, freeing, lost>>

Verdict(v) ==
    /\ verdict' = [verdict EXCEPT ![checking.model] = v]
    /\ checking' = [checking EXCEPT !.at = "next", !.model = NoModel, !.replaced = FALSE]
    /\ lost' = IF v = "failed" THEN LostNow(checking.model) ELSE lost
    /\ UNCHANGED <<chosenPreset, disk, legacy, locks, loads, ensure, freeing>>

\* The hash is of the file that was opened, which may have been replaced since.
Checked ==
    /\ checking.at = "hash"
    /\ \/ /\ disk[checking.model] = "good"
          /\ Verdict(IF checking.replaced THEN "stale" ELSE "matches")
       \/ /\ disk[checking.model] = "bad" \/ checking.replaced
          /\ Verdict("failed")
       \/ /\ disk[checking.model] = "absent"
          /\ Verdict(verdict[checking.model])

CheckEnds ==
    /\ checking.at = "next" /\ checking.todo = {}
    /\ checking' = [checking EXCEPT !.at = "done"]
    /\ UNCHANGED <<chosenPreset, disk, verdict, legacy, locks, loads, ensure, freeing, lost>>

\* migrate_legacy_voice_embedder, at the start; the rename may fail.
Migrated(d) ==
    \/ d[Base] # "absent" /\ disk' = d /\ legacy' = "absent"
    \/ d[Base] = "absent" /\ disk' = [d EXCEPT ![Base] = legacy] /\ legacy' = "absent"
    \/ d[Base] = "absent" /\ disk' = d /\ UNCHANGED legacy

\* A crash or exit at any point, and the next start; some files went bad.
RestartEngine ==
    /\ \E S \in SUBSET {m \in Models : disk[m] = "good"} :
        /\ Migrated([m \in Models |-> IF m \in S THEN "bad" ELSE disk[m]])
        /\ verdict' = [m \in Models |-> IF m \in S /\ verdict[m] = "matches" THEN "stale"
                                        ELSE verdict[m]]
    /\ locks' = [m \in Models |-> "free"] /\ loads' = [l \in Loaders |-> NoLoad]
    /\ ensure' = NoEnsure /\ freeing' = {} /\ checking' = AllModels /\ lost' = {}
    /\ UNCHANGED chosenPreset

ProvisionNext ==
    \/ ChoosePreset \/ BeginFree \/ BeginEnsure \/ EnsureLoaded \/ EnsureReturns
    \/ EnsureNext \/ EnsureAgain \/ CheckNext \/ Checked \/ CheckEnds \/ RestartEngine
    \/ \E m \in Models : CommandDownload(m) \/ CommandDelete(m) \/ FreeOne(m)
    \/ \E l \in Loaders : LockModel(l) \/ Fetch(l)

ProvisionSpec == ProvisionInit /\ [][ProvisionNext]_provisionVars
-----------------------------------------------------------------------------
(* Properties *)

\* Once the check after the start is through, an engine that says it is ready
\* has no bad file, whatever was downloaded, removed and re-checked meanwhile.
ReadyIsSound ==
    checking.at = "done" /\ ReadyNow => \A m \in Required(chosenPreset) : disk[m] = "good"

\* Two callers never fetch the same model at a time, and none that is there.
NoNeedlessFetch ==
    \A l \in Loaders : loads[l].at = "fetch" =>
        /\ disk[loads[l].model] # "good"
        /\ \A k \in Loaders \ {l} : loads[k].at = "fetch" => loads[k].model # loads[l].model

\* When ensure_required succeeds, the models it was asked for are good and
\* counted as good, but for those removed or found bad since it began.
EnsureKeepsWord ==
    ensure.at = "ok" => \A m \in ensure.for \ lost : disk[m] # "absent" /\ verdict[m] # "failed"

\* The models on disk are what the engine says of them, and are fetched for no
\* other reason.
EngineSound == ReadyIsSound /\ NoNeedlessFetch /\ EnsureKeepsWord
=============================================================================
