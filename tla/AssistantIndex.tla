---------------------------- MODULE AssistantIndex ----------------------------
(***************************************************************************)
(* The search index of the assistant: passages, their vectors, the state   *)
(* of the index per call, and the copy of the vectors in memory.            *)
(*                                                                         *)
(*   assistant/indexer.rs         index_call, spawn_index, deindex_call,    *)
(*                                backfill, embed_backfill                  *)
(*   assistant/embed_cache.rs     snapshot                                 *)
(*   db/assistant_passages.rs, db/assistant_embeddings.rs                   *)
(*                                                                         *)
(* What a call says (transcript, recap, structured rows, confirmed names)  *)
(* is the number of its last change; a call has one passage.               *)
(***************************************************************************)
EXTENDS Naturals, FiniteSets, FiniteSetsExt

CONSTANTS
    IndexedCalls,   \* calls
    IndexJobs,      \* bound: tasks of spawn_index at a time
    MaxIndexings,   \* bound: writes of passages
    MaxContent      \* bound: changes of a call

ASSUME IndexAssumption ==
    /\ MaxIndexings \in Nat /\ MaxContent \in Nat
    /\ IsFiniteSet(IndexedCalls) /\ IndexedCalls # {}
    /\ "startup" \notin IndexJobs

VARIABLES
    archive,    \* call -> "ready", "busy" (in a run) or "gone"
    content,    \* call -> the number of its last change
    passages,   \* call -> its row of assistant_passages, or NoPassage
    entry,      \* call -> indexed_at of assistant_index_state; 0 is no row
    vectors,    \* assistant_embeddings: a passage's id, and the text it was made of
    nextId,     \* AUTOINCREMENT, and the clock of indexed_at
    oldModel,   \* assistant.embed_model_id is of another model
    tasks,      \* job -> where it is; "startup" is spawn_assistant_backfill
    todo,       \* calls the startup task found
    embedCache, \* the vectors in memory, with their stamp
    searching,  \* the stamp a search has read, or NoStamp
    missed,     \* history: calls that lost an update, see IndexFresh
    blurred     \* history: the stamp may have come back, see CacheTrue

indexVars == <<archive, content, passages, entry, vectors, nextId, oldModel, tasks, todo,
               missed, blurred>>
cacheVars == <<embedCache, searching>>

NoPassage == [id |-> 0, of |-> 0]
NoStamp == <<>>
NoCache == [stamp |-> NoStamp, rows |-> {}]
AtRest(c) == [at |-> "idle", call |-> c, seen |-> 0, batch |-> {}]
SomeCall == CHOOSE c \in IndexedCalls : TRUE
Workers == IndexJobs \cup {"startup"}

\* Migration 0021 empties the index: the first start finds ready calls without it.
IndexInit ==
    /\ archive \in [IndexedCalls -> {"ready", "busy", "gone"}]
    /\ content = [c \in IndexedCalls |-> 1]
    /\ passages = [c \in IndexedCalls |-> NoPassage]
    /\ entry = [c \in IndexedCalls |-> 0]
    /\ vectors = {} /\ nextId = 1 /\ oldModel \in BOOLEAN
    /\ tasks = [w \in Workers |->
                   IF w = "startup" THEN [AtRest(SomeCall) EXCEPT !.at = "start"]
                   ELSE AtRest(SomeCall)]
    /\ todo = {} /\ missed = {} /\ blurred = FALSE

WorksOn(c) == {w \in Workers : tasks[w].at \in {"read", "write"} /\ tasks[w].call = c}
Rests(w) == tasks' = [tasks EXCEPT ![w] = AtRest(SomeCall)]
\* Bound: every task that has not written yet may write once.
MayIndex == nextId + Cardinality(UNION {WorksOn(c) : c \in IndexedCalls}) <= MaxIndexings
-----------------------------------------------------------------------------
(* What makes an index stale *)

\* spawn_index; a second task on the same call may end in any order.
SpawnIndex(c) ==
    /\ MayIndex
    /\ \E j \in IndexJobs :
           /\ tasks[j].at = "idle"
           /\ tasks' = [tasks EXCEPT ![j] = [AtRest(c) EXCEPT !.at = "read"]]
    /\ missed' = IF WorksOn(c) = {} THEN missed ELSE missed \cup {c}

\* A name is confirmed or unbound, or a recap is generated anew.
Edit(c) ==
    /\ archive[c] = "ready" /\ content[c] < MaxContent
    /\ content' = [content EXCEPT ![c] = @ + 1]
    /\ SpawnIndex(c)
    /\ UNCHANGED <<archive, passages, entry, vectors, nextId, oldModel, todo, blurred>>

WithoutPassage(c) ==
    /\ passages' = [passages EXCEPT ![c] = NoPassage]
    /\ entry' = [entry EXCEPT ![c] = 0]
    /\ vectors' = {v \in vectors : v.id # passages[c].id}

\* reprocess_call takes the call out of the index.
Reprocess(c) ==
    /\ archive[c] = "ready"
    /\ archive' = [archive EXCEPT ![c] = "busy"]
    /\ WithoutPassage(c)
    /\ UNCHANGED <<content, nextId, oldModel, tasks, todo, missed, blurred>>

\* A run ends ready, or is cancelled with the old artefacts in place.
RunEnds(c) ==
    /\ archive[c] = "busy" /\ content[c] < MaxContent
    /\ archive' = [archive EXCEPT ![c] = "ready"]
    /\ \E changed \in BOOLEAN :
           content' = [content EXCEPT ![c] = IF changed THEN @ + 1 ELSE @]
    /\ SpawnIndex(c)
    /\ UNCHANGED <<passages, entry, vectors, nextId, oldModel, todo, blurred>>

\* delete_call, with the cascades of the schema.
DeleteIndexed(c) ==
    /\ archive[c] # "gone"
    /\ archive' = [archive EXCEPT ![c] = "gone"]
    /\ content' = [content EXCEPT ![c] = 1] /\ missed' = missed \ {c}
    /\ WithoutPassage(c)
    /\ UNCHANGED <<nextId, oldModel, tasks, todo, blurred>>
-----------------------------------------------------------------------------
(* index_call *)

\* Names, artefacts and rows one after the other: what mixes two versions of
\* the call is as stale as the older one.
ReadCall(w) ==
    /\ tasks[w].at = "read"
    /\ tasks' = [tasks EXCEPT ![w].at = "write", ![w].seen = content[tasks[w].call]]
    /\ UNCHANGED <<archive, content, passages, entry, vectors, nextId, oldModel, todo, missed,
                   blurred>>

\* Mutant: a rowid without AUTOINCREMENT, one more than the largest there is.
RowId == 1 + Max({passages[c].id : c \in IndexedCalls} \cup {0})
FreshId == nextId

Carried(w, at) == tasks' = [tasks EXCEPT ![w].at = at, ![w].seen = 0]
\* replace_call_passages, one transaction; the call must still be there.
WritePassages(w) ==
    LET c == tasks[w].call IN
    /\ tasks[w].at = "write" /\ archive[c] # "gone"
    /\ passages' = [passages EXCEPT ![c] = [id |-> FreshId, of |-> tasks[w].seen]]
    /\ entry' = [entry EXCEPT ![c] = nextId]
    /\ vectors' = {v \in vectors : v.id # passages[c].id}
    /\ nextId' = nextId + 1
    /\ Carried(w, "embed")
    /\ missed' = IF WorksOn(c) = {w} /\ tasks[w].seen = content[c] THEN missed \ {c} ELSE missed
    /\ UNCHANGED <<archive, content, oldModel, todo, blurred>>

\* spawn_index forgets the call, so that the next start finds it; backfill logs.
IndexFails(w) ==
    LET c == tasks[w].call IN
    /\ tasks[w].at \in {"read", "write"}
    /\ IF w = "startup"
       THEN Carried(w, "next") /\ UNCHANGED <<entry, blurred>>
       ELSE /\ Rests(w) /\ entry' = [entry EXCEPT ![c] = 0]
            /\ blurred' = (blurred \/ entry[c] # 0)
    /\ UNCHANGED <<archive, content, passages, vectors, nextId, oldModel, todo, missed>>

Rows == {passages[c] : c \in IndexedCalls} \ {NoPassage}

\* embed_call_passages lists the rows; without a model there is nothing to do.
ListForEmbedding(w) ==
    LET c == tasks[w].call
        own == {passages[c]} \ {NoPassage}
    IN
    /\ tasks[w].at = "embed"
    /\ \/ own # {} /\ tasks' = [tasks EXCEPT ![w].at = "upsert", ![w].batch = own]
       \/ IF w = "startup" THEN Carried(w, "next") ELSE Rests(w)
    /\ UNCHANGED <<archive, content, passages, entry, vectors, nextId, oldModel, todo, missed,
                   blurred>>

\* upsert_embeddings, one transaction: a row that is gone fails the whole batch.
Upserted(batch) ==
    IF \A row \in batch : \E r \in Rows : r.id = row.id
    THEN {v \in vectors : \A row \in batch : v.id # row.id} \cup batch
    ELSE vectors

Upsert(w) ==
    /\ tasks[w].at = "upsert"
    /\ vectors' = Upserted(tasks[w].batch)
    /\ IF w = "startup" THEN tasks' = [tasks EXCEPT ![w].at = "next", ![w].batch = {}]
       ELSE Rests(w)
    /\ UNCHANGED <<archive, content, passages, entry, nextId, oldModel, todo, missed, blurred>>
-----------------------------------------------------------------------------
(* spawn_assistant_backfill: first the passages, then the vectors *)

Pending == {c \in IndexedCalls : archive[c] = "ready" /\ entry[c] = 0}
Startup(at) == tasks' = [tasks EXCEPT !["startup"].at = at]

ListPending ==
    /\ tasks["startup"].at = "start" /\ Startup("next")
    /\ todo' = Pending
    /\ UNCHANGED <<archive, content, passages, entry, vectors, nextId, oldModel, missed,
                   blurred>>

\* Whether it is still pending is asked again before each.
NextPending ==
    /\ tasks["startup"].at = "next" /\ todo # {}
    /\ \E c \in todo :
           /\ todo' = todo \ {c}
           /\ IF c \in Pending
              THEN /\ MayIndex
                   /\ tasks' = [tasks EXCEPT !["startup"] = [AtRest(c) EXCEPT !.at = "read"]]
                   /\ missed' = IF WorksOn(c) = {} THEN missed ELSE missed \cup {c}
              ELSE UNCHANGED <<tasks, missed>>
    /\ UNCHANGED <<archive, content, passages, entry, vectors, nextId, oldModel, blurred>>

\* ensure_embed_model_current: vectors of another model are worth nothing.
EnsureModel ==
    /\ tasks["startup"].at = "next" /\ todo = {}
    /\ \/ Startup("vectors") /\ oldModel' = FALSE
          /\ IF oldModel THEN vectors' = {} /\ blurred' = (blurred \/ vectors # {})
             ELSE UNCHANGED <<vectors, blurred>>
       \/ Rests("startup") /\ UNCHANGED <<vectors, oldModel, blurred>>
    /\ UNCHANGED <<archive, content, passages, entry, nextId, todo, missed>>

Unembedded == {row \in Rows : \A v \in vectors : v.id # row.id}

\* The embedder may fail; that ends the task.
ListMissing ==
    /\ tasks["startup"].at = "vectors"
    /\ \/ Rests("startup")
       \/ /\ Unembedded # {}
          /\ tasks' = [tasks EXCEPT !["startup"].at = "fill", !["startup"].batch = Unembedded]
    /\ UNCHANGED <<archive, content, passages, entry, vectors, nextId, oldModel, todo, missed,
                   blurred>>

\* A batch that fails ends the task.
FillMissing ==
    LET batch == tasks["startup"].batch IN
    /\ tasks["startup"].at = "fill"
    /\ vectors' = Upserted(batch)
    /\ tasks' = [tasks EXCEPT !["startup"] =
           IF vectors' = vectors THEN AtRest(SomeCall)
           ELSE [@ EXCEPT !.at = "vectors", !.batch = {}]]
    /\ UNCHANGED <<archive, content, passages, entry, nextId, oldModel, todo, missed, blurred>>
-----------------------------------------------------------------------------
(* EmbedCache::snapshot *)

Stamp ==
    <<Cardinality({c \in IndexedCalls : entry[c] # 0}), Max({entry[c] : c \in IndexedCalls}),
      Cardinality(vectors)>>

ReadStamp ==
    /\ searching = NoStamp /\ searching' = Stamp
    /\ UNCHANGED <<indexVars, embedCache>>

LoadVectors ==
    /\ searching # NoStamp /\ searching' = NoStamp
    /\ embedCache' = IF embedCache.stamp = searching THEN embedCache
                     ELSE [stamp |-> searching, rows |-> vectors]
    /\ UNCHANGED indexVars
-----------------------------------------------------------------------------
\* The application ends and starts again; it may be of a new version.
Restart ==
    /\ tasks' = [w \in Workers |->
                    IF w = "startup" THEN [AtRest(SomeCall) EXCEPT !.at = "start"]
                    ELSE AtRest(SomeCall)]
    /\ todo' = {}
    /\ missed' = missed \cup {c \in IndexedCalls : WorksOn(c) # {}}
    /\ blurred' = \E c \in IndexedCalls : passages[c] # NoPassage /\ entry[c] = 0
    /\ UNCHANGED <<archive, content, passages, entry, vectors, nextId, oldModel>>

IndexNext ==
    \/ \E c \in IndexedCalls : Edit(c) \/ Reprocess(c) \/ RunEnds(c) \/ DeleteIndexed(c)
    \/ \E w \in Workers :
           \/ ReadCall(w) \/ WritePassages(w) \/ IndexFails(w)
           \/ ListForEmbedding(w) \/ Upsert(w)
    \/ ListPending \/ NextPending \/ EnsureModel \/ ListMissing \/ FillMissing

CacheInit == embedCache = NoCache /\ searching = NoStamp
SearchNext ==
    \/ IndexNext /\ UNCHANGED cacheVars
    \/ Restart /\ embedCache' = NoCache /\ searching' = NoStamp
    \/ ReadStamp \/ LoadVectors

IndexSpec == IndexInit /\ CacheInit /\ [][SearchNext]_<<indexVars, cacheVars>>
-----------------------------------------------------------------------------
(* Properties *)

\* A vector belongs to a passage that is there, and was made from its text,
\* however late it is written.
VectorsOfTheirText ==
    vectors \subseteq Rows

\* A search whose stamp has not changed misses no vector of the database, and
\* what it finds beyond them has no passage any more.  The stamp can come back
\* after a failure took a call out of the state but not its passages, and after
\* the vectors were made anew by another model.
CacheTrue ==
    ~blurred /\ embedCache # NoCache /\ embedCache.stamp = Stamp =>
        /\ vectors \subseteq embedCache.rows
        /\ \A v \in embedCache.rows \ vectors : \A row \in Rows : row.id # v.id

\* A ready call that the next start would not index is indexed as it is, when
\* nobody works on it; unless two tasks on it overlapped, or one was cut off
\* by the end of the application.
IndexFresh ==
    \A c \in IndexedCalls :
        archive[c] = "ready" /\ entry[c] # 0 /\ WorksOn(c) = {} /\ c \notin missed =>
            passages[c].of = content[c]

IndexTrue == VectorsOfTheirText /\ CacheTrue /\ IndexFresh
=============================================================================
