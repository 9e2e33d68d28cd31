---------------------------- MODULE AssistantAnswer ----------------------------
(***************************************************************************)
(* A question to the assistant: the chat it belongs to, the route it takes, *)
(* what is found in the index, what fits the prompt, and the answer.        *)
(*                                                                         *)
(*   assistant/mod.rs        ask, ask_core_with, llm_answer_path, finish    *)
(*   assistant/router.rs, direct.rs, classifier.rs, period.rs              *)
(*   assistant/retrieval.rs, fusion.rs, db/assistant_search.rs             *)
(*   assistant/budget.rs, contacts_ctx.rs, answer.rs, db/assistant.rs      *)
(*   assistant/passages.rs   the windows of a transcript                   *)
(*                                                                         *)
(* A passage is a number; Library says what it is.  Which words a question  *)
(* has, how passages are ranked and what the model returns is any choice.   *)
(***************************************************************************)
EXTENDS Naturals, Sequences, SequencesExt, FiniteSets, FiniteSetsExt

CONSTANTS
    Asks, Chats, AskCalls,
    CallTurns,      \* call -> the turns of its transcript: [start, words, tokens]
    CallRows,       \* call -> its other passages
    NoTime, NoScope, NoChat,
    RrfK, FusionCandidates, GlobalLimit, OwnLimit, OtherLimit,
    TokenBudget, CallCap, CardTokens, MaxCards, FallbackSources,
    WindowTokens,   \* TRANSCRIPT_PASSAGE_TARGET_TOKENS
    TurnSizes, MaxTurns

ASSUME AskAssumption ==
    /\ {RrfK, FusionCandidates, GlobalLimit, OwnLimit, OtherLimit, CallCap, FallbackSources,
        WindowTokens} \subseteq Nat \ {0}
    /\ {TokenBudget, CardTokens, MaxCards, MaxTurns} \cup TurnSizes \subseteq Nat
    /\ IsFiniteSet(AskCalls) /\ NoScope \notin AskCalls /\ NoChat \notin Chats
    /\ NoTime \notin Nat
    /\ \A c \in AskCalls :
           /\ CallTurns[c] \in Seq(Range(CallTurns[c])) /\ CallRows[c] \in Seq(Range(CallRows[c]))
           /\ \A turn \in Range(CallTurns[c]) : turn.start \in Nat /\ turn.tokens \in Nat
           /\ \A row \in Range(CallRows[c]) :
                  row.call = c /\ row.kind \in {"recap", "item"} /\ row.tokens \in Nat
-----------------------------------------------------------------------------
(* The passages of a call *)

SumOf(sizes) ==
    LET UpTo[n \in 0..Len(sizes)] == IF n = 0 THEN 0 ELSE UpTo[n - 1] + sizes[n]
    IN  UpTo[Len(sizes)]

\* Turns up to the target, and at least one; a window is [from, to).
WindowEnd(sizes, from) ==
    Max({to \in from + 1 .. Len(sizes) + 1 :
            to = from + 1 \/ SumOf(SubSeq(sizes, from, to - 1)) <= WindowTokens})
Window(sizes, from) == [from |-> from, to |-> WindowEnd(sizes, from)]

\* It begins with the last turn again, unless that was the only one.
NextWindow(w) == IF w.to - w.from > 1 THEN w.to - 1 ELSE w.to

\* One window after the other; the first that takes the last turn is the last.
Windows(sizes) ==
    LET Nth[n \in 1..Len(sizes)] ==
            IF n = 1 THEN Window(sizes, 1)
            ELSE LET before == Nth[n - 1]
                 IN  IF before.to > Len(sizes) THEN before
                     ELSE Window(sizes, NextWindow(before))
    IN  IF sizes = <<>> THEN <<>>
        ELSE SubSeq(Nth, 1, Min({n \in 1..Len(sizes) : Nth[n].to > Len(sizes)}))

\* A window ends where the turn after it begins.
TranscriptPassages(c) ==
    LET turns == CallTurns[c]
        sizes == [n \in DOMAIN turns |-> turns[n].tokens]
        Passage(w) ==
            [call |-> c, kind |-> "transcript", start |-> turns[w.from].start,
             end |-> IF w.to > Len(turns) THEN NoTime ELSE turns[w.to].start,
             text |-> SubSeq([n \in DOMAIN turns |-> turns[n].words], w.from, w.to - 1),
             tokens |-> SumOf(SubSeq(sizes, w.from, w.to - 1))]
    IN [n \in DOMAIN Windows(sizes) |-> Passage(Windows(sizes)[n])]

\* A block of the recap, a decision, an action item or an open question.
RowPassage(c, kind, start, words, tokens) ==
    [call |-> c, kind |-> kind, start |-> start, end |-> NoTime, text |-> <<words>>,
     tokens |-> tokens]

\* What index_call writes, and the ids it gets.
Library ==
    LET order == SetToSeq(AskCalls) IN
    FlattenSeq([n \in DOMAIN order |-> TranscriptPassages(order[n]) \o CallRows[order[n]]])
Ids == DOMAIN Library
-----------------------------------------------------------------------------
VARIABLES
    calls,      \* calls in the database
    readyCalls, \* ... that are ready
    live,       \* passages in the database
    chats,      \* chat -> whether it is there, its call and messages
    asks        \* ask -> where it is, and what it holds

askVars == <<calls, readyCalls, live, chats, asks>>

Begun == [at |-> "start", chat |-> NoChat, scope |-> NoScope, for |-> "answer",
          period |-> AskCalls, passes |-> <<>>, bm |-> <<>>, near |-> <<>>, hits |-> <<>>,
          frags |-> <<>>, cards |-> 0, grounded |-> FALSE, sources |-> {}]
Ended == [Begun EXCEPT !.at = "done"]

\* A chat's id is never used again.
ChatIs(state, c) == [state |-> state, call |-> c, messages |-> <<>>]
ChatOf(c) == ChatIs("open", c)
IsOpen(h) == chats[h].state = "open"
CallChats(c) == {h \in Chats : IsOpen(h) /\ chats[h].call = c}
Unborn == {h \in Chats : chats[h].state = "unborn"}

AskInit ==
    /\ calls = AskCalls /\ readyCalls = AskCalls /\ live = Ids
    /\ \E first \in {ChatIs("unborn", NoScope)} \cup {ChatOf(c) : c \in AskCalls \cup {NoScope}} :
           chats = [h \in Chats |-> IF h = CHOOSE g \in Chats : TRUE THEN first
                                    ELSE ChatIs("unborn", NoScope)]
    /\ asks = [a \in Asks |-> Begun]

AskGoes(a, rec) == asks' = [asks EXCEPT ![a] = rec]
At(a, where) == asks[a].at = where
Archive == <<calls, readyCalls, live>>
-----------------------------------------------------------------------------
(* The chat *)

InChat(a, h, c) == AskGoes(a, [asks[a] EXCEPT !.at = "question", !.chat = h, !.scope = c])

\* The scope is the chat's, not the argument's.
OpenChat(a) ==
    \E h \in Chats :
        /\ At(a, "start") /\ IsOpen(h)
        /\ InChat(a, h, chats[h].call)
        /\ UNCHANGED <<Archive, chats>>

NewGlobalChat(a) ==
    /\ At(a, "start") /\ Unborn # {}
    /\ LET h == CHOOSE g \in Unborn : TRUE IN
           /\ chats' = [chats EXCEPT ![h] = ChatOf(NoScope)]
           /\ InChat(a, h, NoScope)
    /\ UNCHANGED Archive

\* get_or_create_call_chat looks first.
LookForChat(a) ==
    \E c \in AskCalls :
        /\ At(a, "start")
        /\ IF CallChats(c) = {}
           THEN AskGoes(a, [asks[a] EXCEPT !.at = "create", !.scope = c])
           ELSE InChat(a, CHOOSE h \in CallChats(c) : TRUE, c)
        /\ UNCHANGED <<Archive, chats>>

\* INSERT ... ON CONFLICT DO NOTHING; the loser reads again.
CreateChat(a) ==
    LET c == asks[a].scope  h == CHOOSE g \in Unborn : TRUE IN
    /\ At(a, "create")
    /\ IF CallChats(c) # {}
       THEN InChat(a, CHOOSE g \in CallChats(c) : TRUE, c) /\ UNCHANGED chats
       ELSE /\ Unborn # {} /\ c \in calls
            /\ chats' = [chats EXCEPT ![h] = ChatOf(c)] /\ InChat(a, h, c)
    /\ UNCHANGED Archive

Message(a, who) == [by |-> who, ask |-> a]
Appended(a, who) ==
    chats' = [chats EXCEPT ![asks[a].chat].messages = Append(@, Message(a, who))]

\* The question is written whatever becomes of the answer.
AppendQuestion(a) ==
    /\ At(a, "question") /\ IsOpen(asks[a].chat)
    /\ Appended(a, "user")
    /\ AskGoes(a, [asks[a] EXCEPT !.at = "route"])
    /\ UNCHANGED Archive

\* finish: the answer is written where the question is.
Finish(a) ==
    /\ At(a, "finish") /\ IsOpen(asks[a].chat)
    /\ Appended(a, "assistant")
    /\ AskGoes(a, Ended)
    /\ UNCHANGED Archive

\* A chat that is gone fails the foreign key; so may a query, the embedder, the
\* provider that is built late, or the model.
AskFails(a) ==
    /\ asks[a].at \in {"start", "create", "question", "search", "generate", "finish"}
    /\ asks[a].at \in {"question", "finish"} => ~IsOpen(asks[a].chat)
    /\ AskGoes(a, Ended) /\ UNCHANGED <<Archive, chats>>
-----------------------------------------------------------------------------
(* Routes *)

Answers(a, sources) ==
    AskGoes(a, [Begun EXCEPT !.at = "finish", !.chat = asks[a].chat, !.scope = asks[a].scope,
                          !.sources = sources])

Source(c) == [call |-> c, start |-> NoTime]

\* A refusal, the statistics, a list, the last call, a contact's card: from the
\* metadata alone.
AnswerDirectly(a) ==
    /\ At(a, "route")
    /\ \E S \in {{}} \cup {{Source(c)} : c \in readyCalls} \cup {{Source(c) : c \in readyCalls}} :
           Answers(a, S)
    /\ UNCHANGED <<Archive, chats>>

KindRank(k) == CASE k = "recap" -> 1 [] k = "item" -> 2 [] OTHER -> 3
SummaryBefore(i, j) ==
    \/ KindRank(Library[i].kind) < KindRank(Library[j].kind)
    \/ KindRank(Library[i].kind) = KindRank(Library[j].kind) /\ i < j

\* list_call_passages_for_summary; one sequence.
ForSummary(c) ==
    {s \in SetToSeqs({i \in live : Library[i].call = c}) :
        \A n, m \in DOMAIN s : n < m => SummaryBefore(s[n], s[m])}

Passages(s) == [n \in DOMAIN s |-> Library[s[n]]]
Total(frags) == SumOf([n \in DOMAIN frags |-> frags[n].tokens])

\* is_transcript_overlap: any accepted range of the call counts, not only windows.
Overlaps(h, frags) ==
    /\ h.kind = "transcript" /\ h.start # NoTime
    /\ \E f \in Range(frags) :
           /\ f.call = h.call /\ f.start # NoTime
           /\ f.start <= h.start /\ (f.end = NoTime \/ h.start < f.end)

SameText(h, frags) == \E f \in Range(frags) : f.text = h.text
CapReached(h, frags, global) ==
    global /\ Cardinality({n \in DOMAIN frags : frags[n].call = h.call}) >= CallCap

\* Mutant: the budget is asked before the passage is counted.
AdmitsOneTooMany(h, frags, global) ==
    /\ ~SameText(h, frags) /\ ~Overlaps(h, frags) /\ ~CapReached(h, frags, global)
    /\ Total(frags) <= TokenBudget

Admits(h, frags, global) ==
    /\ ~SameText(h, frags) /\ ~Overlaps(h, frags) /\ ~CapReached(h, frags, global)
    /\ Total(frags) + h.tokens <= TokenBudget

\* assemble: what does not fit is skipped, the next may.
Assembled(hits, global) ==
    LET Taken[n \in 0..Len(hits)] ==
            IF n = 0 THEN <<>>
            ELSE LET frags == Taken[n - 1]
                 IN  IF Admits(hits[n], frags, global) THEN Append(frags, hits[n]) ELSE frags
    IN  Taken[Len(hits)]

\* SummarizeCall, past the search; without passages the question goes on.
Summarize(a) ==
    /\ At(a, "route")
    /\ \E c \in IF asks[a].scope # NoScope THEN {asks[a].scope} ELSE readyCalls :
           \E order \in ForSummary(c) :
               LET frags == Assembled(Passages(order), FALSE) IN
               AskGoes(a, IF frags = <<>> THEN [asks[a] EXCEPT !.at = "period"]
                       ELSE [asks[a] EXCEPT !.at = "generate", !.frags = frags])
    /\ UNCHANGED <<Archive, chats>>

\* when_discussed: a search of its own, everywhere and at any time.
AskWhen(a) ==
    /\ At(a, "route")
    /\ AskGoes(a, [asks[a] EXCEPT !.at = "search", !.for = "when", !.passes = <<"all">>])
    /\ UNCHANGED <<Archive, chats>>

NoRoute(a) ==
    /\ At(a, "route") /\ AskGoes(a, [asks[a] EXCEPT !.at = "period"])
    /\ UNCHANGED <<Archive, chats>>

\* period_call_filter; a period without calls is answered at once.
Periods == {AskCalls} \cup {S \in SUBSET readyCalls : Cardinality(S) <= 1}

FilterPeriod(a) ==
    /\ At(a, "period")
    /\ \E S \in Periods :
           IF S = {} THEN Answers(a, {})
           ELSE AskGoes(a, [asks[a] EXCEPT !.at = "search", !.period = S,
                    !.passes = IF asks[a].scope = NoScope THEN <<"all">> ELSE <<"own", "other">>])
    /\ UNCHANGED <<Archive, chats>>
-----------------------------------------------------------------------------
(* The search *)

Lists(S, n) == {s \in SeqOf(S, n) : IsInjective(s)}
Pass(a) == Head(asks[a].passes)
Limit(a) == CASE Pass(a) = "all" -> GlobalLimit
              [] Pass(a) = "own" -> OwnLimit
              [] OTHER -> OtherLimit
InPass(a, i) == CASE Pass(a) = "all" -> TRUE
                  [] Pass(a) = "own" -> Library[i].call = asks[a].scope
                  [] OTHER -> Library[i].call # asks[a].scope
InPeriod(a, i) == Library[i].call \in asks[a].period

Found(a, hits) ==
    LET rest == Tail(asks[a].passes)  all == asks[a].hits \o hits IN
    AskGoes(a, [asks[a] EXCEPT !.at = IF rest = <<>> THEN "assemble" ELSE "search",
                            !.passes = rest, !.bm = <<>>, !.near = <<>>, !.hits = all])

\* What of a list is in S, in its order.
Within(s, S) ==
    LET Kept[n \in 0..Len(s)] ==
            IF n = 0 THEN <<>>
            ELSE LET kept == Kept[n - 1] IN IF s[n] \in S THEN Append(kept, s[n]) ELSE kept
    IN  Kept[Len(s)]

\* Without an embedder or vectors: words only; what is left of the period after
\* the limit.
SearchWords(a) ==
    /\ At(a, "search")
    /\ \E s \in Lists({i \in live : InPass(a, i)}, Limit(a)) :
           Found(a, Within(s, {i \in Ids : InPeriod(a, i)}))
    /\ UNCHANGED <<Archive, chats>>

\* fuse_pass: the words, within the period, and the nearest of the vectors in
\* memory, which may be of passages that are gone.
SearchBoth(a) ==
    /\ At(a, "search")
    /\ \E bm \in Lists({i \in live : InPass(a, i) /\ InPeriod(a, i)}, FusionCandidates),
          near \in Lists({i \in Ids : InPass(a, i) /\ InPeriod(a, i)}, FusionCandidates) :
           /\ near # <<>>
           /\ AskGoes(a, [asks[a] EXCEPT !.at = "fetch", !.bm = bm, !.near = near])
    /\ UNCHANGED <<Archive, chats>>

\* rrf_fuse; 1 / (k + place), times a common multiple.
Places ==
    LET Product[n \in 0..FusionCandidates] ==
            IF n = 0 THEN 1 ELSE Product[n - 1] * (RrfK + n)
    IN  Product[FusionCandidates]
Share(i, s) == IF i \in Range(s) THEN Places \div (RrfK + CHOOSE n \in DOMAIN s : s[n] = i) ELSE 0
Score(i, bm, near) == Share(i, bm) + Share(i, near)

\* One sequence.
Fused(bm, near) ==
    {s \in SetToSeqs(Range(bm) \cup Range(near)) :
        \A n, m \in DOMAIN s : n < m =>
            \/ Score(s[n], bm, near) > Score(s[m], bm, near)
            \/ Score(s[n], bm, near) = Score(s[m], bm, near) /\ s[n] < s[m]}

\* The texts of the nearest are fetched; of what is gone there is none.
FetchMissing(a) ==
    \E fused \in Fused(asks[a].bm, asks[a].near) :
        LET there == Within(fused, Range(asks[a].bm) \cup live) IN
        /\ At(a, "fetch")
        /\ Found(a, SubSeq(there, 1, Min({Len(there), Limit(a)})))
        /\ UNCHANGED <<Archive, chats>>

\* when_discussed: up to three calls, each at its first hit, if it is still there.
FirstHits(hits) ==
    {n \in DOMAIN hits : \A m \in 1 .. n - 1 : Library[hits[m]].call # Library[hits[n]].call}

AnswerWhen(a) ==
    LET hits == asks[a].hits
        named == {n \in FirstHits(hits) : Library[hits[n]].call \in calls}
    IN
    /\ At(a, "assemble") /\ asks[a].for = "when"
    /\ IF hits # <<>> /\ named = {}
       THEN AskGoes(a, [asks[a] EXCEPT !.at = "period", !.for = "answer", !.hits = <<>>])
       ELSE Answers(a, {[call |-> Library[hits[n]].call, start |-> Library[hits[n]].start] :
                        n \in named})
    /\ UNCHANGED <<Archive, chats>>
-----------------------------------------------------------------------------
(* The prompt and the answer *)

Assemble(a) ==
    /\ At(a, "assemble") /\ asks[a].for = "answer"
    /\ AskGoes(a, [asks[a] EXCEPT !.at = "cards",
                    !.frags = Assembled(Passages(asks[a].hits), asks[a].scope = NoScope)])
    /\ UNCHANGED <<Archive, chats>>

\* inject_priority_hits: the last fragments make room.
MakeRoom(frags, extra) ==
    SubSeq(frags, 1, Max({n \in 0..Len(frags) :
                             n = 0 \/ Total(SubSeq(frags, 1, n)) + extra <= TokenBudget}))

Card(n) == [call |-> <<"contact", n>>, kind |-> "contact", start |-> NoTime, end |-> NoTime,
            text |-> <<"card", n>>, tokens |-> CardTokens]

AddCards(a) ==
    /\ At(a, "cards")
    /\ \E n \in 0 .. MaxCards :
           LET frags == IF n = 0 THEN asks[a].frags
                        ELSE MakeRoom(asks[a].frags, n * CardTokens) \o [m \in 1 .. n |-> Card(m)]
           IN IF frags = <<>> THEN Answers(a, {})
              ELSE AskGoes(a, [asks[a] EXCEPT !.at = "generate", !.hits = <<>>, !.cards = n,
                                           !.frags = frags])
    /\ UNCHANGED <<Archive, chats>>

\* resolve_used_fragments: counted from one, what is out of range does not count;
\* of nothing the first few.  The same when the model twice has no answer.
UsedFragments(raw, n) ==
    LET used == {v \in Range(raw) : v \in 1 .. n} IN
    IF used = {} THEN 1 .. Min({FallbackSources, n}) ELSE used

\* generate_answer: the numbers the model names, none of them sure to be right;
\* of an answer that stays empty they are ignored.
Named(n) == {<<>>, <<0>>, <<1>>, <<n>>, <<n + 1, 1>>, <<1, n>>}

\* build_sources: one for a place of a call, in the order of the model.
Sources(frags, used) ==
    {[call |-> frags[v].call, start |-> frags[v].start] : v \in used \cap DOMAIN frags}

Generate(a) ==
    LET frags == asks[a].frags IN
    /\ At(a, "generate")
    /\ \E raw \in Named(Len(frags)) :
           AskGoes(a, [asks[a] EXCEPT !.at = "finish", !.grounded = TRUE,
                        !.sources = Sources(frags, UsedFragments(raw, Len(frags)))])
    /\ UNCHANGED <<Archive, chats>>
-----------------------------------------------------------------------------
(* Meanwhile *)

Without(c) == {i \in live : Library[i].call # c}

CallReprocessed(c) ==
    /\ c \in readyCalls
    /\ readyCalls' = readyCalls \ {c} /\ live' = Without(c)
    /\ UNCHANGED <<calls, chats, asks>>

\* A deleted call takes its chat along.
CallDeleted(c) ==
    /\ c \in calls
    /\ calls' = calls \ {c} /\ readyCalls' = readyCalls \ {c} /\ live' = Without(c)
    /\ chats' = [h \in Chats |-> IF h \in CallChats(c) THEN ChatIs("deleted", NoScope)
                                 ELSE chats[h]]
    /\ UNCHANGED asks

DeleteChat(h) ==
    /\ IsOpen(h) /\ chats' = [chats EXCEPT ![h] = ChatIs("deleted", NoScope)]
    /\ UNCHANGED <<Archive, asks>>

\* ask_core_with
AskGoesOn(a) ==
    \/ OpenChat(a) \/ NewGlobalChat(a) \/ LookForChat(a) \/ CreateChat(a)
    \/ AppendQuestion(a) \/ AskFails(a)
    \/ AnswerDirectly(a) \/ Summarize(a) \/ AskWhen(a) \/ NoRoute(a) \/ FilterPeriod(a)
    \/ SearchWords(a) \/ SearchBoth(a) \/ FetchMissing(a) \/ AnswerWhen(a)
    \/ Assemble(a) \/ AddCards(a) \/ Generate(a) \/ Finish(a)

AskNext ==
    \/ \E a \in Asks : AskGoesOn(a)
    \/ \E c \in AskCalls : CallReprocessed(c) \/ CallDeleted(c)
    \/ \E h \in Chats : DeleteChat(h)

AskSpec == AskInit /\ [][AskNext]_askVars
-----------------------------------------------------------------------------
(* Properties *)

\* However two first questions on a call interleave, the call has one thread; an
\* answer stands in the chat of its question, after it.
ChatsKept ==
    /\ \A c \in AskCalls : Cardinality(CallChats(c)) <= 1
    /\ \A a \in Asks, h \in Chats :
           /\ IsOpen(h) /\ asks[a].chat = h => chats[h].call = asks[a].scope
           /\ IsOpen(h) => LET m == chats[h].messages IN
                \A n \in DOMAIN m : m[n].by = "assistant" =>
                    \E k \in 1 .. n - 1 : m[k] = Message(m[n].ask, "user")

\* A passage both channels place no lower than another comes before it.
Place(i, s) == IF i \in Range(s) THEN CHOOSE n \in DOMAIN s : s[n] = i ELSE FusionCandidates + 1
FusionFair ==
    \A a \in Asks : At(a, "fetch") =>
        LET bm == asks[a].bm  near == asks[a].near IN
        \A f \in Fused(bm, near) : \A n, m \in DOMAIN f :
            n # m /\ Place(f[n], bm) <= Place(f[m], bm) /\ Place(f[n], near) <= Place(f[m], near)
                => n < m

StartsWithin(h, f) ==
    /\ h.kind = "transcript" /\ f.call = h.call
    /\ f.start # NoTime /\ f.start <= h.start /\ (f.end = NoTime \/ h.start < f.end)

\* What goes into the prompt fits its budget unless it is cards alone, says
\* nothing twice, is of the period, and no one call fills it in a global question.
PromptSound(a) ==
    LET f == asks[a].frags  found == {n \in DOMAIN f : f[n].kind # "contact"} IN
    /\ Total(f) <= TokenBudget \/ found = {}
    /\ \A n, m \in found : n < m =>
           f[n].text # f[m].text /\ (f[n].kind = "transcript" => ~StartsWithin(f[m], f[n]))
    /\ \A n \in found : f[n].call \in asks[a].period
    /\ asks[a].hits # <<>> /\ asks[a].scope = NoScope =>
           \A c \in AskCalls : Cardinality({n \in found : f[n].call = c}) <= CallCap

\* What was found and is not in the prompt has a reason that still holds: it is
\* said there already, its call has its share, or there is no room for it.  (An
\* item without an end keeps every later window of its call out, too.)
NothingLeftOut(a) ==
    At(a, "cards") => \A n \in DOMAIN asks[a].hits :
        LET h == Library[asks[a].hits[n]]  f == asks[a].frags IN
        \/ \E k \in DOMAIN f : f[k].text = h.text \/ StartsWithin(h, f[k])
        \/ /\ asks[a].scope = NoScope
           /\ Cardinality({k \in DOMAIN f : f[k].call = h.call}) >= CallCap
        \/ Total(f) + h.tokens > TokenBudget

\* An answer of the model names a source, and only what the model was shown.
SourcesShown(a) ==
    asks[a].grounded =>
        /\ asks[a].sources # {}
        /\ \A s \in asks[a].sources :
               \E n \in DOMAIN asks[a].frags :
                   asks[a].frags[n].call = s.call /\ asks[a].frags[n].start = s.start

\* Every turn of a transcript can be found; a window goes on from the last turn of
\* the one before, exceeds the target only as a single turn, and the cutting ends.
FragmentsCover ==
    \A sizes \in SeqOf(TurnSizes, MaxTurns) :
        LET ws == Windows(sizes) IN
        /\ \A n \in DOMAIN sizes : \E k \in DOMAIN ws : n \in ws[k].from .. ws[k].to - 1
        /\ \A k \in 1 .. Len(ws) - 1 :
               /\ ws[k].from < ws[k + 1].from
               /\ ws[k + 1].from < ws[k].to \/ ws[k].to - ws[k].from = 1
        /\ \A k \in DOMAIN ws :
               \/ ws[k].to = ws[k].from + 1
               \/ SumOf(SubSeq(sizes, ws[k].from, ws[k].to - 1)) <= WindowTokens

AnswerGrounded ==
    /\ FragmentsCover /\ ChatsKept /\ FusionFair
    /\ \A a \in Asks : PromptSound(a) /\ NothingLeftOut(a) /\ SourcesShown(a)
=============================================================================
