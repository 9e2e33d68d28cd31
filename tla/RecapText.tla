------------------------------- MODULE RecapText -------------------------------
(***************************************************************************)
(* A long transcript cut into chunks for the language model, and what is    *)
(* taken out of its answer again.                                           *)
(*                                                                         *)
(*   pipeline/chunker.rs            chunk_transcript and its fallback       *)
(*   pipeline/summary_validator.rs  unverified quotes, near duplicates,     *)
(*                                  participants named twice                *)
(*                                                                         *)
(* A block is one turn of a speaker, known by its place and its length; one *)
(* step of the machine is one round of a loop of the code.                  *)
(***************************************************************************)
EXTENDS Naturals, Sequences, FiniteSets, Functions

CONSTANTS
    TokenBytes,     \* bytes that count as a token
    ChunkTokens,    \* max_tokens
    Overlap,        \* overlap_chars
    MaxBlocks, BlockSizes,      \* bounds: the transcript
    MaxItems, Texts,            \* bounds: the items, by the words of their texts
    MaxPeople, PersonTags, PersonNames, NoName      \* bounds: the participants

ASSUME TextAssumption ==
    /\ {TokenBytes, ChunkTokens, MaxBlocks, MaxItems, MaxPeople, Overlap} \subseteq Nat \ {0}
    /\ BlockSizes \subseteq Nat \ {0}
    /\ \A text \in Texts : IsFiniteSet(text) /\ text # {}
    /\ NoName \notin PersonNames

VARIABLES
    blocks,     \* the lengths of the blocks
    preamble,   \* the first block has no speaker header
    nextBlock,  \* the block the loop comes to
    current,    \* current_chunk: the blocks in it, each with where it begins
    repeated,   \* how many of them are overlap
    bytes,      \* the length of it
    chunks,     \* the chunks finished, as [parts, repeated, bytes]
    chars, windows, \* chunk_by_chars_fallback: the length, and what was cut
    items, seen, kept,  \* dedup_vec: the items, how many were looked at, who stays
    people, met, present, tags, names   \* dedup_participants, the same

packVars == <<blocks, preamble, nextBlock, current, repeated, bytes, chunks>>
charVars == <<chars, windows>>
itemVars == <<items, seen, kept>>
peopleVars == <<people, met, present, tags, names>>
textVars == <<packVars, charVars, itemVars, peopleVars>>

Items == [words : Texts, quote : {"none", "found", "fabricated"}]
People == [tag : PersonTags, name : PersonNames \cup {NoName}]

\* Each start is the input of one of the four loops.  A text without any speaker
\* header goes to the second.
TextInit ==
    /\ nextBlock = 1 /\ current = <<>> /\ repeated = 0 /\ bytes = 0 /\ chunks = <<>>
    /\ windows = <<>> /\ seen = 0 /\ kept = <<>>
    /\ met = 0 /\ present = <<>> /\ tags = {} /\ names = {}
    /\ \/ /\ \E n \in 1..MaxBlocks : blocks \in [1..n -> BlockSizes]
          /\ preamble \in BOOLEAN /\ (preamble => Len(blocks) > 1)
          /\ chars = 0 /\ items = <<>> /\ people = <<>>
       \/ /\ chars \in 1..4 * TokenBytes * ChunkTokens
          /\ blocks = <<>> /\ preamble = FALSE /\ items = <<>> /\ people = <<>>
       \/ /\ \E n \in 0..MaxItems : items \in [1..n -> Items]
          /\ blocks = <<>> /\ preamble = FALSE /\ chars = 0 /\ people = <<>>
       \/ /\ \E n \in 0..MaxPeople : people \in [1..n -> People]
          /\ blocks = <<>> /\ preamble = FALSE /\ chars = 0 /\ items = <<>>

Tokens(n) == n \div TokenBytes
MaxOf(S) == CHOOSE m \in S : \A n \in S : n <= m

\* The places in the current chunk where a speaker header stands.
Headers == {k \in DOMAIN current : ~(preamble /\ current[k].id = 1)}

\* tail_overlap_at_speaker_boundary: the last header with a tail that is long
\* enough, or else the first header.
TailStart ==
    LET enough == {k \in Headers : bytes - current[k].start >= Overlap}
    IN  IF enough # {} THEN MaxOf(enough)
        ELSE CHOOSE k \in Headers : \A j \in Headers : k <= j

\* The next chunk begins with these parts of the one before; without a header
\* (tail_by_chars) with the last characters of the preamble.
OverlapParts ==
    IF Headers = {} THEN <<[id |-> 1, start |-> 0]>>
    ELSE LET from == current[TailStart].start
         IN  [k \in 1..Len(current) - TailStart + 1 |->
                 [current[k + TailStart - 1] EXCEPT !.start = @ - from]]
OverlapBytes ==
    IF Headers = {} THEN (IF bytes <= Overlap THEN bytes ELSE Overlap)
    ELSE bytes - current[TailStart].start

Fits(length) == Tokens(bytes) + Tokens(length) + 1 <= ChunkTokens

\* A transcript that fits as a whole is not cut.
UpTo[n \in 0..Len(blocks)] == IF n = 0 THEN 0 ELSE UpTo[n - 1] + blocks[n]
Short == Tokens(UpTo[Len(blocks)] + Len(blocks) - 1) <= ChunkTokens

AddBlock(i) ==
    /\ current = <<>> \/ Short \/ Fits(blocks[i])
    /\ LET start == IF current = <<>> THEN 0 ELSE bytes + 1 IN
       /\ current' = Append(current, [id |-> i, start |-> start])
       /\ bytes' = start + blocks[i]
    /\ nextBlock' = i + 1 /\ UNCHANGED <<repeated, chunks>>

Finished == [parts |-> current, repeated |-> repeated, bytes |-> bytes]

\* Mutant: the block that did not fit is left out.
FlushChunkSkips(i) ==
    /\ current # <<>> /\ ~Short /\ ~Fits(blocks[i])
    /\ chunks' = Append(chunks, Finished)
    /\ current' = OverlapParts
    /\ repeated' = Len(OverlapParts)
    /\ bytes' = OverlapBytes
    /\ nextBlock' = i + 1

\* The block goes behind the overlap, whatever the two come to.
FlushChunk(i) ==
    /\ current # <<>> /\ ~Short /\ ~Fits(blocks[i])
    /\ chunks' = Append(chunks, Finished)
    /\ current' = Append(OverlapParts, [id |-> i, start |-> OverlapBytes + 2])
    /\ repeated' = Len(OverlapParts)
    /\ bytes' = OverlapBytes + 2 + blocks[i]
    /\ nextBlock' = i + 1

LastChunk ==
    /\ current' = <<>> /\ repeated' = 0 /\ bytes' = 0
    /\ chunks' = Append(chunks, Finished) /\ UNCHANGED nextBlock

Pack ==
    /\ \/ nextBlock \in DOMAIN blocks /\ (AddBlock(nextBlock) \/ FlushChunk(nextBlock))
       \/ nextBlock \notin DOMAIN blocks /\ current # <<>> /\ LastChunk
    /\ UNCHANGED <<blocks, preamble, charVars, itemVars, peopleVars>>

MaxChars == ChunkTokens * TokenBytes
Step == IF MaxChars > Overlap THEN MaxChars - Overlap ELSE 1

\* chunk_by_chars_fallback, one window.
CutWindow ==
    /\ chars > 0
    /\ windows # <<>> => windows[Len(windows)].to < chars
    /\ LET from == IF windows = <<>> THEN 0 ELSE windows[Len(windows)].from + Step
           to == IF from + MaxChars < chars THEN from + MaxChars ELSE chars
       IN  windows' = Append(windows, [from |-> from, to |-> to])
    /\ UNCHANGED <<chars, packVars, itemVars, peopleVars>>

\* jaccard_token_overlap >= 0.7
Similar(a, b) == 10 * Cardinality(a \cap b) >= 7 * Cardinality(a \cup b)

\* strip_unverified_evidence: the quote goes, the item stays.
Stripped(item) ==
    IF item.quote = "fabricated" THEN [item EXCEPT !.quote = "none"] ELSE item

Duplicate(item) == \E k \in DOMAIN kept : Similar(kept[k].words, item.words)

\* strip_unverified_evidence and dedup_vec, for one item.
DedupItem ==
    /\ seen < Len(items) /\ seen' = seen + 1
    /\ LET left == Stripped(items[seen + 1]) IN
       kept' = IF Duplicate(left) THEN kept ELSE Append(kept, left)
    /\ UNCHANGED <<items, packVars, charVars, peopleVars>>

NameSeen(p) == p.name # NoName /\ p.name \in names

\* dedup_participants, for one of them: the tag is noted even of one who is
\* dropped for the name.
DedupPerson ==
    /\ met < Len(people) /\ met' = met + 1
    /\ LET p == people[met + 1] IN
       /\ tags' = tags \cup {p.tag}
       /\ names' = IF p.tag \in tags THEN names ELSE names \cup {p.name}
       /\ present' = IF p.tag \in tags \/ NameSeen(p) THEN present ELSE Append(present, met + 1)
    /\ UNCHANGED <<people, packVars, charVars, itemVars>>

TextNext == Pack \/ CutWindow \/ DedupItem \/ DedupPerson

TextSpec == TextInit /\ [][TextNext]_textVars
-----------------------------------------------------------------------------
(* Properties *)

LastId(c) == c.parts[Len(c.parts)].id

\* What is new in c follows on n turns.
FollowsOn(c, n) ==
    /\ c.repeated < Len(c.parts)
    /\ \A i \in c.repeated + 1..Len(c.parts) : c.parts[i].id = n + i - c.repeated

\* Every turn is in exactly one chunk as new text, in the order of the call.
NoTurnLost ==
    /\ \A k \in DOMAIN chunks :
           FollowsOn(chunks[k], IF k = 1 THEN 0 ELSE LastId(chunks[k - 1]))
    /\ current = <<>> /\ chunks # <<>> => LastId(chunks[Len(chunks)]) = Len(blocks)

\* It repeats whole turns from the end of the one before, at least the overlap
\* wanted or all that the chunk had.
Repeats(c, before) ==
    LET again == {c.parts[i].id : i \in 1..c.repeated}
        length == c.parts[c.repeated + 1].start - 2
    IN  /\ LastId(before) \in again
        /\ length >= Overlap
           \/ \A p \in Range(before.parts) : p.id \in again \/ (preamble /\ p.id = 1)

\* A chunk goes on from the one before.
ChunksOverlap == \A k \in 2..Len(chunks) : Repeats(chunks[k], chunks[k - 1])

\* A chunk is larger than the model was promised only where one new turn alone,
\* with what is repeated before it, is: packing two turns never makes it so.
Promised(c) == Tokens(c.bytes) > ChunkTokens => Len(c.parts) = c.repeated + 1
OversizedByOneTurn == \A k \in DOMAIN chunks : Promised(chunks[k])

\* The windows of a text without headers leave no character out, and overlap
\* whenever a window is larger than the overlap.
WindowsCover ==
    /\ windows # <<>> => windows[1].from = 0
    /\ \A k \in 2..Len(windows) :
        /\ windows[k - 1].from < windows[k].from /\ windows[k].from <= windows[k - 1].to
        /\ MaxChars > Overlap => windows[k - 1].to - windows[k].from = Overlap

\* The list that is shown has no two of one meaning, and nothing is missing in
\* it that was not said before: a wrong quote costs no item.
DedupKeepsMeaning ==
    /\ \A j, k \in DOMAIN kept : j < k => ~Similar(kept[j].words, kept[k].words)
    /\ \A i \in 1..seen : \E k \in DOMAIN kept : Similar(kept[k].words, items[i].words)
    /\ \A k \in DOMAIN kept : kept[k].quote # "fabricated"

\* A participant is left out only for one before with the same tag or the same
\* name; having no name is not a name.
PeopleStay ==
    \A i \in (1..met) \ Range(present) :
        \E j \in 1..i - 1 : \/ people[j].tag = people[i].tag
                            \/ people[i].name # NoName /\ people[j].name = people[i].name

\* Nothing said is lost on the way to the model and back.
TextKept ==
    /\ NoTurnLost /\ ChunksOverlap /\ OversizedByOneTurn /\ WindowsCover
    /\ DedupKeepsMeaning /\ PeopleStay
=============================================================================
