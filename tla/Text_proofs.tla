----------------------------- MODULE Text_proofs -----------------------------
(***************************************************************************)
(* From the words of the chunks to the transcript, and from a transcript to *)
(* the recap and to the answers of the assistant: nothing is lost, for any  *)
(* words and any texts, and what is answered stands on what was found.      *)
(***************************************************************************)
EXTENDS TranscriptAssembly, RecapText, AssistantAnswer, Induction, SequenceTheorems,
        FiniteSetTheorems, TLAPS

(***************************************************************************)
(* TranscriptAssembly: from the words of the chunks to one timeline.       *)
(***************************************************************************)
Tags == {Speaker(n) : n \in Nat} \cup {Unknown, OwnerSpeaker, WhisperOwner}
Segments == [track : Sides, from : Nat, to : Nat, text : Utterances, tag : Tags]
Spoken == [track : Sides, from : Nat, to : Nat, text : Utterances]
ChunkRows == [done : BOOLEAN, embedded : BOOLEAN, words : [Sides -> SUBSET Segments]]

\* A segment is a word that was said, up to the cut.
IsWord(w, s, k) ==
    /\ w.track = s.track /\ w.text = s.text /\ w.from = s.from
    /\ w.to = IF BeforeCut(s.to, k) THEN s.to ELSE k

\* Two segments that differ in their tags at most.
SameWord(v, w) == v.track = w.track /\ v.text = w.text /\ v.from = w.from /\ v.to = w.to

AsmShape ==
    /\ cut \in Cuts \cup {Uncut} /\ said \subseteq Spoken /\ IsFiniteSet(said)
    /\ rows \in Seq(ChunkRows) /\ tracks \in [Sides -> SUBSET Segments]

\* The words of a chunk begin in it, and no text begins twice at a time on a track.
RowFits(row) ==
    \A t \in Sides : \A w \in row.words[t] :
        /\ w.track = t /\ w.from < SpanLen /\ (t = "system" => w.tag # WhisperOwner)
        /\ row.done
        /\ \A v \in row.words[t] : v.from = w.from /\ v.text = w.text => v = w

\* While the call is recorded the rows are what was said.
RowsFit ==
    /\ \A c \in DOMAIN rows : RowFits(rows[c])
    /\ tStep = "recording" =>
          /\ flagged = {} /\ lang = NoLangs
          /\ \A c \in DOMAIN rows : \A t \in Sides : \A w \in rows[c].words[t] :
                Timed(w, StartOf(c)) \in said
          /\ \A s \in said : \E c \in DOMAIN rows : \E t \in Sides : \E w \in rows[c].words[t] :
                s = Timed(w, StartOf(c))

\* The segments of a track are the words that were heard on it, each once.
OfTrack(words, t, heard, k) ==
    /\ \A w \in words :
          /\ w.track = t /\ \E s \in heard : IsWord(w, s, k)
          /\ \A v \in words : SameWord(v, w) => v = w
    /\ \A s \in heard : s.track = t => \E w \in words : IsWord(w, s, k)

\* Afterwards the two tracks are.
Working == {"repin mic", "diarize system", "diarize mic", "owner", "merge"}
TracksFit == tStep \in Working => \A t \in Sides : OfTrack(tracks[t], t, said, cut)

\* Who speaks on them.
TagsFit ==
    /\ tStep \in Working => \A w \in tracks["system"] : w.tag # WhisperOwner
    /\ tStep \in {"diarize mic", "owner", "merge"} /\ "system tags" \notin flagged =>
           \A w \in tracks["system"] : w.tag \in HeardTags
    /\ tStep \in {"owner", "merge"} /\ "mic tags" \notin flagged =>
           \A w \in tracks["mic"] : w.tag # WhisperOwner
    /\ tStep = "merge" /\ tracks["mic"] # {} => OwnerSpeaker \in TagsOf(tracks["mic"])

\* And then the timeline, in order.
OneTimeline(m, heard, k) ==
    /\ \A i \in DOMAIN m : \E s \in heard : IsWord(m[i], s, k)
    /\ \A s \in heard : \E i \in DOMAIN m : IsWord(m[i], s, k)
    /\ \A i, j \in DOMAIN m : SameWord(m[i], m[j]) => i = j
    /\ \A i \in 1..Len(m) - 1 : m[i].from <= m[i + 1].from
MergedFits == tStep = "sanitize" => merged \in Seq(Segments) /\ OneTimeline(merged, said, cut)

AsmInv ==
    /\ AsmShape /\ RowsFit /\ TracksFit /\ TagsFit /\ MergedFits
    /\ WordsKept /\ OwnerOnMic /\ OneLanguage

LEMMA AsmNumbers ==
    /\ SpanLen \in Nat /\ SpanLen > 0 /\ LoopAt \in Nat /\ MaxSpeakers \in Nat
    /\ Cuts \subseteq Nat \ {0} /\ Uncut \notin Nat
BY TranscriptAssumption

LEMMA TagsDiffer ==
    /\ OwnerSpeaker # WhisperOwner /\ OwnerSpeaker \notin HeardTags /\ WhisperOwner \notin HeardTags
    /\ HeardTags \subseteq Tags /\ {OwnerSpeaker, WhisperOwner, Unknown} \subseteq Tags
    /\ \A n \in Nat : Speaker(n) \in Tags /\ Speaker(n) # WhisperOwner
<1>1. /\ \A n \in Nat : Speaker(n) # WhisperOwner /\ Speaker(n) # OwnerSpeaker
      /\ OwnerSpeaker # WhisperOwner /\ Unknown # OwnerSpeaker /\ Unknown # WhisperOwner
    BY DEF Speaker, WhisperOwner, OwnerSpeaker, Unknown
<1>2. \A tag \in HeardTags : tag = Unknown \/ \E n \in Nat : tag = Speaker(n)
    BY AsmNumbers DEF HeardTags
<1>3. QED
    BY <1>1, <1>2 DEF Tags

\* Another tag on a segment.
LEMMA Retagging ==
    ASSUME NEW w \in Segments, NEW tag \in Tags
    PROVE  LET r == [w EXCEPT !.tag = tag]
           IN  r \in Segments /\ SameWord(r, w) /\ r.tag = tag
BY DEF Segments, SameWord

\* The segments of one track with other tags.
LEMMA RetaggedFit ==
    ASSUME NEW words \in SUBSET Segments, NEW new \in SUBSET Segments, NEW f,
           \A w \in words : f[w] \in new /\ SameWord(f[w], w),
           \A r \in new : \E w \in words : r = f[w],
           NEW t, NEW heard, NEW k, OfTrack(words, t, heard, k)
    PROVE  OfTrack(new, t, heard, k)
<1>1. ASSUME NEW r \in new
      PROVE  /\ r.track = t /\ \E s \in heard : IsWord(r, s, k)
             /\ \A q \in new : SameWord(q, r) => q = r
  <2>1. PICK w \in words : r = f[w]
    OBVIOUS
  <2>2. SameWord(r, w)
    BY <2>1
  <2>3. w.track = t /\ \E s \in heard : IsWord(w, s, k)
    BY DEF OfTrack
  <2>4. r.track = t /\ \E s \in heard : IsWord(r, s, k)
    BY <2>2, <2>3 DEF SameWord, IsWord
  <2>5. ASSUME NEW q \in new, SameWord(q, r) PROVE q = r
    <3>1. PICK v \in words : q = f[v]
        OBVIOUS
    <3>2. SameWord(q, v)
        BY <3>1
    <3>3. SameWord(v, w)
        BY <2>2, <2>5, <3>2 DEF SameWord
    <3>4. v = w
        BY <3>3 DEF OfTrack
    <3>5. QED
        BY <2>1, <3>1, <3>4
  <2>6. QED
    BY <2>4, <2>5
<1>2. ASSUME NEW s \in heard, s.track = t PROVE \E r \in new : IsWord(r, s, k)
  <2>1. PICK w \in words : IsWord(w, s, k)
    BY <1>2 DEF OfTrack
  <2>2. f[w] \in new /\ SameWord(f[w], w)
    OBVIOUS
  <2>3. IsWord(f[w], s, k)
    BY <2>1, <2>2 DEF SameWord, IsWord
  <2>4. QED
    BY <2>2, <2>3
<1>3. QED
    BY <1>1, <1>2 DEF OfTrack

LEMMA RelabelledFit ==
    ASSUME NEW words \in SUBSET Segments, NEW owners, NEW t, NEW heard, NEW k
    PROVE  LET new == Relabelled(words, owners)
           IN  /\ new \in SUBSET Segments
               /\ OfTrack(words, t, heard, k) => OfTrack(new, t, heard, k)
               /\ \A r \in new : r.tag = OwnerSpeaker \/ \E w \in words : w.tag = r.tag
               /\ \A w \in words : w.tag \in owners => OwnerSpeaker \in TagsOf(new)
<1> DEFINE f == [w \in words |-> [w EXCEPT !.tag = IF @ \in owners THEN OwnerSpeaker ELSE @]]
           new == Relabelled(words, owners)
<1>1. ASSUME NEW w \in words
      PROVE  /\ f[w] \in Segments /\ SameWord(f[w], w)
             /\ f[w].tag = IF w.tag \in owners THEN OwnerSpeaker ELSE w.tag
  <2>1. w \in Segments /\ w.tag \in Tags
    BY DEF Segments
  <2>2. f[w] = [w EXCEPT !.tag = IF w.tag \in owners THEN OwnerSpeaker ELSE w.tag]
    BY <2>1 DEF Segments
  <2>3. (IF w.tag \in owners THEN OwnerSpeaker ELSE w.tag) \in Tags
    BY <2>1, TagsDiffer
  <2>4. QED
    BY <2>1, <2>2, <2>3, Retagging
<1>2. new = {f[w] : w \in words}
    BY DEF Relabelled
<1>3. /\ new \in SUBSET Segments
      /\ \A w \in words : f[w] \in new /\ SameWord(f[w], w)
      /\ \A r \in new : \E w \in words : r = f[w]
  <2> HIDE DEF f, new
  <2>1. QED
    BY <1>1, <1>2
<1>4. OfTrack(words, t, heard, k) => OfTrack(new, t, heard, k)
  <2> HIDE DEF f, new
  <2>1. QED
    BY <1>3, RetaggedFit
<1>5. \A r \in new : r.tag = OwnerSpeaker \/ \E w \in words : w.tag = r.tag
  <2> HIDE DEF f, new
  <2>1. QED
    BY <1>1, <1>3
<1>6. \A w \in words : w.tag \in owners => OwnerSpeaker \in TagsOf(new)
  <2> HIDE DEF f, new
  <2>1. QED
    BY <1>1, <1>3 DEF TagsOf
<1>7. QED
    BY <1>3, <1>4, <1>5, <1>6

LEMMA DiarizedFit ==
    ASSUME NEW words \in SUBSET Segments, NEW new \in Diarized(words), NEW t, NEW heard, NEW k
    PROVE  /\ new \in SUBSET Segments
           /\ OfTrack(words, t, heard, k) => OfTrack(new, t, heard, k)
           /\ \A r \in new : r.tag \in HeardTags
<1>1. PICK tag \in [words -> HeardTags] : new = {[w EXCEPT !.tag = tag[w]] : w \in words}
    BY DEF Diarized
<1> DEFINE f == [w \in words |-> [w EXCEPT !.tag = tag[w]]]
<1>2. ASSUME NEW w \in words
      PROVE  f[w] \in Segments /\ SameWord(f[w], w) /\ f[w].tag \in HeardTags
  <2>1. w \in Segments /\ tag[w] \in Tags /\ tag[w] \in HeardTags
    BY TagsDiffer
  <2>2. f[w] = [w EXCEPT !.tag = tag[w]]
    OBVIOUS
  <2>3. QED
    BY <2>1, <2>2, Retagging
<1>3. new = {f[w] : w \in words}
    BY <1>1
<1>4. /\ new \in SUBSET Segments
      /\ \A w \in words : f[w] \in new /\ SameWord(f[w], w)
      /\ \A r \in new : \E w \in words : r = f[w]
  <2> HIDE DEF f
  <2>1. QED
    BY <1>2, <1>3
<1>5. QED
  <2> HIDE DEF f
  <2>1. QED
    BY <1>2, <1>4, RetaggedFit

(* The chunks of a call follow each other. *)
LEMMA StartIsNat == ASSUME NEW c \in Nat \ {0} PROVE StartOf(c) \in Nat
<1>1. c - 1 \in Nat /\ SpanLen \in Nat
    BY AsmNumbers
<1>2. QED
    BY <1>1 DEF StartOf

LEMMA ChunksFollow ==
    ASSUME NEW c \in Nat \ {0}, NEW d \in Nat \ {0}, c < d
    PROVE  StartOf(c) + SpanLen <= StartOf(d)
<1>1. PICK a \in Nat, b \in Nat, L \in Nat : a = c - 1 /\ b = d - c - 1 /\ L = SpanLen
  <2>1. c - 1 \in Nat /\ d - c - 1 \in Nat /\ SpanLen \in Nat
    BY AsmNumbers
  <2>2. QED
    BY <2>1
<1>2. c - 1 = a /\ d - 1 = a + b + 1
    BY <1>1
<1>3. (a + b + 1) * L = a * L + b * L + L
    OBVIOUS
<1>4. a * L \in Nat /\ b * L \in Nat
    OBVIOUS
<1>5. StartOf(c) = a * L /\ StartOf(d) = (a + b + 1) * L
    BY <1>1, <1>2 DEF StartOf
<1>6. QED
    BY <1>1, <1>3, <1>4, <1>5

\* A word tells which chunk it is from.
LEMMA ChunkOfWord ==
    ASSUME NEW c \in Nat \ {0}, NEW d \in Nat \ {0}, NEW x \in Nat, NEW y \in Nat,
           x < SpanLen, y < SpanLen, x + StartOf(c) = y + StartOf(d)
    PROVE  c = d /\ x = y
<1>1. PICK L \in Nat, m \in Nat, n \in Nat : L = SpanLen /\ m = StartOf(c) /\ n = StartOf(d)
    BY AsmNumbers, StartIsNat
<1>2. ASSUME c < d PROVE FALSE
  <2>1. m + L <= n
    BY <1>1, <1>2, ChunksFollow
  <2>2. x + m = y + n /\ x < L
    BY <1>1
  <2>3. QED
    BY <2>1, <2>2
<1>3. ASSUME d < c PROVE FALSE
  <2>1. n + L <= m
    BY <1>1, <1>3, ChunksFollow
  <2>2. x + m = y + n /\ y < L
    BY <1>1
  <2>3. QED
    BY <2>1, <2>2
<1>4. c = d
    BY <1>2, <1>3
<1>5. m = n /\ x + m = y + n
    BY <1>1, <1>4
<1>6. QED
    BY <1>4, <1>5

\* A word of a chunk, where it stands in a track.
LEMMA PlacedIs ==
    ASSUME NEW w \in Segments, NEW c \in Nat \ {0}, NEW k \in Cuts \cup {Uncut}
    PROVE  LET from == w.from + StartOf(c)
               to == w.to + StartOf(c)
               s == Timed(w, StartOf(c))
           IN  /\ from \in Nat /\ to \in Nat /\ s \in Spoken
               /\ ~BeforeCut(from, k) => Placed(w, c, k) = {}
               /\ BeforeCut(from, k) =>
                      \E p \in Segments :
                          /\ Placed(w, c, k) = {p} /\ IsWord(p, s, k)
                          /\ p.from = from /\ p.track = w.track /\ p.tag = w.tag
<1>1. PICK n \in Nat : n = StartOf(c)
    BY StartIsNat
<1>2. PICK from \in Nat, to \in Nat : from = w.from + n /\ to = w.to + n
  <2>1. w.from \in Nat /\ w.to \in Nat
    BY DEF Segments
  <2>2. QED
    BY <2>1
<1>3. Timed(w, n) = [track |-> w.track, from |-> from, to |-> to, text |-> w.text]
    BY <1>2 DEF Timed
<1>4. Timed(w, n) \in Spoken
    BY <1>3 DEF Segments, Spoken
<1>5. ASSUME ~BeforeCut(from, k) PROVE Placed(w, c, k) = {}
    BY <1>1, <1>2, <1>5 DEF Placed
<1>6. ASSUME BeforeCut(from, k)
      PROVE  \E p \in Segments :
                 /\ Placed(w, c, k) = {p} /\ IsWord(p, Timed(w, n), k)
                 /\ p.from = from /\ p.track = w.track /\ p.tag = w.tag
  <2>1. PICK end \in Nat : end = IF BeforeCut(to, k) THEN to ELSE k
    <3>1. CASE BeforeCut(to, k)
        BY <3>1
    <3>2. CASE ~BeforeCut(to, k)
        BY <3>2, AsmNumbers DEF BeforeCut
    <3>3. QED
        BY <3>1, <3>2
  <2>2. PICK p \in Segments : p = [w EXCEPT !.from = from, !.to = end]
    BY DEF Segments
  <2>3. /\ p.from = from /\ p.to = end /\ p.track = w.track /\ p.tag = w.tag
        /\ p.text = w.text
    BY <2>2 DEF Segments
  <2>4. Placed(w, c, k) = {p}
    BY <1>1, <1>2, <1>6, <2>1, <2>2 DEF Placed
  <2>5. IsWord(p, Timed(w, n), k)
    BY <1>3, <2>1, <2>3 DEF IsWord
  <2>6. QED
    BY <2>3, <2>4, <2>5
<1>7. QED
    BY <1>1, <1>2, <1>4, <1>5, <1>6

\* The clusters only give other tags.
LEMMA RemappedIs ==
    ASSUME NEW w \in Segments, NEW c, NEW g, NEW D, g \in [D -> Nat]
    PROVE  LET r == Remapped(w, c, g)
           IN  /\ r \in Segments /\ SameWord(r, w)
               /\ r.tag = IF <<c, w.tag>> \in D THEN Speaker(g[<<c, w.tag>>]) ELSE w.tag
<1>1. CASE <<c, w.tag>> \in D
  <2>1. Speaker(g[<<c, w.tag>>]) \in Tags
    BY <1>1, TagsDiffer
  <2>2. Remapped(w, c, g) = [w EXCEPT !.tag = Speaker(g[<<c, w.tag>>])]
    BY <1>1 DEF Remapped
  <2>3. QED
    BY <1>1, <2>1, <2>2, Retagging
<1>2. CASE <<c, w.tag>> \notin D
    BY <1>2 DEF Remapped, SameWord
<1>3. QED
    BY <1>1, <1>2

LEMMA ClustersAre ==
    ASSUME NEW used, NEW g \in Clusterings(used) PROVE \E D : g \in [D -> Nat]
<1> DEFINE D == VoicesOf(used)
<1>1. g \in [D -> 1..Cardinality(D)]
    BY DEF Clusterings
<1>2. \A n \in 1..Cardinality(D) : n \in Nat
    OBVIOUS
<1> HIDE DEF D
<1>3. g \in [D -> Nat]
    BY <1>1, <1>2
<1>4. QED
    BY <1>3

\* What stands in a row.
LEMMA RowIs ==
    ASSUME AsmInv, NEW c \in DOMAIN rows, NEW t \in Sides, NEW w \in rows[c].words[t]
    PROVE  /\ c \in Nat \ {0} /\ w \in Segments /\ w.from \in Nat
           /\ w.track = t /\ w.from < SpanLen /\ rows[c].done
           /\ t = "system" => w.tag # WhisperOwner
           /\ \A v \in rows[c].words[t] : v.from = w.from /\ v.text = w.text => v = w
           /\ tStep = "recording" => Timed(w, StartOf(c)) \in said
<1>1. rows \in Seq(ChunkRows) /\ RowFits(rows[c])
    BY DEF AsmInv, AsmShape, RowsFit
<1>2. c \in Nat \ {0} /\ rows[c] \in ChunkRows
    BY <1>1
<1>3. w \in Segments
    BY <1>2 DEF ChunkRows
<1>4. w.from \in Nat
    BY <1>3 DEF Segments
<1>5. tStep = "recording" => Timed(w, StartOf(c)) \in said
    BY DEF AsmInv, RowsFit
<1>6. QED
    BY <1>1, <1>2, <1>3, <1>4, <1>5 DEF RowFits

\* A track that is put together from the chunks has what was said before the cut.
LEMMA PlacedTrack ==
    ASSUME AsmInv, tStep = "recording", NEW k \in Cuts \cup {Uncut},
           NEW g \in Clusterings(Usable(k)), NEW t \in Sides
    PROVE  LET words == TrackOf(t, Usable(k), k, g)
           IN  /\ words \in SUBSET Segments
               /\ OfTrack(words, t, {s \in said : BeforeCut(s.from, k)}, k)
               /\ t = "system" => \A p \in words : p.tag # WhisperOwner
<1> DEFINE words == TrackOf(t, Usable(k), k, g)
           heard == {s \in said : BeforeCut(s.from, k)}
<1>1. PICK D : g \in [D -> Nat]
    BY ClustersAre
<1> DEFINE NewTag(c, tag) == IF <<c, tag>> \in D THEN Speaker(g[<<c, tag>>]) ELSE tag
           From(p, c, w) ==
               /\ p \in Segments /\ IsWord(p, Timed(w, StartOf(c)), k)
               /\ p.from = w.from + StartOf(c) /\ BeforeCut(p.from, k)
               /\ p.track = t /\ p.tag = NewTag(c, w.tag)
<1>2. ASSUME NEW c \in DOMAIN rows, NEW w \in rows[c].words[t]
      PROVE  /\ BeforeCut(w.from + StartOf(c), k) =>
                    \E p : Placed(Remapped(w, c, g), c, k) = {p} /\ From(p, c, w)
             /\ ~BeforeCut(w.from + StartOf(c), k) => Placed(Remapped(w, c, g), c, k) = {}
  <2>1. c \in Nat \ {0} /\ w \in Segments /\ w.track = t
    BY RowIs
  <2>2. PICK r \in Segments : r = Remapped(w, c, g) /\ SameWord(r, w) /\ r.tag = NewTag(c, w.tag)
    BY <1>1, <2>1, RemappedIs
  <2>3. Timed(r, StartOf(c)) = Timed(w, StartOf(c)) /\ r.from = w.from /\ r.track = t
    BY <2>1, <2>2 DEF Timed, SameWord
  <2>4. ASSUME BeforeCut(r.from + StartOf(c), k)
        PROVE  \E p : Placed(r, c, k) = {p} /\ From(p, c, w)
    <3>1. PICK p \in Segments :
              /\ Placed(r, c, k) = {p} /\ IsWord(p, Timed(r, StartOf(c)), k)
              /\ p.from = r.from + StartOf(c) /\ p.track = r.track /\ p.tag = r.tag
        BY <2>1, <2>4, PlacedIs
    <3>2. From(p, c, w)
        BY <2>2, <2>3, <2>4, <3>1
    <3>3. QED
        BY <3>1, <3>2
  <2>5. ~BeforeCut(r.from + StartOf(c), k) => Placed(r, c, k) = {}
    BY <2>1, PlacedIs
  <2>6. QED
    BY <2>2, <2>3, <2>4, <2>5
<1>3. ASSUME NEW p \in words
      PROVE  \E c \in DOMAIN rows : \E w \in rows[c].words[t] : From(p, c, w)
  <2>1. PICK c \in Usable(k) : \E w \in rows[c].words[t] : p \in Placed(Remapped(w, c, g), c, k)
    BY DEF TrackOf
  <2>2. c \in DOMAIN rows
    BY <2>1 DEF Usable
  <2>3. PICK w \in rows[c].words[t] : p \in Placed(Remapped(w, c, g), c, k)
    BY <2>1
  <2>4. From(p, c, w)
    <3> HIDE DEF From, words
    <3>1. QED
        BY <1>2, <2>2, <2>3
  <2>5. QED
    BY <2>2, <2>4
<1>4. ASSUME NEW p \in words
      PROVE  /\ p \in Segments /\ p.track = t /\ \E s \in heard : IsWord(p, s, k)
             /\ t = "system" => p.tag # WhisperOwner
             /\ \A q \in words : SameWord(q, p) => q = p
  <2> HIDE DEF words
  <2>0. PICK c \in DOMAIN rows : \E w \in rows[c].words[t] : From(p, c, w)
    BY <1>3
  <2>1. PICK w \in rows[c].words[t] : From(p, c, w)
    BY <2>0
  <2>2. /\ c \in Nat \ {0} /\ w \in Segments /\ w.from \in Nat /\ w.from < SpanLen
        /\ t = "system" => w.tag # WhisperOwner
        /\ Timed(w, StartOf(c)) \in said
    BY RowIs
  <2>3. \E s \in heard : IsWord(p, s, k)
    <3>1. Timed(w, StartOf(c)).from = p.from /\ BeforeCut(p.from, k)
        BY <2>1 DEF Timed
    <3>2. Timed(w, StartOf(c)) \in heard
        BY <2>2, <3>1
    <3>3. QED
        BY <2>1, <3>2
  <2>4. t = "system" => p.tag # WhisperOwner
    <3>1. \A n \in Nat : Speaker(n) # WhisperOwner
        BY TagsDiffer
    <3>2. <<c, w.tag>> \in D => NewTag(c, w.tag) # WhisperOwner
        BY <1>1, <3>1
    <3>3. QED
        BY <2>1, <2>2, <3>2
  <2>5. ASSUME NEW q \in words, SameWord(q, p) PROVE q = p
    <3>0. PICK d \in DOMAIN rows : \E v \in rows[d].words[t] : From(q, d, v)
        BY <1>3
    <3>1. PICK v \in rows[d].words[t] : From(q, d, v)
        BY <3>0
    <3>2. d \in Nat \ {0} /\ v.from \in Nat /\ v.from < SpanLen
        BY RowIs
    <3>3. w.from + StartOf(c) = v.from + StartOf(d)
        BY <2>1, <2>5, <3>1 DEF SameWord
    <3>4. c = d
        BY <2>2, <3>2, <3>3, ChunkOfWord
    <3>5. v = w
      <4>1. v.from = w.from
          BY <2>2, <3>2, <3>3, <3>4, StartIsNat
      <4>2. v.text = w.text
          BY <2>1, <2>5, <3>1 DEF SameWord, IsWord, Timed
      <4>3. v \in rows[c].words[t] /\ w \in rows[c].words[t]
          BY <3>4
      <4>4. QED
          BY <4>1, <4>2, <4>3, RowIs
    <3>6. q.tag = p.tag /\ q \in Segments /\ p \in Segments
        BY <2>1, <3>1, <3>4, <3>5
    <3>7. QED
        BY <2>5, <3>6 DEF SameWord, Segments
  <2>6. QED
    BY <2>1, <2>3, <2>4, <2>5
<1>5. ASSUME NEW s \in heard, s.track = t PROVE \E p \in words : IsWord(p, s, k)
  <2>0. PICK c \in DOMAIN rows, u \in Sides : \E w \in rows[c].words[u] : s = Timed(w, StartOf(c))
    BY DEF AsmInv, RowsFit
  <2>1. PICK w \in rows[c].words[u] : s = Timed(w, StartOf(c))
    BY <2>0
  <2>2. /\ w.track = u /\ c \in Nat \ {0} /\ w \in Segments /\ w.from \in Nat /\ rows[c].done
    BY <2>1, RowIs
  <2>3. u = t /\ s.from = w.from + StartOf(c)
    BY <1>5, <2>1, <2>2 DEF Timed
  <2>4. BeforeCut(w.from + StartOf(c), k)
    BY <2>3
  <2>5. BeforeCut(StartOf(c), k)
    <3>1. StartOf(c) \in Nat /\ StartOf(c) <= w.from + StartOf(c)
        BY <2>2, StartIsNat
    <3>2. k = Uncut \/ k \in Nat
        BY AsmNumbers
    <3>3. QED
        BY <2>2, <2>4, <3>1, <3>2 DEF BeforeCut
  <2>6. c \in Usable(k)
    BY <2>2, <2>5 DEF Usable
  <2>7. PICK p : Placed(Remapped(w, c, g), c, k) = {p} /\ From(p, c, w)
    <3> HIDE DEF From
    <3>1. w \in rows[c].words[t]
        BY <2>1, <2>3
    <3>2. QED
        BY <1>2, <2>4, <3>1
  <2>8. p \in words
    <3>1. w \in rows[c].words[t]
        BY <2>1, <2>3
    <3>2. QED
        BY <2>6, <2>7, <3>1 DEF TrackOf
  <2>9. QED
    BY <2>1, <2>7, <2>8
<1>6. OfTrack(words, t, heard, k)
  <2> HIDE DEF words, heard
  <2>1. QED
    BY <1>4, <1>5 DEF OfTrack
<1>7. words \in SUBSET Segments
  <2> HIDE DEF words, heard
  <2>1. QED
    BY <1>4
<1>8. QED
    BY <1>4, <1>6, <1>7

\* What whisper makes of a file.
LEMMA TakeIs ==
    ASSUME NEW take \in Hearings, NEW t \in Sides
    PROVE  /\ HeardWords(take[t]) \subseteq Words(t) /\ HeardWords(take[t]) \subseteq Segments
           /\ IsFiniteSet(HeardWords(take[t]))
           /\ \A w \in HeardWords(take[t]) :
                 /\ w.track = t /\ w.from < SpanLen /\ w.from < w.to
                 /\ w.tag = IF t = "mic" THEN WhisperOwner ELSE Speaker(1)
                 /\ \A v \in HeardWords(take[t]) : v.from = w.from /\ v.text = w.text => v = w
<1>1. take[t] \in Takes[t]
    BY DEF Hearings, Sides
<1>2. /\ take[t] \subseteq Words(t) /\ IsFiniteSet(take[t]) /\ \A w \in take[t] : w.from < w.to
      /\ \A v, w \in take[t] : v.from = w.from /\ v.text = w.text => v = w
    BY <1>1, TranscriptAssumption
<1>3. HeardWords(take[t]) \subseteq take[t]
    BY DEF HeardWords
<1>4. IsFiniteSet(HeardWords(take[t]))
    BY <1>2, <1>3, FS_Subset
<1>5. ASSUME NEW w \in Words(t)
      PROVE  /\ w \in Segments /\ w.track = t /\ w.from < SpanLen
             /\ w.tag = IF t = "mic" THEN WhisperOwner ELSE Speaker(1)
  <2>1. /\ w.track = t /\ w.from \in 0..SpanLen - 1 /\ w.to \in 1..SpanLen
        /\ w.tag = IF t = "mic" THEN WhisperOwner ELSE Speaker(1)
    BY DEF Words
  <2>2. w.tag \in Tags
    BY <2>1, TagsDiffer
  <2>3. w.from \in Nat /\ w.to \in Nat /\ w.from < SpanLen
    BY <2>1, AsmNumbers
  <2>4. w \in Segments
    BY <2>2, <2>3 DEF Words, Segments
  <2>5. QED
    BY <2>1, <2>3, <2>4
<1>6. QED
    BY <1>2, <1>3, <1>4, <1>5

LEMMA TimedIs ==
    ASSUME NEW w \in Segments, NEW start \in Nat
    PROVE  Timed(w, start) \in Spoken
<1>1. w.from + start \in Nat /\ w.to + start \in Nat
    BY DEF Segments
<1>2. QED
    BY <1>1 DEF Timed, Segments, Spoken

LEMMA SaidInIs ==
    ASSUME NEW take \in Hearings, NEW start \in Nat
    PROVE  SaidIn(take, start) \subseteq Spoken /\ IsFiniteSet(SaidIn(take, start))
<1> DEFINE S(t) == {Timed(w, start) : w \in HeardWords(take[t])}
<1>1. ASSUME NEW t \in Sides PROVE S(t) \subseteq Spoken /\ IsFiniteSet(S(t))
  <2> DEFINE f == [w \in HeardWords(take[t]) |-> Timed(w, start)]
  <2>1. S(t) \subseteq Spoken
    BY TakeIs, TimedIs
  <2>2. f \in Surjection(HeardWords(take[t]), S(t))
    BY DEF Surjection
  <2>3. IsFiniteSet(S(t))
    BY <2>2, TakeIs, FS_Surjection
  <2>4. QED
    BY <2>1, <2>3
<1>2. SaidIn(take, start) = S("mic") \cup S("system")
    BY DEF SaidIn, Sides
<1>3. "mic" \in Sides /\ "system" \in Sides
    BY DEF Sides
<1>4. QED
  <2> HIDE DEF S
  <2>1. QED
    BY <1>1, <1>2, <1>3, FS_Union

\* What diarization makes of the microphone's words.
LEMMA OnMicIs ==
    ASSUME NEW take \in Hearings, NEW mic \in HeardOnMic(HeardWords(take["mic"]))
    PROVE  LET heard == HeardWords(take["mic"])
           IN  /\ mic \in SUBSET Segments
               /\ \A w \in mic : \E v \in heard : SameWord(w, v)
               /\ \A v \in heard : \E w \in mic : SameWord(w, v)
               /\ \A v, w \in mic : v.from = w.from /\ v.text = w.text => v = w
<1> DEFINE heard == HeardWords(take["mic"])
<1>1. /\ heard \subseteq Segments
      /\ \A v, w \in heard : v.from = w.from /\ v.text = w.text => v = w
    BY TakeIs DEF Sides
<1> HIDE DEF heard
<1>2. CASE mic = heard
  <2>1. \A w \in heard : SameWord(w, w)
    BY DEF SameWord
  <2>2. QED
    BY <1>1, <1>2, <2>1 DEF heard
<1>3. CASE mic \in Diarized(heard)
  <2>1. PICK tag \in [heard -> HeardTags] : mic = {[w EXCEPT !.tag = tag[w]] : w \in heard}
    BY <1>3 DEF Diarized
  <2>2. ASSUME NEW w \in heard
        PROVE  /\ [w EXCEPT !.tag = tag[w]] \in Segments
               /\ SameWord([w EXCEPT !.tag = tag[w]], w)
    BY <1>1, <2>1, TagsDiffer, Retagging
  <2>3. ASSUME NEW v \in mic, NEW w \in mic, v.from = w.from, v.text = w.text PROVE v = w
    <3>1. PICK a \in heard : v = [a EXCEPT !.tag = tag[a]]
        BY <2>1
    <3>2. PICK b \in heard : w = [b EXCEPT !.tag = tag[b]]
        BY <2>1
    <3>3. a.from = b.from /\ a.text = b.text
        BY <2>2, <2>3, <3>1, <3>2 DEF SameWord
    <3>4. QED
        BY <1>1, <3>1, <3>2, <3>3
  <2>4. \A v \in heard : \E w \in mic : SameWord(w, v)
    BY <2>1, <2>2
  <2>5. (\A w \in mic : \E v \in heard : SameWord(w, v)) /\ mic \in SUBSET Segments
    BY <2>1, <2>2
  <2>6. QED
    BY <2>3, <2>4, <2>5 DEF heard
<1>4. QED
    BY <1>2, <1>3 DEF HeardOnMic, heard

\* The row of a chunk.
LEMMA RowHeard ==
    ASSUME NEW take \in Hearings, NEW mic \in HeardOnMic(HeardWords(take["mic"])),
           NEW embedded \in BOOLEAN
    PROVE  LET row == HeardRow(mic, HeardWords(take["system"]), embedded)
           IN  /\ row \in ChunkRows /\ RowFits(row)
               /\ \A t \in Sides : \A w \in row.words[t] :
                      \E v \in HeardWords(take[t]) : SameWord(w, v)
               /\ \A t \in Sides : \A v \in HeardWords(take[t]) :
                      \E w \in row.words[t] : SameWord(w, v)
<1> DEFINE row == HeardRow(mic, HeardWords(take["system"]), embedded)
           heard(t) == HeardWords(take[t])
           stored(t) == IF t = "mic" THEN mic ELSE HeardWords(take["system"])
<1>1. row.done = TRUE /\ row.embedded = embedded /\ row.words = [t \in Sides |-> stored(t)]
    BY DEF HeardRow
<1>2. ASSUME NEW t \in Sides
      PROVE  /\ stored(t) \in SUBSET Segments
             /\ \A w \in stored(t) : \E v \in heard(t) : SameWord(w, v)
             /\ \A v \in heard(t) : \E w \in stored(t) : SameWord(w, v)
             /\ \A v, w \in stored(t) : v.from = w.from /\ v.text = w.text => v = w
             /\ t = "system" => \A w \in stored(t) : w.tag # WhisperOwner
  <2>1. CASE t = "mic"
    BY <2>1, OnMicIs
  <2>2. CASE t = "system"
    <3>1. stored(t) = heard(t)
        BY <2>2
    <3>2. \A w \in heard(t) : SameWord(w, w)
        BY DEF SameWord
    <3>3. /\ heard(t) \in SUBSET Segments
          /\ \A v, w \in heard(t) : v.from = w.from /\ v.text = w.text => v = w
          /\ \A w \in heard(t) : w.tag # WhisperOwner
        BY <2>2, TakeIs, TagsDiffer
    <3> HIDE DEF heard, stored
    <3>4. QED
        BY <3>1, <3>2, <3>3
  <2>3. QED
    BY <2>1, <2>2 DEF Sides
<1>3. \A t \in Sides : \A v \in heard(t) : v.track = t /\ v.from < SpanLen
    BY TakeIs
<1> HIDE DEF stored
<1>4. \A t \in Sides : row.words[t] = stored(t)
    BY <1>1
<1>5. row \in ChunkRows
  <2>1. [t \in Sides |-> stored(t)] \in [Sides -> SUBSET Segments]
    BY <1>2
  <2>2. row = [done |-> TRUE, embedded |-> embedded, words |-> [t \in Sides |-> stored(t)]]
    BY <1>1 DEF HeardRow
  <2>3. QED
    BY <2>1, <2>2 DEF ChunkRows
<1> HIDE DEF row, heard
<1>6. \A t \in Sides : \A w \in stored(t) : w.track = t /\ w.from < SpanLen
    BY <1>2, <1>3 DEF SameWord
<1>7. RowFits(row)
    BY <1>1, <1>2, <1>4, <1>6 DEF RowFits
<1>8. QED
    BY <1>2, <1>4, <1>5, <1>7 DEF row, heard

\* While the call is recorded there is nothing to say of the tracks.
LEMMA StillRecording ==
    ASSUME tStep' = "recording" \/ tStep' = "halted", AsmShape', RowsFit' PROVE AsmInv'
<1>1. /\ tStep' \notin Working /\ tStep' # "sanitize" /\ tStep' # "written"
      /\ tStep' # "diarize system" /\ tStep' \notin {"diarize mic", "owner", "merge"}
    BY DEF Working
<1>2. TracksFit' /\ TagsFit' /\ MergedFits' /\ WordsKept' /\ OwnerOnMic' /\ OneLanguage'
    BY <1>1 DEF TracksFit, TagsFit, MergedFits, WordsKept, OwnerOnMic, OneLanguage
<1>3. QED
    BY <1>2 DEF AsmInv

LEMMA HearChunkKeeps ==
    ASSUME AsmInv, NEW take \in Hearings, NEW embedded \in BOOLEAN, HearChunk(take, embedded)
    PROVE  AsmInv'
<1>0. PICK mic \in HeardOnMic(HeardWords(take["mic"])) :
          rows' = Append(rows, HeardRow(mic, HeardWords(take["system"]), embedded))
    BY DEF HearChunk
<1> DEFINE row == HeardRow(mic, HeardWords(take["system"]), embedded)
<1>1. /\ tStep = "recording" /\ tStep' = "recording" /\ rows' = Append(rows, row)
      /\ UNCHANGED <<cut, tracks, lang, flagged>>
    BY <1>0 DEF HearChunk
<1>2. PICK n \in Nat \ {0}, start \in Nat :
          n = Len(rows) + 1 /\ start = StartOf(n) /\ said' = said \cup SaidIn(take, start)
  <2>1. Len(rows) \in Nat
    BY DEF AsmInv, AsmShape
  <2>2. Len(rows) + 1 \in Nat \ {0}
    BY <2>1
  <2>3. QED
    BY <2>2, StartIsNat DEF HearChunk
<1>3. rows \in Seq(ChunkRows) /\ row \in ChunkRows
    BY RowHeard DEF AsmInv, AsmShape
<1>4. /\ rows' \in Seq(ChunkRows) /\ DOMAIN rows' = DOMAIN rows \cup {n} /\ n \notin DOMAIN rows
      /\ rows'[n] = row /\ \A c \in DOMAIN rows : rows'[c] = rows[c]
  <2> HIDE DEF row
  <2>1. QED
    BY <1>1, <1>2, <1>3
<1>5. AsmShape'
  <2>1. said' \subseteq Spoken /\ IsFiniteSet(said')
    BY <1>2, SaidInIs, FS_Union DEF AsmInv, AsmShape
  <2>2. QED
    BY <1>1, <1>4, <2>1 DEF AsmInv, AsmShape
<1>6. ASSUME NEW c \in DOMAIN rows' PROVE RowFits(rows'[c])
  <2>1. CASE c \in DOMAIN rows
    BY <1>4, <2>1 DEF AsmInv, RowsFit
  <2>2. CASE c = n
    BY <1>4, <2>2, RowHeard
  <2>3. QED
    BY <1>4, <2>1, <2>2
<1>7. ASSUME NEW t \in Sides
      PROVE  /\ \A w \in row.words[t] : Timed(w, start) \in SaidIn(take, start)
             /\ \A v \in HeardWords(take[t]) : \E w \in row.words[t] :
                   Timed(v, start) = Timed(w, start)
  <2>1. \A v, w : SameWord(v, w) => Timed(v, start) = Timed(w, start)
    BY DEF SameWord, Timed
  <2>2. \A v \in HeardWords(take[t]) : Timed(v, start) \in SaidIn(take, start)
    BY DEF SaidIn
  <2> HIDE DEF row
  <2>3. \A w \in row.words[t] : \E v \in HeardWords(take[t]) : SameWord(w, v)
    BY RowHeard DEF row
  <2>4. \A v \in HeardWords(take[t]) : \E w \in row.words[t] : SameWord(w, v)
    BY RowHeard DEF row
  <2>5. \A v \in HeardWords(take[t]) : \E w \in row.words[t] : Timed(v, start) = Timed(w, start)
    BY <2>1, <2>4
  <2>6. \A w \in row.words[t] : Timed(w, start) \in SaidIn(take, start)
    BY <2>1, <2>2, <2>3
  <2>7. QED
    BY <2>5, <2>6
<1> HIDE DEF row
<1>8. ASSUME NEW c \in DOMAIN rows', NEW t \in Sides, NEW w \in rows'[c].words[t]
      PROVE  Timed(w, StartOf(c)) \in said'
  <2>1. CASE c \in DOMAIN rows
    <3>1. w \in rows[c].words[t]
        BY <1>4, <2>1
    <3>2. Timed(w, StartOf(c)) \in said
        BY <1>1, <2>1, <3>1 DEF AsmInv, RowsFit
    <3>3. QED
        BY <1>2, <3>2
  <2>2. CASE c = n
    BY <1>2, <1>4, <1>7, <2>2
  <2>3. QED
    BY <1>4, <2>1, <2>2
<1>9. ASSUME NEW s \in said'
      PROVE  \E c \in DOMAIN rows' : \E t \in Sides : \E w \in rows'[c].words[t] :
                 s = Timed(w, StartOf(c))
  <2>1. CASE s \in said
    <3>1. PICK c \in DOMAIN rows : \E t \in Sides : \E w \in rows[c].words[t] :
              s = Timed(w, StartOf(c))
        BY <1>1, <2>1 DEF AsmInv, RowsFit
    <3>2. c \in DOMAIN rows' /\ rows'[c] = rows[c]
        BY <1>4
    <3>3. QED
        BY <3>1, <3>2
  <2>2. CASE s \in SaidIn(take, start)
    <3>1. PICK t \in Sides : \E v \in HeardWords(take[t]) : s = Timed(v, start)
        BY <2>2 DEF SaidIn
    <3>2. \E w \in row.words[t] : s = Timed(w, start)
        BY <1>7, <3>1
    <3>3. QED
        BY <1>2, <1>4, <3>2
  <2>3. QED
    BY <1>2, <2>1, <2>2
<1>10. flagged' = {} /\ lang' = NoLangs
    BY <1>1 DEF AsmInv, RowsFit
<1>11. RowsFit'
    BY <1>6, <1>8, <1>9, <1>10 DEF RowsFit
<1>12. QED
    BY <1>1, <1>5, <1>11, StillRecording

LEMMA FailChunkKeeps == ASSUME AsmInv, FailChunk PROVE AsmInv'
<1> DEFINE row == [done |-> FALSE, embedded |-> FALSE, words |-> NoTracks]
<1>1. /\ tStep = "recording" /\ tStep' = "recording" /\ rows' = Append(rows, row)
      /\ UNCHANGED <<cut, tracks, lang, flagged, said>>
    BY DEF FailChunk
<1>2. row \in ChunkRows /\ \A t \in Sides : row.words[t] = {}
  <2>1. NoTracks \in [Sides -> SUBSET Segments]
    BY DEF NoTracks
  <2>2. QED
    BY <2>1 DEF NoTracks, ChunkRows
<1>3. RowFits(row)
  <2> HIDE DEF row
  <2>1. QED
    BY <1>2 DEF RowFits
<1>4. PICK n \in Nat \ {0} :
          /\ rows' \in Seq(ChunkRows) /\ DOMAIN rows' = DOMAIN rows \cup {n}
          /\ n \notin DOMAIN rows
          /\ rows'[n] = row /\ \A c \in DOMAIN rows : rows'[c] = rows[c]
  <2> HIDE DEF row
  <2>1. rows \in Seq(ChunkRows)
    BY DEF AsmInv, AsmShape
  <2>2. Len(rows) + 1 \in Nat \ {0}
    BY <2>1
  <2>3. /\ rows' \in Seq(ChunkRows) /\ DOMAIN rows' = DOMAIN rows \cup {Len(rows) + 1}
        /\ Len(rows) + 1 \notin DOMAIN rows
        /\ rows'[Len(rows) + 1] = row /\ \A c \in DOMAIN rows : rows'[c] = rows[c]
    BY <1>1, <1>2, <2>1
  <2>4. QED
    BY <2>2, <2>3
<1> HIDE DEF row
<1>5. AsmShape'
    BY <1>1, <1>4 DEF AsmInv, AsmShape
<1>6. ASSUME NEW c \in DOMAIN rows'
      PROVE  /\ RowFits(rows'[c])
             /\ \A t \in Sides : \A w \in rows'[c].words[t] : Timed(w, StartOf(c)) \in said
  <2>1. CASE c \in DOMAIN rows
    BY <1>1, <1>4, <2>1 DEF AsmInv, RowsFit
  <2>2. CASE c = n
    BY <1>2, <1>3, <1>4, <2>2
  <2>3. QED
    BY <1>4, <2>1, <2>2
<1>7. ASSUME NEW s \in said
      PROVE  \E c \in DOMAIN rows' : \E t \in Sides : \E w \in rows'[c].words[t] :
                 s = Timed(w, StartOf(c))
  <2>1. PICK c \in DOMAIN rows : \E t \in Sides : \E w \in rows[c].words[t] :
            s = Timed(w, StartOf(c))
    BY <1>1 DEF AsmInv, RowsFit
  <2>2. c \in DOMAIN rows' /\ rows'[c] = rows[c]
    BY <1>4
  <2>3. QED
    BY <2>1, <2>2
<1>8. flagged' = {} /\ lang' = NoLangs
    BY <1>1 DEF AsmInv, RowsFit
<1>9. RowsFit'
    BY <1>1, <1>6, <1>7, <1>8 DEF RowsFit
<1>10. QED
    BY <1>1, <1>5, <1>9, StillRecording

\* The chunks are done with.
LEMMA RowsGone ==
    ASSUME rows' = <<>>, tStep' # "recording" PROVE RowsFit' /\ rows' \in Seq(ChunkRows)
<1>1. RowsFit'
    BY DEF RowsFit
<1>2. rows' \in Seq(ChunkRows)
    BY EmptySeq
<1>3. QED
    BY <1>1, <1>2

LEMMA RecordingEnds ==
    ASSUME AsmInv, NoneDone \/ HearTracksFails
    PROVE  AsmInv'
<1>1. /\ tStep = "recording" /\ tStep' = "halted"
      /\ rows' = <<>> /\ UNCHANGED <<cut, tracks, said>>
    BY DEF NoneDone, HearTracksFails
<1>2. RowsFit'
    BY <1>1, RowsGone
<1>3. AsmShape'
    BY <1>1 DEF AsmInv, AsmShape
<1>4. QED
    BY <1>1, <1>2, <1>3, StillRecording

LEMMA AssembleChunksKeeps ==
    ASSUME AsmInv, NEW k \in Cuts \cup {Uncut}, AssembleChunks(k) PROVE AsmInv'
<1> DEFINE words(t, g) == TrackOf(t, Usable(k), k, g)
           heard == {s \in said : BeforeCut(s.from, k)}
<1>1. /\ tStep = "recording" /\ tStep' = "diarize system" /\ cut' = k /\ rows' = <<>>
      /\ said' = heard /\ lang' = lang
    BY DEF AssembleChunks
<1>2. PICK g \in Clusterings(Usable(k)) :
          \E owner : tracks' = [t \in Sides |-> Relabelled(words(t, g), owner)]
    BY DEF AssembleChunks
<1>3. PICK owner : tracks' = [t \in Sides |-> Relabelled(words(t, g), owner)]
    BY <1>2
<1>4. ASSUME NEW t \in Sides
      PROVE  /\ tracks'[t] \in SUBSET Segments /\ OfTrack(tracks'[t], t, heard, k)
             /\ t = "system" => \A w \in tracks'[t] : w.tag # WhisperOwner
  <2>1. /\ words(t, g) \in SUBSET Segments /\ OfTrack(words(t, g), t, heard, k)
        /\ t = "system" => \A p \in words(t, g) : p.tag # WhisperOwner
    BY <1>1, PlacedTrack
  <2> HIDE DEF words, heard
  <2>2. PICK placed \in SUBSET Segments : placed = words(t, g)
    BY <2>1
  <2>3. tracks'[t] = Relabelled(placed, owner) /\ OfTrack(placed, t, heard, k)
    BY <1>3, <2>1, <2>2
  <2>4. /\ tracks'[t] \in SUBSET Segments /\ OfTrack(tracks'[t], t, heard, k)
        /\ \A r \in tracks'[t] : r.tag = OwnerSpeaker \/ \E w \in placed : w.tag = r.tag
    BY <2>3, RelabelledFit
  <2>5. QED
    BY <2>1, <2>2, <2>4, TagsDiffer
<1>5. heard \subseteq Spoken /\ IsFiniteSet(heard)
    BY FS_Subset DEF AsmInv, AsmShape
<1> HIDE DEF words, heard
<1>6. AsmShape'
  <2>1. tracks' \in [Sides -> SUBSET Segments]
    BY <1>3, <1>4
  <2>2. rows' \in Seq(ChunkRows)
    BY <1>1, RowsGone
  <2>3. QED
    BY <1>1, <1>5, <2>1, <2>2 DEF AsmShape
<1>7. RowsFit'
    BY <1>1, RowsGone
<1>8. TracksFit'
    BY <1>1, <1>4 DEF TracksFit
<1>9. TagsFit'
  <2>1. "system" \in Sides
    BY DEF Sides
  <2>2. \A w \in tracks'["system"] : w.tag # WhisperOwner
    BY <1>4, <2>1
  <2>3. QED
    BY <1>1, <2>2 DEF TagsFit
<1>10. OneLanguage'
  <2>1. lang = NoLangs
    BY <1>1 DEF AsmInv, RowsFit
  <2>2. lang'["mic"] = lang'["system"]
    BY <1>1, <2>1 DEF NoLangs, Sides
  <2>3. QED
    BY <2>2 DEF OneLanguage
<1>11. MergedFits' /\ WordsKept' /\ OwnerOnMic'
    BY <1>1 DEF MergedFits, WordsKept, OwnerOnMic
<1>12. QED
    BY <1>6, <1>7, <1>8, <1>9, <1>10, <1>11 DEF AsmInv

LEMMA HearTracksKeeps ==
    ASSUME AsmInv, NEW k \in Cuts \cup {Uncut}, NEW take \in Hearings, NEW found,
           HearTracks(k, take, found)
    PROVE  AsmInv'
<1> DEFINE heard == SaidIn(take, 0)
<1>1. /\ tStep = "recording" /\ tStep' = "repin mic" /\ cut' = k /\ rows' = <<>>
      /\ said' = heard
      /\ tracks' = [t \in Sides |-> HeardWords(take[t])]
      /\ \A t \in Sides : InFile(take[t], k)
    BY DEF HearTracks
<1>2. ASSUME NEW t \in Sides, NEW w \in HeardWords(take[t])
      PROVE  Timed(w, 0) \in heard /\ IsWord(w, Timed(w, 0), k)
  <2>1. w \in Segments /\ w.track = t /\ w \in take[t]
    BY TakeIs DEF HeardWords
  <2>2. w.from \in Nat /\ w.to \in Nat
    BY <2>1 DEF Segments
  <2>3. k = Uncut \/ w.to <= k
    BY <1>1, <2>1 DEF InFile
  <2>4. k = Uncut \/ k \in Nat
    BY AsmNumbers
  <2>5. w.to = IF BeforeCut(w.to, k) THEN w.to ELSE k
    BY <2>2, <2>3, <2>4 DEF BeforeCut
  <2>6. Timed(w, 0) = [track |-> w.track, from |-> w.from, to |-> w.to, text |-> w.text]
    BY <2>2 DEF Timed
  <2>7. IsWord(w, Timed(w, 0), k)
    BY <2>5, <2>6 DEF IsWord
  <2>8. Timed(w, 0) \in heard
    BY DEF SaidIn
  <2>9. QED
    BY <2>7, <2>8
<1>3. ASSUME NEW t \in Sides
      PROVE  OfTrack(HeardWords(take[t]), t, heard, k)
  <2>1. ASSUME NEW w \in HeardWords(take[t])
        PROVE  /\ w.track = t /\ \E s \in heard : IsWord(w, s, k)
               /\ \A v \in HeardWords(take[t]) : SameWord(v, w) => v = w
    <3>1. w.track = t /\ \E s \in heard : IsWord(w, s, k)
        BY <1>2, TakeIs
    <3>2. ASSUME NEW v \in HeardWords(take[t]), SameWord(v, w) PROVE v = w
        <4>1. v \in Segments /\ w \in Segments /\ v.tag = w.tag
            BY TakeIs
        <4>2. QED
            BY <3>2, <4>1 DEF SameWord, Segments
    <3>3. QED
        BY <3>1, <3>2
  <2>2. ASSUME NEW s \in heard, s.track = t
        PROVE  \E w \in HeardWords(take[t]) : IsWord(w, s, k)
    <3>1. PICK u \in Sides : \E w \in HeardWords(take[u]) : s = Timed(w, 0)
        BY DEF SaidIn
    <3>2. PICK w \in HeardWords(take[u]) : s = Timed(w, 0)
        BY <3>1
    <3>3. w.track = u /\ s.track = w.track
        BY <3>2, TakeIs DEF Timed
    <3>4. QED
        BY <1>2, <2>2, <3>2, <3>3
  <2> HIDE DEF heard
  <2>3. QED
    BY <2>1, <2>2 DEF OfTrack
<1>4. heard \subseteq Spoken /\ IsFiniteSet(heard)
    BY SaidInIs
<1> HIDE DEF heard
<1>5. AsmShape'
  <2>1. tracks' \in [Sides -> SUBSET Segments]
    BY <1>1, TakeIs
  <2>2. rows' \in Seq(ChunkRows)
    BY <1>1, RowsGone
  <2>3. QED
    BY <1>1, <1>4, <2>1, <2>2 DEF AsmShape
<1>6. RowsFit'
    BY <1>1, RowsGone
<1>7. TracksFit'
  <2>1. \A t \in Sides : OfTrack(tracks'[t], t, heard, k)
    BY <1>1, <1>3
  <2>2. QED
    BY <1>1, <2>1 DEF TracksFit
<1>8. TagsFit'
  <2>1. "system" \in Sides /\ Speaker(1) # WhisperOwner
    BY TagsDiffer DEF Sides
  <2>2. \A w \in HeardWords(take["system"]) : w.tag = Speaker(1)
    BY <2>1, TakeIs
  <2>3. \A w \in tracks'["system"] : w.tag # WhisperOwner
    BY <1>1, <2>1, <2>2
  <2>4. QED
    BY <1>1, <2>3 DEF TagsFit
<1>9. MergedFits' /\ WordsKept' /\ OwnerOnMic' /\ OneLanguage'
    BY <1>1 DEF MergedFits, WordsKept, OwnerOnMic, OneLanguage
<1>10. QED
    BY <1>5, <1>6, <1>7, <1>8, <1>9 DEF AsmInv

LEMMA RepinKeeps == ASSUME AsmInv, Repin PROVE AsmInv'
<1>1. /\ tStep = "repin mic" /\ tStep' = "diarize system"
      /\ UNCHANGED <<rows, cut, tracks, merged, said>>
    BY DEF Repin
<1>2. AsmShape'
    BY <1>1 DEF AsmInv, AsmShape
<1>3. RowsFit'
    BY <1>1 DEF AsmInv, RowsFit
<1>4. TracksFit'
    BY <1>1 DEF AsmInv, TracksFit, Working
<1>5. TagsFit'
    BY <1>1 DEF AsmInv, TagsFit, Working
<1>6. OneLanguage'
  <2> SUFFICES ASSUME "language" \notin flagged'
               PROVE  \/ lang'["mic"] = lang'["system"]
                      \/ \A t \in Sides : SpeaksEnough(tracks[t]) => lang'[t] = NoLang
    BY <1>1 DEF OneLanguage, SpeaksEnough
  <2>1. PICK wrong : /\ wrong = {t \in Sides : CallLanguage # NoLang /\ lang[t] # CallLanguage}
                     /\ lang' = [t \in Sides |-> IF t \in wrong THEN CallLanguage ELSE lang[t]]
    <3>1. PICK failed \in SUBSET Sides :
              LET wrong == {t \in Sides : CallLanguage # NoLang /\ lang[t] # CallLanguage}
              IN  /\ lang' = [t \in Sides |->
                                  IF t \in wrong \ failed THEN CallLanguage ELSE lang[t]]
                  /\ flagged' = IF failed = {} THEN flagged ELSE flagged \cup {"language"}
        BY DEF Repin
    <3>2. failed = {}
        BY <3>1
    <3>3. QED
        BY <3>1, <3>2
  <2>2. CASE CallLanguage # NoLang
    <3>1. \A t \in Sides : lang'[t] = CallLanguage
        BY <2>1, <2>2
    <3>2. QED
        BY <3>1 DEF Sides
  <2>3. CASE CallLanguage = NoLang
    <3>1. \A t \in Sides : lang'[t] = lang[t]
        BY <2>1, <2>3
    <3>2. \A t \in Sides : SpeaksEnough(tracks[t]) => lang[t] = NoLang
        BY <2>3 DEF CallLanguage, Sides
    <3>3. QED
        BY <3>1, <3>2
  <2>4. QED
    BY <2>2, <2>3
<1>7. MergedFits' /\ WordsKept' /\ OwnerOnMic'
    BY <1>1 DEF MergedFits, WordsKept, OwnerOnMic
<1>8. QED
    BY <1>2, <1>3, <1>4, <1>5, <1>6, <1>7 DEF AsmInv

\* A track gets other tags.
LEMMA TrackChanges ==
    ASSUME AsmInv, NEW t \in Sides, NEW new \in SUBSET Segments,
           OfTrack(tracks[t], t, said, cut) => OfTrack(new, t, said, cut),
           tracks' = [tracks EXCEPT ![t] = new],
           tStep \in Working, tStep' \in Working, UNCHANGED <<rows, cut, said>>
    PROVE  /\ AsmShape' /\ RowsFit' /\ TracksFit'
           /\ tracks'[t] = new /\ \A u \in Sides \ {t} : tracks'[u] = tracks[u]
<1>1. tracks \in [Sides -> SUBSET Segments]
    BY DEF AsmInv, AsmShape
<1>2. tracks'[t] = new /\ \A u \in Sides \ {t} : tracks'[u] = tracks[u]
    BY <1>1
<1>3. AsmShape'
    BY <1>1 DEF AsmInv, AsmShape
<1>4. RowsFit'
    BY DEF AsmInv, RowsFit, Working
<1>5. \A u \in Sides : OfTrack(tracks'[u], u, said, cut)
    BY <1>2 DEF AsmInv, TracksFit
<1>6. TracksFit'
    BY <1>5 DEF TracksFit
<1>7. QED
    BY <1>2, <1>3, <1>4, <1>6

LEMMA DiarizeSystemKeeps == ASSUME AsmInv, DiarizeSystem PROVE AsmInv'
<1>1. /\ tStep = "diarize system" /\ tStep' = "diarize mic"
      /\ UNCHANGED <<rows, cut, lang, merged, flagged, said>>
    BY DEF DiarizeSystem
<1>2. PICK new \in Diarized(tracks["system"]) : tracks' = [tracks EXCEPT !["system"] = new]
    BY DEF DiarizeSystem
<1>3. "system" \in Sides /\ "mic" \in Sides \ {"system"} /\ tracks["system"] \in SUBSET Segments
    BY DEF Sides, AsmInv, AsmShape
<1>4. /\ new \in SUBSET Segments /\ \A r \in new : r.tag \in HeardTags
      /\ OfTrack(tracks["system"], "system", said, cut) => OfTrack(new, "system", said, cut)
    BY <1>3, DiarizedFit
<1>5. AsmShape' /\ RowsFit' /\ TracksFit' /\ tracks'["system"] = new
    BY <1>1, <1>2, <1>3, <1>4, TrackChanges DEF Working
<1>6. TagsFit'
    BY <1>1, <1>4, <1>5, TagsDiffer DEF TagsFit
<1>7. MergedFits' /\ WordsKept' /\ OwnerOnMic' /\ OneLanguage'
    BY <1>1 DEF MergedFits, WordsKept, OwnerOnMic, OneLanguage
<1>8. QED
    BY <1>5, <1>6, <1>7 DEF AsmInv

LEMMA DiarizeMicKeeps == ASSUME AsmInv, DiarizeMic PROVE AsmInv'
<1>1. /\ tStep = "diarize mic" /\ tStep' = "owner"
      /\ UNCHANGED <<rows, cut, lang, merged, flagged, said>>
    BY DEF DiarizeMic
<1>2. PICK new \in Diarized(tracks["mic"]) : tracks' = [tracks EXCEPT !["mic"] = new]
    BY DEF DiarizeMic
<1>3. "mic" \in Sides /\ "system" \in Sides \ {"mic"} /\ tracks["mic"] \in SUBSET Segments
    BY DEF Sides, AsmInv, AsmShape
<1>4. /\ new \in SUBSET Segments /\ \A r \in new : r.tag \in HeardTags
      /\ OfTrack(tracks["mic"], "mic", said, cut) => OfTrack(new, "mic", said, cut)
    BY <1>3, DiarizedFit
<1>5. /\ AsmShape' /\ RowsFit' /\ TracksFit' /\ tracks'["mic"] = new
      /\ tracks'["system"] = tracks["system"]
    BY <1>1, <1>2, <1>3, <1>4, TrackChanges DEF Working
<1>6. /\ \A w \in tracks["system"] : w.tag # WhisperOwner
      /\ "system tags" \notin flagged => \A w \in tracks["system"] : w.tag \in HeardTags
    BY <1>1 DEF AsmInv, TagsFit, Working
<1>7. TagsFit'
    BY <1>1, <1>4, <1>5, <1>6, TagsDiffer DEF TagsFit
<1>8. MergedFits' /\ WordsKept' /\ OwnerOnMic' /\ OneLanguage'
    BY <1>1 DEF MergedFits, WordsKept, OwnerOnMic, OneLanguage
<1>9. QED
    BY <1>5, <1>7, <1>8 DEF AsmInv

LEMMA DiarizeFailsKeeps == ASSUME AsmInv, DiarizeFails PROVE AsmInv'
<1>1. /\ tStep \in {"diarize system", "diarize mic"}
      /\ tStep' = IF tStep = "diarize system" THEN "diarize mic" ELSE "owner"
      /\ flagged' = flagged \cup {IF tStep = "diarize system" THEN "system tags" ELSE "mic tags"}
      /\ UNCHANGED <<rows, cut, tracks, lang, merged, said>>
    BY DEF DiarizeFails
<1>2. tStep \in Working /\ tStep' \in {"diarize mic", "owner"} /\ tStep' \in Working
    BY <1>1 DEF Working
<1>3. AsmShape'
    BY <1>1 DEF AsmInv, AsmShape
<1>4. RowsFit'
    BY <1>1, <1>2 DEF AsmInv, RowsFit
<1>5. TracksFit'
    BY <1>1, <1>2 DEF AsmInv, TracksFit
<1>6. TagsFit'
    BY <1>1, <1>2 DEF AsmInv, TagsFit
<1>7. MergedFits' /\ WordsKept' /\ OwnerOnMic' /\ OneLanguage'
    BY <1>2 DEF MergedFits, WordsKept, OwnerOnMic, OneLanguage
<1>8. QED
    BY <1>3, <1>4, <1>5, <1>6, <1>7 DEF AsmInv

LEMMA RelabelOwnerKeeps == ASSUME AsmInv, RelabelOwner PROVE AsmInv'
<1> DEFINE mic == tracks["mic"]
<1>1. /\ tStep = "owner" /\ tStep' = "merge"
      /\ UNCHANGED <<rows, cut, lang, merged, flagged, said>>
    BY DEF RelabelOwner
<1>2. PICK owner \in OwnersOf(mic, TagsOf(mic)) :
          tracks' = [tracks EXCEPT !["mic"] = Relabelled(mic, owner)]
    BY DEF RelabelOwner
<1>3. "mic" \in Sides /\ "system" \in Sides \ {"mic"} /\ mic \in SUBSET Segments
    BY DEF Sides, AsmInv, AsmShape
<1>4. PICK new \in SUBSET Segments :
          /\ new = Relabelled(mic, owner)
          /\ OfTrack(mic, "mic", said, cut) => OfTrack(new, "mic", said, cut)
          /\ \A r \in new : r.tag = OwnerSpeaker \/ \E w \in mic : w.tag = r.tag
          /\ \A w \in mic : w.tag \in owner => OwnerSpeaker \in TagsOf(new)
    BY <1>3, RelabelledFit
<1>5. /\ AsmShape' /\ RowsFit' /\ TracksFit' /\ tracks'["mic"] = new
      /\ tracks'["system"] = tracks["system"]
    BY <1>1, <1>2, <1>3, <1>4, TrackChanges DEF Working
<1>6. /\ \A w \in tracks["system"] : w.tag # WhisperOwner
      /\ "system tags" \notin flagged => \A w \in tracks["system"] : w.tag \in HeardTags
      /\ "mic tags" \notin flagged => \A w \in mic : w.tag # WhisperOwner
    BY <1>1 DEF AsmInv, TagsFit, Working
<1>7. "mic tags" \notin flagged => \A r \in new : r.tag # WhisperOwner
    BY <1>4, <1>6, TagsDiffer
<1>8. new # {} => OwnerSpeaker \in TagsOf(new)
  <2> SUFFICES ASSUME new # {} PROVE OwnerSpeaker \in TagsOf(new)
    OBVIOUS
  <2>1. mic # {}
    BY <1>4 DEF Relabelled
  <2>2. \E u \in TagsOf(mic) : owner = {u}
    BY <1>2, <2>1 DEF OwnersOf
  <2>3. \E w \in mic : w.tag \in owner
    BY <2>2 DEF TagsOf
  <2>4. QED
    BY <1>4, <2>3
<1>9. TagsFit'
  <2>1. TagsOf(new) = TagsOf(tracks["mic"])'
    BY <1>5 DEF TagsOf
  <2>2. QED
    BY <1>1, <1>5, <1>6, <1>7, <1>8, <2>1 DEF TagsFit
<1>10. MergedFits' /\ WordsKept' /\ OwnerOnMic' /\ OneLanguage'
    BY <1>1 DEF MergedFits, WordsKept, OwnerOnMic, OneLanguage
<1>11. QED
    BY <1>5, <1>9, <1>10 DEF AsmInv

\* What the microphone brings to the timeline.
LEMMA MicWordsAre ==
    ASSUME AsmInv, tStep = "merge"
    PROVE  /\ MicWords \in SUBSET Segments /\ OfTrack(MicWords, "mic", said, cut)
           /\ MicWords # {} => OwnerSpeaker \in TagsOf(MicWords)
           /\ "mic tags" \notin flagged => \A w \in MicWords : w.tag # WhisperOwner
<1> DEFINE mic == tracks["mic"]
<1>1. mic \in SUBSET Segments /\ OfTrack(mic, "mic", said, cut)
    BY DEF AsmInv, AsmShape, TracksFit, Working, Sides
<1>2. /\ mic # {} => OwnerSpeaker \in TagsOf(mic)
      /\ "mic tags" \notin flagged => \A w \in mic : w.tag # WhisperOwner
    BY DEF AsmInv, TagsFit
<1>3. CASE KeepMicTags
    BY <1>1, <1>2, <1>3 DEF MicWords
<1>4. CASE ~KeepMicTags
  <2>1. PICK new \in SUBSET Segments :
            /\ new = Relabelled(mic, TagsOf(mic))
            /\ OfTrack(mic, "mic", said, cut) => OfTrack(new, "mic", said, cut)
            /\ \A r \in new : r.tag = OwnerSpeaker \/ \E w \in mic : w.tag = r.tag
            /\ \A w \in mic : w.tag \in TagsOf(mic) => OwnerSpeaker \in TagsOf(new)
    BY <1>1, RelabelledFit
  <2>2. MicWords = new
    BY <1>4, <2>1 DEF MicWords
  <2>3. new # {} => OwnerSpeaker \in TagsOf(new)
    <3>1. new # {} => mic # {}
        BY <2>1 DEF Relabelled
    <3>2. \A w \in mic : w.tag \in TagsOf(mic)
        BY DEF TagsOf
    <3>3. QED
        BY <2>1, <3>1, <3>2
  <2>4. "mic tags" \notin flagged => \A w \in new : w.tag # WhisperOwner
    BY <1>2, <2>1, TagsDiffer
  <2>5. QED
    BY <1>1, <2>1, <2>2, <2>3, <2>4
<1>5. QED
    BY <1>3, <1>4

\* Segments that say different words are no more than the words.
LEMMA EachSaidOnce ==
    ASSUME NEW S, NEW heard, IsFiniteSet(heard), NEW k, NEW f,
           \A x \in S : \E s \in heard : IsWord(f[x], s, k),
           \A x, y \in S : SameWord(f[x], f[y]) => x = y
    PROVE  IsFiniteSet(S) /\ Cardinality(S) <= Cardinality(heard)
<1> DEFINE g == [x \in S |-> CHOOSE s \in heard : IsWord(f[x], s, k)]
<1>1. ASSUME NEW x \in S PROVE g[x] \in heard /\ IsWord(f[x], g[x], k)
    OBVIOUS
<1>2. ASSUME NEW x \in S, NEW y \in S, g[x] = g[y] PROVE x = y
  <2> HIDE DEF g
  <2>1. IsWord(f[x], g[x], k) /\ IsWord(f[y], g[x], k)
    BY <1>1, <1>2
  <2>2. SameWord(f[x], f[y])
    BY <2>1 DEF IsWord, SameWord
  <2>3. QED
    BY <2>2
<1>3. g \in [S -> heard]
    BY <1>1
<1>4. g \in Injection(S, heard)
  <2> HIDE DEF g
  <2>1. QED
    BY <1>2, <1>3 DEF Injection, IsInjective
<1> HIDE DEF g
<1>5. QED
    BY <1>4, FS_Injection

LEMMA MergeTracksKeeps == ASSUME AsmInv, MergeTracks PROVE AsmInv'
<1> DEFINE sys == tracks["system"]
           words == MicWords \cup sys
<1>1. /\ tStep = "merge" /\ tStep' = "sanitize" /\ tracks' = NoTracks
      /\ merged' \in Timelines(words)
      /\ UNCHANGED <<rows, cut, lang, flagged, said>>
    BY DEF MergeTracks
<1>2. /\ MicWords \in SUBSET Segments /\ OfTrack(MicWords, "mic", said, cut)
      /\ MicWords # {} => OwnerSpeaker \in TagsOf(MicWords)
      /\ "mic tags" \notin flagged => \A w \in MicWords : w.tag # WhisperOwner
    BY <1>1, MicWordsAre
<1>3. /\ sys \in SUBSET Segments /\ OfTrack(sys, "system", said, cut)
      /\ \A w \in sys : w.tag # WhisperOwner
      /\ "system tags" \notin flagged => \A w \in sys : w.tag \in HeardTags
    BY <1>1 DEF AsmInv, AsmShape, TracksFit, TagsFit, Working, Sides
<1>4. said \subseteq Spoken /\ IsFiniteSet(said)
    BY DEF AsmInv, AsmShape
<1> HIDE DEF sys
<1>5. /\ \A w \in words : \E s \in said : IsWord(w, s, cut)
      /\ \A s \in said : \E w \in words : IsWord(w, s, cut)
      /\ \A v, w \in words : SameWord(v, w) => v = w
      /\ \A w \in words : w.track = "mic" => w \in MicWords
      /\ \A w \in words : w.track = "system" => w \in sys
      /\ \A w \in MicWords : w.track = "mic"
  <2>1. (\A w \in MicWords : w.track = "mic") /\ (\A w \in sys : w.track = "system")
    BY <1>2, <1>3 DEF OfTrack
  <2>2. \A s \in said : s.track = "mic" \/ s.track = "system"
    BY <1>4 DEF Spoken, Sides
  <2>3. \A s \in said : \E w \in words : IsWord(w, s, cut)
    BY <1>2, <1>3, <2>2 DEF OfTrack
  <2>4. \A w \in words : \E s \in said : IsWord(w, s, cut)
    BY <1>2, <1>3 DEF OfTrack
  <2>5. ASSUME NEW v \in words, NEW w \in words, SameWord(v, w) PROVE v = w
    <3>1. v.track = w.track
        BY <2>5 DEF SameWord
    <3>2. (v \in MicWords /\ w \in MicWords) \/ (v \in sys /\ w \in sys)
        BY <2>1, <3>1
    <3>3. QED
        BY <1>2, <1>3, <2>5, <3>2 DEF OfTrack
  <2>6. QED
    BY <2>1, <2>3, <2>4, <2>5
<1>6. IsFiniteSet(words)
  <2> DEFINE id == [w \in words |-> w]
  <2> HIDE DEF words
  <2>1. \A w \in words : id[w] = w
    OBVIOUS
  <2> HIDE DEF id
  <2>2. /\ \A x \in words : \E s \in said : IsWord(id[x], s, cut)
        /\ \A x, y \in words : SameWord(id[x], id[y]) => x = y
    BY <1>5, <2>1
  <2>3. QED
    BY <1>4, <2>2, EachSaidOnce
<1> HIDE DEF words
<1>7. PICK n \in Nat : n = Cardinality(words)
    BY <1>6, FS_CardinalityType
<1>8. PICK m \in [1..n -> words] :
          /\ m = merged' /\ \A i \in 1..Len(m) - 1 : ~Earlier(m[i + 1], m[i])
          /\ Range(m) = words
    BY <1>1, <1>7 DEF Timelines
<1>9. words \subseteq Segments
    BY <1>2, <1>3 DEF words
<1>10. m \in Seq(Segments) /\ Len(m) = n /\ DOMAIN m = 1..n
    BY <1>9
<1>11. m \in Injection(1..n, words)
  <2>1. m \in Surjection(1..n, words)
    BY <1>8 DEF Surjection, Range
  <2>2. IsFiniteSet(1..n) /\ Cardinality(1..n) = n
    <3>1. 1 \in Int /\ n \in Int
        OBVIOUS
    <3>2. IsFiniteSet(1..n) /\ Cardinality(1..n) = IF 1 > n THEN 0 ELSE n - 1 + 1
        BY <3>1, FS_Interval
    <3>3. QED
        BY <3>2
  <2>3. QED
    BY <1>7, <2>1, <2>2, FS_Surjection
<1>12. OneTimeline(m, said, cut)
  <2>1. \A i, j \in 1..n : SameWord(m[i], m[j]) => i = j
    <3>1. \A i, j \in 1..n : m[i] = m[j] => i = j
        BY <1>11 DEF Injection, IsInjective
    <3>2. QED
        BY <1>5, <3>1
  <2>2. \A i \in 1..n : \E s \in said : IsWord(m[i], s, cut)
    BY <1>5
  <2>3. \A s \in said : \E i \in 1..n : IsWord(m[i], s, cut)
    <3>1. \A w \in words : \E i \in 1..n : w = m[i]
        BY <1>8 DEF Range
    <3>2. QED
        BY <1>5, <3>1
  <2>4. ASSUME NEW i \in 1..n - 1 PROVE m[i].from <= m[i + 1].from
    <3>1. i \in 1..n /\ i + 1 \in 1..n
        OBVIOUS
    <3>2. m[i] \in Segments /\ m[i + 1] \in Segments
        BY <1>9, <3>1
    <3>3. m[i].from \in Nat /\ m[i + 1].from \in Nat
        BY <3>2 DEF Segments
    <3>4. ~(m[i + 1].from < m[i].from)
        BY <1>8, <1>10 DEF Earlier
    <3>5. QED
        BY <3>3, <3>4
  <2>5. QED
    BY <1>10, <2>1, <2>2, <2>3, <2>4 DEF OneTimeline
<1>13. AsmShape'
  <2>1. NoTracks \in [Sides -> SUBSET Segments]
    BY DEF NoTracks
  <2>2. QED
    BY <1>1, <2>1 DEF AsmInv, AsmShape
<1>14. RowsFit'
    BY <1>1 DEF AsmInv, RowsFit
<1>15. TracksFit' /\ TagsFit'
    BY <1>1 DEF TracksFit, TagsFit, Working
<1>16. MergedFits'
    BY <1>1, <1>8, <1>10, <1>12 DEF MergedFits
<1>17. OwnerOnMic'
  <2>1. Range(merged') = words
    BY <1>8
  <2>2. ASSUME NEW w \in words, w.track = "mic"
        PROVE  \E v \in words : v.track = "mic" /\ v.tag = OwnerSpeaker
    <3>1. OwnerSpeaker \in TagsOf(MicWords)
        BY <1>2, <1>5, <2>2
    <3>2. PICK v \in MicWords : v.tag = OwnerSpeaker
        BY <3>1 DEF TagsOf
    <3>3. QED
        BY <1>5, <3>2 DEF words
  <2>3. "system tags" \notin flagged =>
            \A w \in words : w.track = "system" => w.tag # OwnerSpeaker
    BY <1>3, <1>5, TagsDiffer
  <2>4. "mic tags" \notin flagged => \A w \in words : w.tag # WhisperOwner
    BY <1>2, <1>3 DEF words
  <2>5. QED
    BY <1>1, <2>1, <2>2, <2>3, <2>4 DEF OwnerOnMic
<1>18. WordsKept' /\ OneLanguage'
    BY <1>1 DEF WordsKept, OneLanguage
<1>19. QED
    BY <1>13, <1>14, <1>15, <1>16, <1>17, <1>18 DEF AsmInv

\* One segment has all that another has.
Covers(v, w) == v.text = w.text /\ v.from <= w.from /\ w.to <= v.to
Begins(v, w) == v.track = w.track /\ v.text = w.text /\ v.from = w.from

\* What is made of the first n segments of m.
StandsFor(out, m, n, loops) ==
    /\ \A j \in 1..n : m[j].text \notin loops => \E i \in DOMAIN out : Covers(out[i], m[j])
    /\ \A i \in DOMAIN out :
          (\E j \in 1..n : Begins(out[i], m[j])) /\ (\E j \in 1..n : out[i].to = m[j].to)
    /\ \A i \in 1..Len(out) - 1 : out[i].from <= out[i + 1].from
    /\ out # <<>> => n >= 1 /\ out[Len(out)].from <= m[n].from

\* Either the last segment grows, or there is one more.
LEMMA CollapseIs ==
    ASSUME NEW out \in Seq(Segments), NEW w \in Segments
    PROVE  \E r \in Seq(Segments) :
        /\ r = Collapse(out, w)
        /\ \/ /\ out # <<>> /\ Len(r) = Len(out)
              /\ \A i \in 1..Len(out) - 1 : r[i] = out[i]
              /\ Begins(r[Len(out)], out[Len(out)]) /\ Covers(r[Len(out)], out[Len(out)])
              /\ r[Len(out)].text = w.text /\ w.to <= r[Len(out)].to
              /\ r[Len(out)].to \in {out[Len(out)].to, w.to}
           \/ r = Append(out, w)
<1>1. CASE out # <<>> /\ out[Len(out)].tag = w.tag /\ out[Len(out)].text = w.text
  <2>1. PICK n \in Nat \ {0} : n = Len(out) /\ DOMAIN out = 1..n /\ n \in 1..n
    <3>1. Len(out) \in Nat \ {0}
        BY <1>1, EmptySeq
    <3>2. QED
        BY <3>1
  <2>2. PICK x \in Segments : x = out[n]
    BY <2>1
  <2>3. x.to \in Nat /\ w.to \in Nat /\ x.from \in Nat
    BY DEF Segments
  <2>4. PICK end \in Nat : end = IF w.to > x.to THEN w.to ELSE x.to
    BY <2>3
  <2>5. end \in {x.to, w.to} /\ x.to <= end /\ w.to <= end
    BY <2>3, <2>4
  <2>6. PICK y \in Segments : y = [x EXCEPT !.to = end]
    BY DEF Segments
  <2>7. /\ y.to = end /\ y.from = x.from /\ y.text = x.text /\ y.track = x.track
    BY <2>6 DEF Segments
  <2>8. Collapse(out, w) = [out EXCEPT ![n] = y]
    BY <1>1, <2>1, <2>2, <2>4, <2>6 DEF Collapse
  <2>9. PICK r \in Seq(Segments) : r = [out EXCEPT ![n] = y] /\ Len(r) = n
    <3>1. n \in 1..Len(out)
        BY <2>1
    <3>2. /\ [out EXCEPT ![n] = y] \in Seq(Segments)
          /\ Len([out EXCEPT ![n] = y]) = Len(out)
        BY <3>1, ExceptSeq
    <3>3. QED
        BY <2>1, <3>2
  <2>10. r[n] = y /\ \A i \in 1..n - 1 : r[i] = out[i]
    BY <2>1, <2>9
  <2>11. Begins(y, x) /\ Covers(y, x) /\ y.text = w.text
    BY <1>1, <2>1, <2>2, <2>3, <2>5, <2>7 DEF Begins, Covers
  <2>12. QED
    BY <1>1, <2>1, <2>2, <2>5, <2>7, <2>8, <2>9, <2>10, <2>11
<1>2. CASE ~(out # <<>> /\ out[Len(out)].tag = w.tag /\ out[Len(out)].text = w.text)
  <2>1. Collapse(out, w) = Append(out, w)
    BY <1>2 DEF Collapse
  <2>2. Append(out, w) \in Seq(Segments)
    OBVIOUS
  <2>3. QED
    BY <2>1, <2>2
<1>3. QED
    BY <1>1, <1>2

\* What the recursion returns.
LEMMA SanitizedIs ==
    ASSUME NEW m \in Seq(Segments), m = merged
    PROVE  /\ Sanitized[0] = <<>>
           /\ \A n \in 1..Len(m) :
                 Sanitized[n] = IF m[n].text \in Loops THEN Sanitized[n - 1]
                                ELSE Collapse(Sanitized[n - 1], m[n])
<1> DEFINE N == Len(m)
           AtWord(out, n) == IF m[n].text \in Loops THEN out ELSE Collapse(out, m[n])
           Made(f, n) == /\ f \in [0..n -> Seq(Segments)] /\ f[0] = <<>>
                         /\ \A i \in 1..n : f[i] = AtWord(f[i - 1], i)
           S == {n \in Nat : n <= N => \E f : Made(f, n)}
<1>1. N \in Nat /\ \A n \in 1..N : m[n] \in Segments
    OBVIOUS
<1>2. ASSUME NEW out \in Seq(Segments), NEW n \in 1..N PROVE AtWord(out, n) \in Seq(Segments)
    BY <1>1, CollapseIs
<1> HIDE DEF N, AtWord
<1>3. 0 \in S
  <2>1. Made([i \in 0..0 |-> <<>>], 0)
    BY EmptySeq
  <2>2. QED
    BY <2>1
<1>4. ASSUME NEW n \in Nat, n \in S PROVE n + 1 \in S
  <2>0. n + 1 \in Nat /\ (n + 1 <= N => n <= N)
    BY <1>1
  <2> SUFFICES ASSUME n + 1 <= N PROVE \E f : Made(f, n + 1)
    <3> HIDE DEF Made
    <3>1. QED
        BY <2>0
  <2>1. PICK f : Made(f, n)
    <3> HIDE DEF Made
    <3>1. QED
        BY <1>4, <2>0
  <2>2. PICK out \in Seq(Segments) : out = AtWord(f[n], n + 1)
    <3>1. n + 1 \in 1..N /\ f[n] \in Seq(Segments)
        BY <1>1, <2>1
    <3>2. QED
        BY <1>2, <3>1
  <2> DEFINE g == [i \in 0..n + 1 |-> IF i <= n THEN f[i] ELSE out]
  <2>3. g \in [0..n + 1 -> Seq(Segments)] /\ g[0] = <<>>
    BY <2>1, <2>2
  <2>4. ASSUME NEW i \in 1..n + 1 PROVE g[i] = AtWord(g[i - 1], i)
    <3>1. CASE i <= n
        BY <2>1, <3>1
    <3>2. CASE i = n + 1
        BY <2>1, <2>2, <3>2
    <3>3. QED
        BY <3>1, <3>2
  <2>5. QED
    BY <2>3, <2>4
<1>5. Nat \subseteq S
  <2> HIDE DEF S
  <2>1. QED
    BY <1>3, <1>4, SetInduction
<1>6. PICK f : Made(f, N)
  <2> HIDE DEF Made
  <2>1. N \in S /\ N <= N
    BY <1>1, <1>5
  <2>2. QED
    BY <2>1
<1>7. Sanitized = [n \in 0..N |-> IF n = 0 THEN <<>> ELSE AtWord(Sanitized[n - 1], n)]
  <2>1. f = [n \in 0..N |-> IF n = 0 THEN <<>> ELSE AtWord(f[n - 1], n)]
    BY <1>1, <1>6
  <2>2. QED
    BY <2>1 DEF Sanitized, N, AtWord
<1>8. Sanitized[0] = <<>> /\ \A n \in 1..N : Sanitized[n] = AtWord(Sanitized[n - 1], n)
    BY <1>1, <1>7
<1>9. QED
    BY <1>8 DEF N, AtWord

LEMMA CoversAll ==
    ASSUME NEW u \in Segments, NEW v \in Segments, NEW w \in Segments
    PROVE  Covers(w, w) /\ (Covers(u, v) /\ Covers(v, w) => Covers(u, w))
<1>1. /\ u.from \in Nat /\ u.to \in Nat /\ v.from \in Nat /\ v.to \in Nat
      /\ w.from \in Nat /\ w.to \in Nat
    BY DEF Segments
<1>2. QED
    BY <1>1 DEF Covers

\* One segment more.
LEMMA SegmentAdded ==
    ASSUME NEW m \in Seq(Segments), NEW n \in Nat, n + 1 \in 1..Len(m), NEW loops,
           \A i \in 1..Len(m) - 1 : m[i].from <= m[i + 1].from,
           NEW out \in Seq(Segments), StandsFor(out, m, n, loops)
    PROVE  /\ StandsFor(Collapse(out, m[n + 1]), m, n + 1, loops)
           /\ m[n + 1].text \in loops => StandsFor(out, m, n + 1, loops)
<1>1. PICK w \in Segments : w = m[n + 1]
    OBVIOUS
<1>2. \A j \in 1..n + 1 : j \in 1..n \/ j = n + 1
    OBVIOUS
<1>3. \A j \in 1..n + 1 : m[j] \in Segments
    OBVIOUS
<1>4. out # <<>> => out[Len(out)].from <= w.from
  <2> SUFFICES ASSUME out # <<>> PROVE out[Len(out)].from <= w.from
    OBVIOUS
  <2>1. n >= 1 /\ out[Len(out)].from <= m[n].from
    BY DEF StandsFor
  <2>2. n \in 1..Len(m) - 1
    BY <2>1
  <2>3. m[n].from <= w.from
    BY <1>1, <2>2
  <2>4. PICK x \in Segments, y \in Segments : x = out[Len(out)] /\ y = m[n]
    <3>1. Len(out) \in 1..Len(out)
        BY EmptySeq
    <3>2. QED
        BY <1>3, <2>2, <3>1
  <2>5. x.from \in Nat /\ y.from \in Nat /\ w.from \in Nat
    BY DEF Segments
  <2>6. x.from <= y.from /\ y.from <= w.from
    BY <2>1, <2>3, <2>4
  <2>7. QED
    BY <2>4, <2>5, <2>6
<1>5. ASSUME w.text \in loops PROVE StandsFor(out, m, n + 1, loops)
  <2>1. ASSUME NEW j \in 1..n + 1, m[j].text \notin loops
        PROVE  \E i \in DOMAIN out : Covers(out[i], m[j])
    <3>1. j \in 1..n
        BY <1>1, <1>2, <1>5, <2>1
    <3>2. QED
        BY <2>1, <3>1 DEF StandsFor
  <2>2. \A i \in DOMAIN out : /\ \E j \in 1..n + 1 : Begins(out[i], m[j])
                              /\ \E j \in 1..n + 1 : out[i].to = m[j].to
    <3>1. 1..n \subseteq 1..n + 1
        OBVIOUS
    <3>2. QED
        BY <3>1 DEF StandsFor
  <2>3. QED
    BY <1>1, <1>4, <2>1, <2>2 DEF StandsFor
<1>6. PICK r \in Seq(Segments) :
          /\ r = Collapse(out, w)
          /\ \/ /\ out # <<>> /\ Len(r) = Len(out)
                /\ \A i \in 1..Len(out) - 1 : r[i] = out[i]
                /\ Begins(r[Len(out)], out[Len(out)]) /\ Covers(r[Len(out)], out[Len(out)])
                /\ r[Len(out)].text = w.text /\ w.to <= r[Len(out)].to
                /\ r[Len(out)].to \in {out[Len(out)].to, w.to}
             \/ r = Append(out, w)
    BY CollapseIs
<1>7. ASSUME out # <<>>, Len(r) = Len(out), \A i \in 1..Len(out) - 1 : r[i] = out[i],
             Begins(r[Len(out)], out[Len(out)]), Covers(r[Len(out)], out[Len(out)]),
             r[Len(out)].text = w.text, w.to <= r[Len(out)].to,
             r[Len(out)].to \in {out[Len(out)].to, w.to}
      PROVE  StandsFor(r, m, n + 1, loops)
  <2>1. PICK l \in Nat \ {0} : /\ l = Len(out) /\ l = Len(r) /\ l \in 1..l
                               /\ DOMAIN out = 1..l /\ DOMAIN r = 1..l
    <3>1. Len(out) \in Nat \ {0}
        BY <1>7, EmptySeq
    <3>2. QED
        BY <1>7, <3>1
  <2>2. PICK x \in Segments, y \in Segments : x = out[l] /\ y = r[l]
    BY <2>1
  <2>3. /\ Begins(y, x) /\ Covers(y, x) /\ y.text = w.text /\ w.to <= y.to
        /\ y.to \in {x.to, w.to} /\ y.from = x.from
    BY <1>7, <2>1, <2>2 DEF Begins
  <2>4. \A i \in 1..l : i \in 1..l - 1 \/ i = l
    BY <2>1
  <2>5. \A i \in 1..l - 1 : r[i] = out[i] /\ i \in 1..l
    BY <1>7, <2>1
  <2>6. Covers(y, w)
    <3>1. x.from <= w.from
        BY <1>4, <1>7, <2>1, <2>2
    <3>2. QED
        BY <2>3, <3>1 DEF Covers
  <2>7. \A i \in 1..l : Covers(r[i], out[i]) /\ Begins(r[i], out[i]) /\ r[i].from = out[i].from
    <3>1. \A i \in 1..l : out[i] \in Segments
        BY <2>1
    <3>2. \A i \in 1..l - 1 : Covers(out[i], out[i]) /\ Begins(out[i], out[i])
        BY <2>5, <3>1, CoversAll DEF Begins
    <3>3. QED
        BY <2>2, <2>3, <2>4, <2>5, <3>2
  <2>8. ASSUME NEW j \in 1..n + 1, m[j].text \notin loops PROVE \E i \in 1..l : Covers(r[i], m[j])
    <3>1. CASE j \in 1..n
      <4>1. PICK i \in 1..l : Covers(out[i], m[j])
          BY <2>1, <2>8, <3>1 DEF StandsFor
      <4>2. r[i] \in Segments /\ out[i] \in Segments /\ m[j] \in Segments
          BY <1>3, <2>1
      <4>3. Covers(r[i], m[j])
          BY <2>7, <4>1, <4>2, CoversAll
      <4>4. QED
          BY <4>3
    <3>2. CASE j = n + 1
      BY <1>1, <2>1, <2>2, <2>6, <3>2
    <3>3. QED
      BY <1>2, <3>1, <3>2
  <2>9. ASSUME NEW i \in 1..l
        PROVE  (\E j \in 1..n + 1 : Begins(r[i], m[j])) /\ (\E j \in 1..n + 1 : r[i].to = m[j].to)
    <3>1. PICK j \in 1..n : Begins(out[i], m[j])
        BY <2>1 DEF StandsFor
    <3>2. Begins(r[i], m[j])
        BY <2>7, <3>1 DEF Begins
    <3>3. PICK e \in 1..n : out[i].to = m[e].to
        BY <2>1 DEF StandsFor
    <3>4. r[i].to = out[i].to \/ r[i].to = w.to
        BY <2>2, <2>3, <2>4, <2>5
    <3>5. 1..n \subseteq 1..n + 1 /\ n + 1 \in 1..n + 1
        OBVIOUS
    <3>6. QED
        BY <1>1, <3>2, <3>3, <3>4, <3>5
  <2>10. ASSUME NEW i \in 1..l - 1 PROVE r[i].from <= r[i + 1].from
    <3>1. i \in 1..l /\ i + 1 \in 1..l
        BY <2>1
    <3>2. out[i].from <= out[i + 1].from
        BY <2>1 DEF StandsFor
    <3>3. QED
        BY <2>7, <3>1, <3>2
  <2>11. r[l].from <= w.from
    BY <1>4, <1>7, <2>1, <2>2, <2>3
  <2>12. n + 1 >= 1 /\ r[Len(r)].from <= m[n + 1].from
    BY <1>1, <2>1, <2>11
  <2>13. \A j \in 1..n + 1 : m[j].text \notin loops => \E i \in DOMAIN r : Covers(r[i], m[j])
    BY <2>1, <2>8
  <2>14. \A i \in DOMAIN r : /\ \E j \in 1..n + 1 : Begins(r[i], m[j])
                             /\ \E j \in 1..n + 1 : r[i].to = m[j].to
    BY <2>1, <2>9
  <2>15. \A i \in 1..Len(r) - 1 : r[i].from <= r[i + 1].from
    BY <2>1, <2>10
  <2>16. QED
    BY <2>12, <2>13, <2>14, <2>15 DEF StandsFor
<1>8. ASSUME r = Append(out, w) PROVE StandsFor(r, m, n + 1, loops)
  <2>1. PICK l \in Nat : /\ l = Len(out) /\ l + 1 = Len(r) /\ l + 1 \in 1..l + 1
                         /\ DOMAIN out = 1..l /\ DOMAIN r = 1..l + 1
    <3>1. Len(out) \in Nat
        OBVIOUS
    <3>2. QED
        BY <1>8, <3>1
  <2>2. r[l + 1] = w /\ \A i \in 1..l : r[i] = out[i] /\ i \in 1..l + 1
    BY <1>8, <2>1
  <2>3. \A i \in 1..l + 1 : i \in 1..l \/ i = l + 1
    BY <2>1
  <2>4. ASSUME NEW j \in 1..n + 1, m[j].text \notin loops
        PROVE  \E i \in 1..l + 1 : Covers(r[i], m[j])
    <3>1. CASE j \in 1..n
      BY <2>1, <2>2, <2>4, <3>1 DEF StandsFor
    <3>2. CASE j = n + 1
      BY <1>1, <2>1, <2>2, <3>2, CoversAll
    <3>3. QED
      BY <1>2, <3>1, <3>2
  <2>5. ASSUME NEW i \in 1..l + 1
        PROVE  (\E j \in 1..n + 1 : Begins(r[i], m[j])) /\ (\E j \in 1..n + 1 : r[i].to = m[j].to)
    <3>1. 1..n \subseteq 1..n + 1 /\ n + 1 \in 1..n + 1
        OBVIOUS
    <3>2. CASE i \in 1..l
      BY <2>1, <2>2, <3>1, <3>2 DEF StandsFor
    <3>3. CASE i = l + 1
      BY <1>1, <2>2, <3>1, <3>3 DEF Begins
    <3>4. QED
      BY <2>3, <3>2, <3>3
  <2>6. ASSUME NEW i \in 1..l PROVE r[i].from <= r[i + 1].from
    <3>1. CASE i = l
      <4>1. out # <<>> /\ out[l].from <= w.from
          BY <1>4, <2>1, <3>1
      <4>2. QED
          BY <2>2, <3>1, <4>1
    <3>2. CASE i # l
      <4>1. i \in 1..l - 1 /\ i + 1 \in 1..l
          BY <3>2
      <4>2. out[i].from <= out[i + 1].from
          BY <2>1, <4>1 DEF StandsFor
      <4>3. QED
          BY <2>2, <4>1, <4>2
    <3>3. QED
      BY <3>1, <3>2
  <2>7. r[l + 1].from <= w.from
    <3>1. w.from \in Nat
        BY DEF Segments
    <3>2. QED
        BY <2>2, <3>1
  <2>8. \A i \in 1..Len(r) - 1 : i \in 1..l
    BY <2>1
  <2>9. n + 1 >= 1 /\ r[Len(r)].from <= m[n + 1].from
    BY <1>1, <2>1, <2>7
  <2>10. \A j \in 1..n + 1 : m[j].text \notin loops => \E i \in DOMAIN r : Covers(r[i], m[j])
    BY <2>1, <2>4
  <2>11. \A i \in DOMAIN r : /\ \E j \in 1..n + 1 : Begins(r[i], m[j])
                             /\ \E j \in 1..n + 1 : r[i].to = m[j].to
    BY <2>1, <2>5
  <2>12. \A i \in 1..Len(r) - 1 : r[i].from <= r[i + 1].from
    BY <2>6, <2>8
  <2>13. QED
    BY <2>9, <2>10, <2>11, <2>12 DEF StandsFor
<1>9. StandsFor(r, m, n + 1, loops)
    BY <1>6, <1>7, <1>8
<1>10. QED
    BY <1>1, <1>5, <1>6, <1>9

LEMMA SanitizedStands ==
    ASSUME NEW m \in Seq(Segments), m = merged,
           \A i \in 1..Len(m) - 1 : m[i].from <= m[i + 1].from
    PROVE  /\ Sanitized[Len(m)] \in Seq(Segments)
           /\ StandsFor(Sanitized[Len(m)], m, Len(m), Loops)
<1> DEFINE Right(out, n) == out \in Seq(Segments) /\ StandsFor(out, m, n, Loops)
           S == {n \in Nat : n <= Len(m) => Right(Sanitized[n], n)}
<1>1. 0 \in S
  <2>1. Right(<<>>, 0)
    BY EmptySeq DEF StandsFor
  <2>2. Sanitized[0] = <<>>
    BY SanitizedIs
  <2>3. QED
    BY <2>1, <2>2
<1>2. ASSUME NEW n \in Nat, n \in S PROVE n + 1 \in S
  <2> SUFFICES ASSUME n + 1 <= Len(m) PROVE Right(Sanitized[n + 1], n + 1)
    OBVIOUS
  <2>1. n + 1 \in 1..Len(m) /\ n <= Len(m) /\ (n + 1) - 1 = n
    OBVIOUS
  <2>2. PICK out \in Seq(Segments) : out = Sanitized[n] /\ StandsFor(out, m, n, Loops)
    BY <1>2, <2>1
  <2>3. Sanitized[n + 1] = IF m[n + 1].text \in Loops THEN out ELSE Collapse(out, m[n + 1])
    BY <2>1, <2>2, SanitizedIs
  <2>4. /\ StandsFor(Collapse(out, m[n + 1]), m, n + 1, Loops)
        /\ m[n + 1].text \in Loops => StandsFor(out, m, n + 1, Loops)
    BY <2>1, <2>2, SegmentAdded
  <2>5. Collapse(out, m[n + 1]) \in Seq(Segments)
    <3>1. m[n + 1] \in Segments
        BY <2>1
    <3>2. QED
        BY <3>1, CollapseIs
  <2>6. QED
    BY <2>2, <2>3, <2>4, <2>5
<1>3. Nat \subseteq S
  <2> HIDE DEF S
  <2>1. QED
    BY <1>1, <1>2, SetInduction
<1>4. Len(m) \in S /\ Len(m) <= Len(m)
    BY <1>3
<1>5. QED
    BY <1>4

LEMMA LoopsAreSaid ==
    ASSUME NEW m \in Seq(Segments), m = merged, OneTimeline(m, said, cut),
           said \subseteq Spoken, IsFiniteSet(said), NEW x \in Loops
    PROVE  x \in Long /\ Cardinality({v \in said : v.text = x}) >= LoopAt
<1> DEFINE places == {i \in DOMAIN m : m[i].text = x}
           heard == {v \in said : v.text = x}
<1>1. x \in Long /\ Cardinality(places) >= LoopAt
    BY DEF Loops
<1>2. IsFiniteSet(heard)
    BY FS_Subset
<1>3. \A i \in places : \E s \in heard : IsWord(m[i], s, cut)
    BY DEF OneTimeline, IsWord
<1>4. \A i, j \in places : SameWord(m[i], m[j]) => i = j
    BY DEF OneTimeline
<1> HIDE DEF places, heard
<1>5. IsFiniteSet(places) /\ Cardinality(places) <= Cardinality(heard)
    BY <1>2, <1>3, <1>4, EachSaidOnce
<1>6. Cardinality(places) \in Nat /\ Cardinality(heard) \in Nat
    BY <1>2, <1>5, FS_CardinalityType
<1>7. Cardinality(heard) >= LoopAt
    BY <1>1, <1>5, <1>6, AsmNumbers
<1>8. QED
    BY <1>1, <1>7 DEF heard

LEMMA SanitizeKeeps == ASSUME AsmInv, Sanitize PROVE AsmInv'
<1>1. /\ tStep = "sanitize" /\ tStep' = "written" /\ merged' = Sanitized[Len(merged)]
      /\ UNCHANGED <<rows, cut, tracks, lang, flagged, said>>
    BY DEF Sanitize
<1>2. PICK m \in Seq(Segments) : m = merged /\ OneTimeline(m, said, cut)
    BY <1>1 DEF AsmInv, MergedFits
<1>3. /\ said \subseteq Spoken /\ IsFiniteSet(said) /\ cut \in Cuts \cup {Uncut}
      /\ cut = Uncut \/ cut \in Nat
    BY AsmNumbers DEF AsmInv, AsmShape
<1>4. PICK out \in Seq(Segments) : out = merged' /\ StandsFor(out, m, Len(m), Loops)
  <2>1. \A i \in 1..Len(m) - 1 : m[i].from <= m[i + 1].from
    BY <1>2 DEF OneTimeline
  <2>2. QED
    BY <1>1, <1>2, <2>1, SanitizedStands
<1>5. DOMAIN m = 1..Len(m) /\ \A i \in DOMAIN m : m[i] \in Segments
    OBVIOUS
<1>6. \A i \in DOMAIN out : out[i] \in Segments
    OBVIOUS
<1>7. ASSUME cut # Uncut, NEW i \in DOMAIN out PROVE out[i].to <= cut
  <2>1. PICK j \in DOMAIN m : out[i].to = m[j].to
    BY <1>4, <1>5 DEF StandsFor
  <2>2. PICK s \in said : IsWord(m[j], s, cut)
    BY <1>2 DEF OneTimeline
  <2>3. s.to \in Nat /\ cut \in Nat
    BY <1>3, <1>7 DEF Spoken
  <2>4. m[j].to <= cut
    BY <1>7, <2>2, <2>3 DEF IsWord, BeforeCut
  <2>5. QED
    BY <2>1, <2>4
<1>8. ASSUME NEW s \in said
      PROVE  \/ \E i \in DOMAIN out : /\ out[i].text = s.text /\ out[i].from <= s.from
                                      /\ out[i].to >= s.to \/ out[i].to = cut
             \/ s.text \in Long /\ Cardinality({v \in said : v.text = s.text}) >= LoopAt
  <2>1. PICK j \in DOMAIN m : IsWord(m[j], s, cut)
    BY <1>2 DEF OneTimeline
  <2>2. m[j].text = s.text /\ m[j].from = s.from
    BY <2>1 DEF IsWord
  <2>3. CASE s.text \in Loops
    BY <1>2, <1>3, <2>3, LoopsAreSaid
  <2>4. CASE s.text \notin Loops
    <3>1. PICK i \in DOMAIN out : Covers(out[i], m[j])
        BY <1>4, <1>5, <2>2, <2>4 DEF StandsFor
    <3>2. /\ out[i].text = s.text /\ out[i].from <= s.from /\ m[j].to <= out[i].to
        BY <2>2, <3>1 DEF Covers
    <3>3. s.to \in Nat /\ m[j].to \in Nat /\ out[i].to \in Nat
        BY <1>3, <1>5, <1>6 DEF Spoken, Segments
    <3>4. CASE BeforeCut(s.to, cut)
      <4>1. m[j].to = s.to
          BY <2>1, <3>4 DEF IsWord
      <4>2. out[i].to >= s.to
          BY <3>2, <3>3, <4>1
      <4>3. QED
          BY <3>2, <4>2
    <3>5. CASE ~BeforeCut(s.to, cut)
      <4>1. m[j].to = cut /\ cut # Uncut
          BY <2>1, <3>5 DEF IsWord, BeforeCut
      <4>2. out[i].to <= cut
          BY <1>7, <4>1
      <4>3. out[i].to = cut
          BY <3>2, <3>3, <4>1, <4>2
      <4>4. QED
          BY <3>2, <4>3
    <3>6. QED
      BY <3>4, <3>5
  <2>5. QED
    BY <2>3, <2>4
<1>9. ASSUME NEW i \in DOMAIN out
      PROVE  \E s \in said : /\ out[i].text = s.text /\ out[i].from = s.from
                             /\ out[i].track = s.track /\ (cut # Uncut => out[i].to <= cut)
  <2>1. PICK j \in DOMAIN m : Begins(out[i], m[j])
    BY <1>4, <1>5 DEF StandsFor
  <2>2. PICK s \in said : IsWord(m[j], s, cut)
    BY <1>2 DEF OneTimeline
  <2>3. out[i].text = s.text /\ out[i].from = s.from /\ out[i].track = s.track
    BY <2>1, <2>2 DEF Begins, IsWord
  <2>4. QED
    BY <1>7, <2>3
<1>10. WordsKept'
  <2>1. Range(out) = {out[i] : i \in DOMAIN out}
    BY DEF Range
  <2>2. \A s \in said :
            \/ \E x \in Range(out) : /\ x.text = s.text /\ x.from <= s.from
                                     /\ x.to >= s.to \/ x.to = cut
            \/ s.text \in Long /\ Cardinality({v \in said : v.text = s.text}) >= LoopAt
    BY <1>8, <2>1
  <2>3. \A x \in Range(out) : \E s \in said :
            /\ x.text = s.text /\ x.from = s.from /\ x.track = s.track
            /\ cut # Uncut => x.to <= cut
    BY <1>9, <2>1
  <2>4. \A i \in 1..Len(out) - 1 : out[i].from <= out[i + 1].from
    BY <1>4 DEF StandsFor
  <2>5. QED
    BY <1>1, <1>4, <2>2, <2>3, <2>4 DEF WordsKept
<1>11. AsmShape'
    BY <1>1 DEF AsmInv, AsmShape
<1>12. RowsFit'
    BY <1>1 DEF AsmInv, RowsFit
<1>13. TracksFit' /\ TagsFit' /\ MergedFits' /\ OwnerOnMic' /\ OneLanguage'
    BY <1>1 DEF TracksFit, TagsFit, MergedFits, OwnerOnMic, OneLanguage, Working
<1>14. QED
    BY <1>10, <1>11, <1>12, <1>13 DEF AsmInv

LEMMA AsmInvInit == AsmInit => AsmInv
<1> SUFFICES ASSUME AsmInit PROVE AsmInv
    OBVIOUS
<1>1. /\ tStep = "recording" /\ rows = <<>> /\ cut = Uncut /\ tracks = NoTracks
      /\ lang = NoLangs /\ flagged = {} /\ said = {}
    BY DEF AsmInit
<1>2. AsmShape
  <2>1. NoTracks \in [Sides -> SUBSET Segments]
    BY DEF NoTracks
  <2>2. QED
    BY <1>1, <2>1, EmptySeq, FS_EmptySet DEF AsmShape
<1>3. RowsFit
    BY <1>1 DEF RowsFit
<1>4. TracksFit /\ TagsFit /\ MergedFits /\ WordsKept /\ OwnerOnMic /\ OneLanguage
    BY <1>1 DEF TracksFit, TagsFit, MergedFits, WordsKept, OwnerOnMic, OneLanguage, Working
<1>5. QED
    BY <1>2, <1>3, <1>4 DEF AsmInv

LEMMA AsmInvStep == AsmInv /\ [AsmNext]_asmVars => AsmInv'
<1> SUFFICES ASSUME AsmInv, [AsmNext]_asmVars PROVE AsmInv'
    OBVIOUS
<1>1. ASSUME NEW take \in Hearings, NEW embedded \in BOOLEAN, HearChunk(take, embedded)
      PROVE  AsmInv'
    BY <1>1, HearChunkKeeps
<1>2. ASSUME NEW k \in Cuts \cup {Uncut}, AssembleChunks(k) PROVE AsmInv'
    BY <1>2, AssembleChunksKeeps
<1>3. ASSUME NEW k \in Cuts \cup {Uncut}, NEW take \in Hearings,
             NEW found \in [Sides -> Langs \cup {NoLang}], HearTracks(k, take, found)
      PROVE  AsmInv'
    BY <1>3, HearTracksKeeps
<1>4. CASE HearNext
    BY <1>1, <1>2, <1>3, <1>4, FailChunkKeeps, RecordingEnds DEF HearNext
<1>5. CASE UNCHANGED asmVars
  <2>1. AsmShape' /\ RowsFit' /\ TracksFit'
    BY <1>5 DEF asmVars, AsmInv, AsmShape, RowsFit, TracksFit
  <2>2. TagsFit' /\ MergedFits'
    BY <1>5 DEF asmVars, AsmInv, TagsFit, TagsOf, MergedFits
  <2>3. WordsKept'
    BY <1>5 DEF asmVars, AsmInv, WordsKept
  <2>4. OwnerOnMic'
    BY <1>5 DEF asmVars, AsmInv, OwnerOnMic
  <2>5. OneLanguage'
    BY <1>5 DEF asmVars, AsmInv, OneLanguage
  <2>6. QED
    BY <2>1, <2>2, <2>3, <2>4, <2>5 DEF AsmInv
<1>6. QED
    BY <1>4, <1>5, RepinKeeps, DiarizeSystemKeeps, DiarizeMicKeeps, DiarizeFailsKeeps,
       RelabelOwnerKeeps, MergeTracksKeeps, SanitizeKeeps DEF AsmNext

\* Every word that was heard before the cut stands in the transcript, and nothing else;
\* the owner is on the microphone's track, and both tracks have one language or a flag.
THEOREM TranscriptTrueHolds == AsmSpec => []TranscriptTrue
<1>1. AsmInv => TranscriptTrue
    BY DEF AsmInv, TranscriptTrue
<1>2. QED
    BY <1>1, AsmInvInit, AsmInvStep, PTL DEF AsmSpec
-----------------------------------------------------------------------------
(***************************************************************************)
(* RecapText: what goes to the language model, and what comes back.        *)
(***************************************************************************)
Parts == [id : Nat, start : Nat]
PackedChunks == [parts : Seq(Parts), repeated : Nat, bytes : Nat]

PackShape ==
    /\ blocks \in Seq(Nat) /\ preamble \in BOOLEAN
    /\ nextBlock \in 1..Len(blocks) + 1
    /\ current \in Seq(Parts) /\ repeated \in Nat /\ bytes \in Nat
    /\ chunks \in Seq(PackedChunks)

\* The parts lie one behind the other, up to the n-th block.
InRow(parts, n, length) ==
    /\ \A k \in 1..Len(parts) : parts[k].id + Len(parts) = n + k /\ parts[k].start <= length
    /\ \A j, k \in 1..Len(parts) : j <= k => parts[j].start <= parts[k].start

\* The chunk in the making is one that might be finished now.
CurrentGoesOn ==
    LET n == IF chunks = <<>> THEN 0 ELSE LastId(chunks[Len(chunks)]) IN
    /\ InRow(current, nextBlock - 1, bytes)
    /\ IF current = <<>>
       THEN n = nextBlock - 1 /\ (chunks = <<>> \/ n = Len(blocks)) /\ repeated = 0
       ELSE FollowsOn(Finished, n) /\ Promised(Finished)
    /\ chunks # <<>> /\ current # <<>> => Repeats(Finished, chunks[Len(chunks)])

\* A transcript that is short stays in one chunk, which is a part of it.
ShortIsOne ==
    Short => /\ chunks # <<>> => current = <<>>
             /\ current # <<>> => bytes + 2 = UpTo[nextBlock - 1] + nextBlock

PackInv ==
    /\ PackShape /\ CurrentGoesOn /\ ShortIsOne
    /\ NoTurnLost /\ ChunksOverlap /\ OversizedByOneTurn

WindowRecs == [from : Nat, to : Nat]
WindowInv ==
    /\ chars \in Nat /\ windows \in Seq(WindowRecs)
    /\ \A k \in 1..Len(windows) :
           windows[k].to = IF windows[k].from + MaxChars < chars
                           THEN windows[k].from + MaxChars ELSE chars
    /\ WindowsCover

DedupInv == items \in Seq(Items) /\ seen \in Nat /\ kept \in Seq(Items) /\ DedupKeepsMeaning

\* What was noted of the participants is what those before had.
PeopleInv ==
    /\ people \in Seq(People) /\ met \in Nat /\ present \in Seq(Nat)
    /\ \A tag \in tags : \E j \in 1..met : people[j].tag = tag
    /\ \A name \in names : \E j \in 1..met : people[j].name = name
    /\ PeopleStay

TextInv == PackInv /\ WindowInv /\ DedupInv /\ PeopleInv

LEMMA TextConstants ==
    /\ TokenBytes \in Nat \ {0} /\ ChunkTokens \in Nat \ {0} /\ Overlap \in Nat \ {0}
    /\ MaxBlocks \in Nat /\ BlockSizes \subseteq Nat
BY TextAssumption

LEMMA DivGrows ==
    ASSUME NEW t \in Nat \ {0}, NEW a \in Nat, NEW b \in Nat
    PROVE  /\ a \div t \in Nat
           /\ a <= b => a \div t <= b \div t
           /\ (a + b + 1) \div t <= (a \div t) + (b \div t) + 1
<1> DEFINE A == a \div t
           B == b \div t
           C == (a + b + 1) \div t
<1>1. A \in Nat /\ t * A <= a /\ a < t * A + t
    BY SMTT(30)
<1>2. B \in Nat /\ t * B <= b /\ b < t * B + t
    BY SMTT(30)
<1>3. C \in Nat /\ t * C <= a + b + 1 /\ a + b + 1 < t * C + t
    BY SMTT(30)
<1> HIDE DEF A, B, C
<1>4. ASSUME a <= b PROVE A <= B
  <2>1. ASSUME B + 1 <= A PROVE FALSE
    <3>1. t * (B + 1) <= t * A
        BY <1>1, <1>2, <2>1, SMTT(30)
    <3>2. t * (B + 1) = t * B + t
        BY <1>2, SMTT(30)
    <3>3. t * A \in Nat /\ t * B \in Nat
        BY <1>1, <1>2
    <3>4. QED
        BY <1>1, <1>2, <1>4, <3>1, <3>2, <3>3
  <2>2. QED
    BY <1>1, <1>2, <2>1
<1>5. C <= A + B + 1
  <2>1. ASSUME A + B + 2 <= C PROVE FALSE
    <3>1. t * (A + B + 2) <= t * C
        BY <1>1, <1>2, <1>3, <2>1, SMTT(30)
    <3>2. t * (A + B + 2) = t * A + t * B + t + t
        BY <1>1, <1>2, SMTT(30)
    <3>3. t * A \in Nat /\ t * B \in Nat /\ t * C \in Nat
        BY <1>1, <1>2, <1>3
    <3>4. QED
        BY <1>1, <1>2, <1>3, <3>1, <3>2, <3>3
  <2>2. QED
    BY <1>1, <1>2, <1>3, <2>1
<1>6. QED
    BY <1>1, <1>4, <1>5 DEF A, B, C

LEMMA GreatestThere ==
    ASSUME NEW n \in Nat, NEW K, K \subseteq 1..n, K # {}
    PROVE  \E x \in K : \A y \in K : y <= x
<1> DEFINE T == {n - k : k \in K}
<1>1. T \subseteq Nat /\ T # {}
  <2>1. \A k \in 1..n : n - k \in Nat
    OBVIOUS
  <2>2. QED
    BY <2>1
<1>2. PICK d \in T : \A e \in T : d <= e
    BY <1>1, NatsHaveLeast
<1>3. PICK x \in K : d = n - x
    OBVIOUS
<1>4. ASSUME NEW y \in K PROVE y <= x
  <2>1. n - x <= n - y
    BY <1>2, <1>3
  <2>2. x \in Nat /\ y \in Nat
    OBVIOUS
  <2>3. QED
    BY <2>1, <2>2
<1>5. QED
    BY <1>4

(* The length of the first blocks. *)
LEMMA SumsAdd ==
    ASSUME blocks \in Seq(Nat)
    PROVE  /\ UpTo[0] = 0
           /\ \A n \in 1..Len(blocks) : UpTo[n] = UpTo[n - 1] + blocks[n]
           /\ \A n \in 0..Len(blocks) : UpTo[n] \in Nat /\ UpTo[n] <= UpTo[Len(blocks)]
<1> DEFINE N == Len(blocks)
           Adds(f, n) == /\ f \in [0..n -> Nat] /\ f[0] = 0
                         /\ \A m \in 1..n : f[m] = f[m - 1] + blocks[m]
           S == {n \in Nat : n <= N => \E f : Adds(f, n)}
<1>1. N \in Nat /\ \A m \in 1..N : blocks[m] \in Nat
    OBVIOUS
<1>2. 0 \in S
  <2>1. Adds([m \in 0..0 |-> 0], 0)
    OBVIOUS
  <2>2. QED
    BY <2>1
<1>3. ASSUME NEW n \in Nat, n \in S PROVE n + 1 \in S
  <2>0. n + 1 \in Nat /\ (n + 1 <= N => n <= N)
    BY <1>1
  <2> SUFFICES ASSUME n + 1 <= N PROVE \E f : Adds(f, n + 1)
    <3> HIDE DEF Adds
    <3>1. QED
        BY <2>0
  <2>1. PICK f : Adds(f, n)
    <3> HIDE DEF Adds
    <3>1. QED
        BY <1>3, <2>0
  <2>2. blocks[n + 1] \in Nat /\ f[n] \in Nat
    BY <1>1, <2>1
  <2> DEFINE g == [m \in 0..n + 1 |-> IF m <= n THEN f[m] ELSE f[n] + blocks[n + 1]]
  <2>3. g \in [0..n + 1 -> Nat] /\ g[0] = 0
    BY <2>1, <2>2
  <2>4. ASSUME NEW m \in 1..n + 1 PROVE g[m] = g[m - 1] + blocks[m]
    <3>1. CASE m <= n
        BY <2>1, <3>1
    <3>2. CASE m = n + 1
        BY <2>1, <3>2
    <3>3. QED
        BY <3>1, <3>2
  <2>5. QED
    BY <2>3, <2>4
<1>4. Nat \subseteq S
  <2> HIDE DEF S
  <2>1. QED
    BY <1>2, <1>3, SetInduction
<1>5. PICK f : Adds(f, N)
  <2> HIDE DEF Adds
  <2>1. N \in S /\ N <= N
    BY <1>1, <1>4
  <2>2. QED
    BY <2>1
<1>6. UpTo = [n \in 0..N |-> IF n = 0 THEN 0 ELSE UpTo[n - 1] + blocks[n]]
  <2>1. f = [n \in 0..N |-> IF n = 0 THEN 0 ELSE f[n - 1] + blocks[n]]
    BY <1>1, <1>5
  <2>2. QED
    BY <2>1 DEF UpTo
<1>7. UpTo[0] = 0 /\ \A n \in 1..N : UpTo[n] = UpTo[n - 1] + blocks[n]
    BY <1>1, <1>6
<1> DEFINE P == {n \in Nat : n <= N => UpTo[n] \in Nat}
           D == {n \in Nat : n <= N => UpTo[N - n] <= UpTo[N]}
<1> HIDE DEF N
<1>8. ASSUME NEW n \in Nat, n <= N PROVE UpTo[n] \in Nat
  <2>1. 0 \in P
    BY <1>7
  <2>2. ASSUME NEW m \in Nat, m \in P PROVE m + 1 \in P
    BY <1>1, <1>7, <2>2
  <2>3. Nat \subseteq P
    <3> HIDE DEF P
    <3>1. QED
        BY <2>1, <2>2, SetInduction
  <2>4. QED
    BY <1>8, <2>3
<1>9. ASSUME NEW n \in Nat, n <= N PROVE UpTo[N - n] <= UpTo[N]
  <2>1. 0 \in D
    BY <1>1, <1>8
  <2>2. ASSUME NEW m \in Nat, m \in D PROVE m + 1 \in D
    <3> SUFFICES ASSUME m + 1 <= N PROVE UpTo[N - (m + 1)] <= UpTo[N]
        OBVIOUS
    <3>1. PICK k \in 1..N : k = N - m /\ k - 1 = N - (m + 1)
        BY <1>1
    <3>2. UpTo[k] = UpTo[k - 1] + blocks[k] /\ blocks[k] \in Nat
        BY <1>1, <1>7
    <3>3. UpTo[k] \in Nat /\ UpTo[k - 1] \in Nat /\ UpTo[N] \in Nat
        BY <1>1, <1>8
    <3>4. UpTo[k] <= UpTo[N]
        BY <1>1, <2>2, <3>1
    <3>5. QED
        BY <3>1, <3>2, <3>3, <3>4
  <2>3. Nat \subseteq D
    <3> HIDE DEF D
    <3>1. QED
        BY <2>1, <2>2, SetInduction
  <2>4. QED
    BY <1>9, <2>3
<1>10. ASSUME NEW n \in 0..N PROVE UpTo[n] \in Nat /\ UpTo[n] <= UpTo[N]
  <2>1. PICK m \in Nat : m <= N /\ N - m = n
    <3>1. N - n \in Nat /\ N - n <= N /\ N - (N - n) = n
        BY <1>1
    <3>2. QED
        BY <3>1
  <2>2. UpTo[n] \in Nat
    BY <1>1, <1>8
  <2>3. UpTo[N - m] <= UpTo[N]
    BY <1>9, <2>1
  <2>4. QED
    BY <2>1, <2>2, <2>3
<1>11. QED
    BY <1>7, <1>10 DEF N

(* The overlap a chunk begins with. *)
LEMMA OverlapIs ==
    ASSUME PackInv, current # <<>>
    PROVE  /\ OverlapParts \in Seq(Parts) /\ OverlapParts # <<>> /\ OverlapBytes \in Nat
           /\ InRow(OverlapParts, nextBlock - 1, OverlapBytes)
           /\ \/ OverlapBytes >= Overlap
              \/ \A p \in Range(current) :
                    \/ p.id \in {OverlapParts[i].id : i \in 1..Len(OverlapParts)}
                    \/ preamble /\ p.id = 1
<1>0. /\ current \in Seq(Parts) /\ bytes \in Nat /\ nextBlock - 1 \in Nat
      /\ InRow(current, nextBlock - 1, bytes)
    BY DEF PackInv, PackShape, CurrentGoesOn
<1>1. PICK L \in Nat \ {0}, n \in Nat :
          /\ L = Len(current) /\ n = nextBlock - 1 /\ bytes \in Nat
          /\ DOMAIN current = 1..L /\ current \in [1..L -> Parts]
    BY <1>0
<1>2. \A k \in 1..L : /\ current[k].id \in Nat /\ current[k].start \in Nat
                      /\ current[k].id + L = n + k
                      /\ current[k].start <= bytes
  <2>1. \A k \in 1..L : current[k] \in Parts
    BY <1>1
  <2>2. \A k \in 1..L : current[k].id + L = n + k /\ current[k].start <= bytes
    BY <1>0, <1>1 DEF InRow
  <2>3. \A x \in Parts : x.id \in Nat /\ x.start \in Nat
    BY DEF Parts
  <2>4. QED
    BY <2>1, <2>2, <2>3
<1>3. Headers \subseteq 1..L /\ \A k \in 1..L : k \notin Headers => preamble /\ current[k].id = 1
    BY <1>1 DEF Headers
<1>4. Overlap \in Nat
    BY TextConstants
<1>5. CASE Headers = {}
  <2>0. preamble
    BY <1>1, <1>3, <1>5
  <2>1. L = 1 /\ current[1].id = 1
    <3>1. current[1].id = 1 /\ current[L].id = 1
        BY <1>1, <1>3, <1>5
    <3>2. L \in 1..L /\ 1 \in 1..L
        BY <1>1
    <3>3. 1 + L = n + L /\ 1 + L = n + 1
        BY <1>2, <3>1, <3>2
    <3>4. L = 1
        BY <1>1, <3>3
    <3>5. QED
        BY <3>1, <3>4
  <2>2. OverlapParts = <<[id |-> 1, start |-> 0]>> /\ OverlapBytes \in Nat
    <3>1. OverlapParts = <<[id |-> 1, start |-> 0]>>
        BY <1>5 DEF OverlapParts
    <3>2. OverlapBytes = IF bytes <= Overlap THEN bytes ELSE Overlap
        BY <1>5 DEF OverlapBytes
    <3>3. QED
        BY <1>1, <1>4, <3>1, <3>2
  <2>3. nextBlock - 1 = 1
    <3>1. 1 \in 1..L /\ current[1].id + L = n + 1
        BY <1>2, <2>1
    <3>2. n = 1
        BY <2>1, <3>1
    <3>3. QED
        BY <1>1, <3>2
  <2>4. InRow(OverlapParts, nextBlock - 1, OverlapBytes)
    BY <2>2, <2>3 DEF InRow
  <2>5. \A p \in Range(current) : preamble /\ p.id = 1
    BY <1>1, <2>0, <2>1 DEF Range
  <2>6. <<[id |-> 1, start |-> 0]>> \in Seq(Parts)
    BY DEF Parts
  <2>7. QED
    BY <2>2, <2>4, <2>5, <2>6
<1>6. CASE Headers # {}
  <2> DEFINE enough == {k \in Headers : bytes - current[k].start >= Overlap}
  <2>1. PICK s \in Headers : /\ s = TailStart
                             /\ \/ bytes - current[s].start >= Overlap
                                \/ \A j \in Headers : s <= j
    <3>1. CASE enough # {}
        <4>1. enough \subseteq 1..L
            BY <1>3
        <4>2. \E m \in enough : \A k \in enough : k <= m
            BY <1>1, <3>1, <4>1, GreatestThere
        <4>3. TailStart = MaxOf(enough)
            BY <3>1 DEF TailStart
        <4>4. MaxOf(enough) \in enough
            BY <4>2 DEF MaxOf
        <4>5. QED
            BY <4>3, <4>4
    <3>2. CASE enough = {}
        <4>1. Headers \subseteq Nat
            BY <1>3
        <4>2. \E k \in Headers : \A j \in Headers : k <= j
            BY <1>6, <4>1, NatsHaveLeast
        <4>3. TailStart = CHOOSE k \in Headers : \A j \in Headers : k <= j
            BY <3>2 DEF TailStart
        <4>4. QED
            BY <4>2, <4>3
    <3>3. QED
        BY <3>1, <3>2
  <2>2. PICK from : from = current[s].start
    OBVIOUS
  <2>3. s \in 1..L /\ from \in Nat /\ from <= bytes
    BY <1>2, <1>3, <2>2
  <2>4. OverlapBytes = bytes - from
    BY <1>6, <2>1, <2>2 DEF OverlapBytes
  <2> DEFINE O == [k \in 1..L - s + 1 |->
                     [id |-> current[k + s - 1].id, start |-> current[k + s - 1].start - from]]
  <2>5. OverlapParts = O
    <3>1. \A k \in 1..L - s + 1 :
             [current[k + s - 1] EXCEPT !.start = @ - from]
                = [id |-> current[k + s - 1].id, start |-> current[k + s - 1].start - from]
        <4>1. \A x \in Parts :
                 [x EXCEPT !.start = @ - from] = [id |-> x.id, start |-> x.start - from]
            BY DEF Parts
        <4>2. \A k \in 1..L - s + 1 : k + s - 1 \in 1..L
            BY <1>1, <2>3
        <4>3. \A k \in 1..L : current[k] \in Parts
            BY <1>1
        <4>4. QED
            BY <4>1, <4>2, <4>3
    <3>2. OverlapParts = [k \in 1..L - s + 1 |->
                             [current[k + s - 1] EXCEPT !.start = @ - from]]
        BY <1>1, <1>6, <2>1, <2>2 DEF OverlapParts
    <3>3. QED
        BY <3>1, <3>2
  <2>6. ASSUME NEW k \in 1..L - s + 1
        PROVE  /\ k + s - 1 \in 1..L
               /\ O[k].id = current[k + s - 1].id
               /\ O[k].start = current[k + s - 1].start - from
               /\ from <= current[k + s - 1].start
    <3>1. k + s - 1 \in 1..L /\ s <= k + s - 1
        BY <1>1, <2>3
    <3>2. QED
        BY <1>0, <1>1, <2>2, <2>3, <3>1 DEF InRow
  <2>7. O \in Seq(Parts) /\ Len(O) = L - s + 1 /\ O # <<>>
    <3>1. ASSUME NEW k \in 1..L - s + 1 PROVE O[k] \in Parts
        <4>1. PICK i \in 1..L : i = k + s - 1 /\ from <= current[i].start
            BY <2>6
        <4>2. O[k] = [id |-> current[i].id, start |-> current[i].start - from]
            BY <4>1
        <4>3. current[i].id \in Nat /\ current[i].start - from \in Nat
            BY <1>2, <2>3, <4>1
        <4>4. QED
            BY <4>2, <4>3 DEF Parts
    <3>2. L - s + 1 \in Nat \ {0}
        BY <1>1, <2>3
    <3>3. O \in [1..L - s + 1 -> Parts]
        BY <3>1
    <3>4. \A m \in Nat \ {0} : \A f : f \in [1..m -> Parts] =>
                                     f \in Seq(Parts) /\ Len(f) = m /\ f # <<>>
        OBVIOUS
    <3> HIDE DEF O
    <3>5. QED
        BY <3>2, <3>3, <3>4
  <2>8. InRow(O, n, OverlapBytes)
    <3> HIDE DEF O
    <3>1. ASSUME NEW k \in 1..L - s + 1
          PROVE  O[k].id + (L - s + 1) = n + k /\ O[k].start <= OverlapBytes
        <4>1. PICK i \in 1..L : i = k + s - 1
            BY <2>6
        <4>2. O[k].id = current[i].id /\ O[k].start = current[i].start - from
            BY <2>6, <4>1
        <4>3. /\ current[i].id \in Nat /\ current[i].start \in Nat
              /\ current[i].id + L = n + i /\ current[i].start <= bytes
            BY <1>2
        <4>4. s \in Nat /\ from \in Nat /\ bytes \in Nat /\ k \in Nat /\ L \in Nat /\ n \in Nat
            BY <1>1, <2>3
        <4>5. PICK x \in Nat, y \in Nat : /\ x = current[i].id /\ y = current[i].start
                                         /\ x + L = n + i /\ y <= bytes
            BY <4>3
        <4>6. x + (L - s + 1) = n + k /\ y - from <= bytes - from
            BY <4>1, <4>4, <4>5, SMTT(30)
        <4>7. O[k].id = x /\ O[k].start = y - from
            BY <4>2, <4>5
        <4>8. QED
            BY <2>4, <4>6, <4>7
    <3>2. ASSUME NEW j \in 1..L - s + 1, NEW k \in 1..L - s + 1, j <= k
          PROVE  O[j].start <= O[k].start
        <4>1. PICK i \in 1..L, h \in 1..L : i = j + s - 1 /\ h = k + s - 1
            BY <2>6
        <4>2. O[j].start = current[i].start - from /\ O[k].start = current[h].start - from
            BY <2>6, <4>1
        <4>3. current[i].start <= current[h].start
            BY <1>0, <1>1, <2>3, <3>2, <4>1 DEF InRow
        <4>4. current[i].start \in Nat /\ current[h].start \in Nat
            BY <1>2
        <4>5. from \in Nat
            BY <2>3
        <4>6. QED
            BY <4>2, <4>3, <4>4, <4>5, SMTT(30)
    <3>3. QED
        BY <2>7, <3>1, <3>2 DEF InRow
  <2>9. ASSUME \A j \in Headers : s <= j, NEW p \in Range(current)
        PROVE  p.id \in {O[i].id : i \in 1..Len(O)} \/ (preamble /\ p.id = 1)
    <3>1. PICK i \in 1..L : p = current[i]
        BY <1>1 DEF Range
    <3>2. CASE i < s
        <4>1. i \notin Headers
            BY <2>3, <2>9, <3>2
        <4>2. QED
            BY <1>3, <3>1, <4>1
    <3>3. CASE s <= i
        <4>1. PICK k \in 1..L - s + 1 : i = k + s - 1
            BY <1>1, <2>3, <3>3
        <4>2. O[k].id = p.id
            BY <2>6, <3>1, <4>1
        <4>3. QED
            BY <2>7, <4>2
    <3>4. i < s \/ s <= i
        BY <2>3
    <3>5. QED
        BY <3>2, <3>3, <3>4
  <2> HIDE DEF O
  <2>10. OverlapBytes \in Nat
    BY <1>1, <2>3, <2>4
  <2>11. CASE bytes - current[s].start >= Overlap
    BY <1>1, <2>2, <2>4, <2>5, <2>7, <2>8, <2>10, <2>11
  <2>12. CASE \A j \in Headers : s <= j
    BY <1>1, <2>5, <2>7, <2>8, <2>9, <2>10, <2>12
  <2>13. QED
    BY <2>1, <2>11, <2>12
<1>7. QED
    BY <1>5, <1>6

LEMMA RowGrows ==
    ASSUME NEW parts \in Seq(Parts), NEW n \in Nat, NEW length \in Nat, InRow(parts, n, length),
           NEW s \in Nat, NEW longer \in Nat, parts # <<>> => length <= s, s <= longer,
           NEW part, part = [id |-> n + 1, start |-> s]
    PROVE  /\ Append(parts, part) \in Seq(Parts)
           /\ InRow(Append(parts, part), n + 1, longer)
<1> DEFINE L == Len(parts)
<1>1. part \in Parts /\ part.id = n + 1 /\ part.start = s
    BY DEF Parts
<1>2. PICK c : c = Append(parts, part)
    OBVIOUS
<1>3. /\ c \in Seq(Parts) /\ L \in Nat /\ Len(c) = L + 1 /\ c[L + 1] = part
      /\ \A k \in 1..L : c[k] = parts[k]
    BY <1>1, <1>2
<1>4. ASSUME NEW k \in 1..L
      PROVE  /\ parts[k].id + L = n + k /\ parts[k].start <= length /\ parts[k].start <= s
             /\ parts[k].id \in Nat /\ parts[k].start \in Nat
  <2>1. parts # <<>> /\ parts[k] \in Parts
    BY <1>3
  <2>2. parts[k].id \in Nat /\ parts[k].start \in Nat
    BY <2>1 DEF Parts
  <2>3. parts[k].id + L = n + k /\ parts[k].start <= length
    BY DEF InRow
  <2>4. QED
    BY <2>1, <2>2, <2>3
<1>5. ASSUME NEW k \in 1..L + 1 PROVE c[k].id + (L + 1) = (n + 1) + k /\ c[k].start <= longer
  <2>1. CASE k = L + 1
    BY <1>1, <1>3, <2>1
  <2>2. CASE k \in 1..L
    <3>1. c[k] = parts[k] /\ parts[k].id + L = n + k /\ parts[k].start <= s
          /\ parts[k].id \in Nat /\ parts[k].start \in Nat
        BY <1>3, <1>4, <2>2
    <3>2. PICK x \in Nat, y \in Nat : /\ x = c[k].id /\ y = c[k].start
                                     /\ x + L = n + k /\ y <= s
        BY <3>1
    <3>3. PICK l \in Nat : l = L
        BY <1>3
    <3>4. x + l = n + k /\ y <= s
        BY <3>2, <3>3
    <3>5. PICK m \in Nat : m = k
        BY <1>3
    <3>6. x + (l + 1) = (n + 1) + m
        <4>1. x + l = n + m
            BY <3>4, <3>5
        <4>2. QED
            BY <4>1
    <3>7. y <= longer
        BY <3>4
    <3>8. QED
        BY <3>2, <3>3, <3>5, <3>6, <3>7
  <2>3. QED
    BY <1>3, <2>1, <2>2
<1>6. ASSUME NEW j \in 1..L + 1, NEW k \in 1..L + 1, j <= k PROVE c[j].start <= c[k].start
  <2>1. CASE k \in 1..L
    <3>1. j \in 1..L
        BY <1>3, <1>6, <2>1
    <3>2. parts[j].start <= parts[k].start
        BY <1>6, <2>1, <3>1 DEF InRow
    <3>3. QED
        BY <1>3, <2>1, <3>1, <3>2
  <2>2. CASE k = L + 1 /\ j \in 1..L
    BY <1>1, <1>3, <1>4, <2>2
  <2>3. CASE k = L + 1 /\ j = L + 1
    BY <1>1, <1>3, <2>3
  <2>4. QED
    BY <1>3, <2>1, <2>2, <2>3
<1>7. QED
  <2>1. InRow(c, n + 1, longer)
    BY <1>3, <1>5, <1>6 DEF InRow
  <2>2. QED
    BY <1>2, <1>3, <2>1

LEMMA StillRepeats ==
    ASSUME preamble' = preamble, NEW c, NEW b, Repeats(c, b) PROVE Repeats(c, b)'
BY DEF Repeats

(* The current chunk becomes a finished one. *)
LEMMA ChunkAdded ==
    ASSUME PackInv, current # <<>>, NEW c, c = Finished, NEW all, all = Append(chunks, c)
    PROVE  /\ all \in Seq(PackedChunks) /\ all # <<>> /\ all[Len(all)] = c
           /\ LastId(c) = nextBlock - 1
           /\ \A k \in 1..Len(all) : /\ FollowsOn(all[k], IF k = 1 THEN 0 ELSE LastId(all[k - 1]))
                                     /\ Promised(all[k])
           /\ \A k \in 2..Len(all) : Repeats(all[k], all[k - 1])
<1> DEFINE L == Len(chunks)
<1>1. /\ current \in Seq(Parts) /\ repeated \in Nat /\ bytes \in Nat
      /\ chunks \in Seq(PackedChunks) /\ L \in Nat
    BY DEF PackInv, PackShape
<1>2. c = [parts |-> current, repeated |-> repeated, bytes |-> bytes] /\ c \in PackedChunks
    BY <1>1 DEF Finished, PackedChunks
<1>3. /\ all \in Seq(PackedChunks) /\ Len(all) = L + 1 /\ all[L + 1] = c
      /\ \A k \in 1..L : all[k] = chunks[k]
    BY <1>1, <1>2
<1>4. LastId(c) = nextBlock - 1
  <2>1. Len(current) \in 1..Len(current) /\ current[Len(current)].id \in Nat /\ nextBlock \in Nat
    <3>1. Len(current) \in 1..Len(current) /\ current[Len(current)] \in Parts
        BY <1>1
    <3>2. nextBlock \in Nat
        BY DEF PackInv, PackShape
    <3>3. QED
        BY <3>1, <3>2 DEF Parts
  <2>2. current[Len(current)].id + Len(current) = nextBlock - 1 + Len(current)
    BY <2>1 DEF PackInv, CurrentGoesOn, InRow
  <2>3. current[Len(current)].id = nextBlock - 1
    BY <1>1, <2>1, <2>2
  <2>4. QED
    BY <1>2, <2>3 DEF LastId
<1>5. /\ FollowsOn(c, IF chunks = <<>> THEN 0 ELSE LastId(chunks[L])) /\ Promised(c)
      /\ chunks # <<>> => Repeats(c, chunks[L])
    BY DEF PackInv, CurrentGoesOn
<1>6. ASSUME NEW k \in 1..L
      PROVE  /\ FollowsOn(chunks[k], IF k = 1 THEN 0 ELSE LastId(chunks[k - 1]))
             /\ Promised(chunks[k])
             /\ k # 1 => Repeats(chunks[k], chunks[k - 1])
  <2>1. k \in DOMAIN chunks /\ (k # 1 => k \in 2..L)
    BY <1>1
  <2>2. QED
    BY <2>1 DEF PackInv, NoTurnLost, ChunksOverlap, OversizedByOneTurn
<1>7. ASSUME NEW k \in 1..L + 1
      PROVE  /\ FollowsOn(all[k], IF k = 1 THEN 0 ELSE LastId(all[k - 1]))
             /\ Promised(all[k])
             /\ k # 1 => Repeats(all[k], all[k - 1])
  <2>1. CASE k \in 1..L
    <3>1. k # 1 => k - 1 \in 1..L
        BY <1>1, <2>1
    <3>2. all[k] = chunks[k] /\ (k # 1 => all[k - 1] = chunks[k - 1])
        BY <1>3, <2>1, <3>1
    <3>3. QED
        BY <1>6, <2>1, <3>2
  <2>2. CASE k = L + 1
    <3>1. k = 1 <=> chunks = <<>>
        BY <1>1, <2>2
    <3>2. all[k] = c /\ (k # 1 => all[k - 1] = chunks[L])
        BY <1>1, <1>3, <2>2
    <3>3. QED
        BY <1>5, <3>1, <3>2
  <2>3. QED
    BY <1>1, <2>1, <2>2
<1>8. QED
    BY <1>1, <1>3, <1>4, <1>7

LEMMA PackedStays ==
    ASSUME PackInv, UNCHANGED <<blocks, preamble>>
    PROVE  /\ Short' <=> Short
           /\ \A n : UpTo'[n] = UpTo[n]
<1>1. UpTo' = UpTo
    BY DEF UpTo
<1>2. QED
    BY <1>1 DEF Short, Tokens

(* A chunk that has been finished. *)
LEMMA ChunkFinished ==
    ASSUME PackInv, current # <<>>, preamble' = preamble, blocks' = blocks,
           chunks' = Append(chunks, Finished)
    PROVE  /\ chunks' \in Seq(PackedChunks) /\ chunks' # <<>>
           /\ chunks'[Len(chunks')] = Finished
           /\ LastId(Finished) = nextBlock - 1
           /\ \A k \in DOMAIN chunks' :
                 FollowsOn(chunks'[k], IF k = 1 THEN 0 ELSE LastId(chunks'[k - 1]))
           /\ ChunksOverlap' /\ OversizedByOneTurn'
<1>1. PICK c, all : c = Finished /\ all = Append(chunks, c)
    OBVIOUS
<1>2. /\ all \in Seq(PackedChunks) /\ all # <<>> /\ all[Len(all)] = c
      /\ LastId(c) = nextBlock - 1
      /\ \A k \in 1..Len(all) : /\ FollowsOn(all[k], IF k = 1 THEN 0 ELSE LastId(all[k - 1]))
                                /\ Promised(all[k])
      /\ \A k \in 2..Len(all) : Repeats(all[k], all[k - 1])
    BY <1>1, ChunkAdded
<1>3. chunks' = all /\ DOMAIN all = 1..Len(all)
    BY <1>1, <1>2
<1>4. \A k \in 2..Len(all) : Repeats(all[k], all[k - 1])'
  <2>1. \A a, b : Repeats(a, b) => Repeats(a, b)'
    BY StillRepeats
  <2>2. QED
    BY <1>2, <2>1
<1>5. ChunksOverlap'
    BY <1>3, <1>4 DEF ChunksOverlap
<1>6. OversizedByOneTurn'
    BY <1>2, <1>3 DEF OversizedByOneTurn
<1>7. QED
    BY <1>1, <1>2, <1>3, <1>5, <1>6

(* Where the chunk before ends. *)
LEMMA ChunkEndsAt ==
    ASSUME PackInv PROVE (IF chunks = <<>> THEN 0 ELSE LastId(chunks[Len(chunks)])) \in Nat
<1>1. CASE chunks = <<>>
    BY <1>1
<1>2. CASE chunks # <<>>
  <2>1. chunks \in Seq(PackedChunks)
    BY DEF PackInv, PackShape
  <2>2. PICK d : d = chunks[Len(chunks)]
    OBVIOUS
  <2>3. Len(chunks) \in DOMAIN chunks /\ d \in PackedChunks
    BY <1>2, <2>1, <2>2
  <2>4. d.parts \in Seq(Parts) /\ d.repeated \in Nat
    BY <2>3 DEF PackedChunks
  <2>5. d.repeated < Len(d.parts)
    BY <2>2, <2>3 DEF PackInv, NoTurnLost, FollowsOn
  <2>6. Len(d.parts) \in 1..Len(d.parts)
    BY <2>4, <2>5
  <2>7. d.parts[Len(d.parts)] \in Parts
    BY <2>4, <2>6
  <2>8. QED
    BY <1>2, <2>2, <2>7 DEF LastId, Parts
<1>3. QED
    BY <1>1, <1>2

LEMMA AddBlockKeeps ==
    ASSUME PackInv, NEW i, i = nextBlock, i \in DOMAIN blocks, AddBlock(i),
           UNCHANGED <<blocks, preamble>>
    PROVE  PackInv'
<1>0. PICK n \in Nat : n = IF chunks = <<>> THEN 0 ELSE LastId(chunks[Len(chunks)])
    BY ChunkEndsAt
<1>1. /\ blocks \in Seq(Nat) /\ preamble \in BOOLEAN /\ current \in Seq(Parts)
      /\ repeated \in Nat /\ bytes \in Nat /\ chunks \in Seq(PackedChunks)
      /\ i \in 1..Len(blocks) /\ Len(blocks) \in Nat
    BY DEF PackInv, PackShape
<1>2. PICK b, s, L : /\ b = blocks[i] /\ b \in Nat /\ L = Len(current) /\ L \in Nat
                     /\ s = (IF current = <<>> THEN 0 ELSE bytes + 1) /\ s \in Nat
    BY <1>1, SMTT(30)
<1>2a. /\ b \in Nat /\ s \in Nat /\ L \in Nat /\ bytes \in Nat /\ i \in Nat
       /\ repeated \in Nat
    BY <1>1, <1>2
<1>3. /\ current' = Append(current, [id |-> i, start |-> s]) /\ bytes' = s + b
      /\ nextBlock' = i + 1 /\ repeated' = repeated /\ chunks' = chunks
      /\ blocks' = blocks /\ preamble' = preamble
    BY <1>2 DEF AddBlock
<1>4. PICK c : c = current'
    OBVIOUS
<1>5. c \in Seq(Parts) /\ InRow(c, i, s + b) /\ Len(c) = L + 1 /\ c # <<>>
      /\ c[L + 1].id = i /\ \A k \in 1..L : c[k] = current[k]
  <2>1. InRow(current, i - 1, bytes) /\ i - 1 \in Nat /\ (i - 1) + 1 = i
    BY <1>1 DEF PackInv, CurrentGoesOn
  <2>2. current # <<>> => bytes <= s
    BY <1>1, <1>2
  <2>3. s + b \in Nat /\ s <= s + b
    BY <1>2
  <2>4. \A part : part = [id |-> i, start |-> s] =>
            /\ Append(current, part) \in Seq(Parts) /\ InRow(Append(current, part), i, s + b)
    BY <1>1, <1>2, <2>1, <2>2, <2>3, RowGrows
  <2>5. c \in Seq(Parts) /\ InRow(c, i, s + b)
    BY <1>3, <1>4, <2>4
  <2>6. [id |-> i, start |-> s] \in Parts
    BY <1>1, <1>2 DEF Parts
  <2>7. Len(c) = L + 1 /\ c[L + 1] = [id |-> i, start |-> s]
        /\ \A k \in 1..L : c[k] = current[k]
    BY <1>1, <1>2, <1>3, <1>4, <2>6
  <2>8. c # <<>>
    BY <1>2, <2>7
  <2>9. QED
    BY <2>5, <2>7, <2>8
<1>6. FollowsOn([parts |-> c, repeated |-> repeated, bytes |-> s + b], n)
  <2>1. CASE current = <<>>
    <3>1. L = 0 /\ n = i - 1 /\ repeated = 0
        BY <1>0, <1>2, <2>1 DEF PackInv, CurrentGoesOn
    <3>2. Len(c) = 1 /\ c[1].id = i /\ i = n + 1
        BY <1>1, <1>5, <3>1
    <3>3. \A k \in 0 + 1..Len(c) : c[k].id = n + k - 0
        <4>1. \A k \in 0 + 1..1 : k = 1 /\ i = n + k - 0
            BY <3>2
        <4>2. QED
            BY <3>2, <4>1
    <3>4. 0 < Len(c)
        BY <3>2
    <3>5. PICK e : e = [parts |-> c, repeated |-> repeated, bytes |-> s + b]
        OBVIOUS
    <3>6. e.parts = c /\ e.repeated = 0
        BY <3>1, <3>5
    <3>7. FollowsOn(e, n)
        BY <3>3, <3>4, <3>6 DEF FollowsOn
    <3>8. QED
        BY <3>5, <3>7
  <2>2. CASE current # <<>>
    <3>1. /\ repeated < L
          /\ \A k \in repeated + 1..L : current[k].id = n + k - repeated
        BY <1>0, <1>2, <2>2 DEF PackInv, CurrentGoesOn, FollowsOn, Finished
    <3>2. current[L].id = i - 1
        <4>1. L \in 1..L /\ current[L].id \in Nat
            <5>1. L \in 1..L /\ current[L] \in Parts
                BY <1>1, <1>2, <3>1
            <5>2. QED
                BY <5>1 DEF Parts
        <4>2. current[L].id + L = (i - 1) + L
            BY <1>2, <4>1 DEF PackInv, CurrentGoesOn, InRow
        <4>3. PICK x \in Nat : x = current[L].id /\ x + L = (i - 1) + L
            BY <4>1, <4>2
        <4>4. x = i - 1
            BY <1>2a, <4>3
        <4>5. QED
            BY <4>3, <4>4
    <3>3. n + L - repeated = i - 1
        <4>1. L \in repeated + 1..L
            BY <1>2a, <3>1
        <4>2. QED
            BY <3>1, <3>2, <4>1
    <3>5. n + (L + 1) - repeated = i
        BY <1>1, <1>2, <3>3
    <3>6. repeated < L + 1
        BY <1>1, <1>2, <3>1
    <3>7. ASSUME NEW k \in repeated + 1..L + 1 PROVE c[k].id = n + k - repeated
        <4>1. CASE k = L + 1
            BY <1>5, <3>5, <4>1
        <4>2. CASE k \in repeated + 1..L
            <5>1. k \in 1..L
                BY <1>1, <1>2, <4>2
            <5>2. QED
                BY <1>5, <3>1, <4>2, <5>1
        <4>3. QED
            BY <1>1, <1>2, <4>1, <4>2
    <3>8. QED
        BY <1>5, <3>6, <3>7 DEF FollowsOn
  <2>3. QED
    BY <2>1, <2>2
<1>7. Promised([parts |-> c, repeated |-> repeated, bytes |-> s + b])
  <2>1. CASE current = <<>>
    <3>1. L = 0 /\ repeated = 0
        BY <1>0, <1>2, <2>1 DEF PackInv, CurrentGoesOn
    <3>2. QED
        BY <1>5, <3>1 DEF Promised
  <2>2. CASE Short /\ current # <<>>
    <3>1. bytes + 2 = UpTo[i - 1] + i
        BY <2>2 DEF PackInv, ShortIsOne
    <3>2. /\ UpTo[i] = UpTo[i - 1] + b /\ UpTo[i] \in Nat /\ UpTo[i - 1] \in Nat
          /\ UpTo[i] <= UpTo[Len(blocks)] /\ UpTo[Len(blocks)] \in Nat
        BY <1>1, <1>2, SumsAdd, SMTT(30)
    <3>3. s + b <= UpTo[Len(blocks)] + Len(blocks) - 1
        <4>1. PICK u, v, w, N : /\ u = UpTo[i] /\ v = UpTo[i - 1] /\ w = UpTo[Len(blocks)]
                                /\ N = Len(blocks)
            OBVIOUS
        <4>2. u \in Nat /\ v \in Nat /\ w \in Nat /\ u = v + b /\ u <= w
            BY <3>2, <4>1
        <4>3. N \in Nat /\ i \in Nat /\ i <= N /\ s = bytes + 1 /\ bytes + 2 = v + i
            BY <1>1, <1>2, <2>2, <3>1, <4>1
        <4>4. s + b = u + i - 1
            BY <1>2a, <4>2, <4>3
        <4>5. s + b <= w + N - 1
            BY <1>2a, <4>2, <4>3, <4>4
        <4>6. QED
            BY <4>1, <4>5
    <3>4. PICK t : t = UpTo[Len(blocks)] + Len(blocks) - 1 /\ t \in Nat
        BY <1>1, <3>2
    <3>5. Tokens(s + b) <= Tokens(t) /\ Tokens(s + b) \in Nat /\ Tokens(t) \in Nat
        <4>1. s + b \in Nat /\ s + b <= t
            BY <1>2, <3>3, <3>4
        <4>2. QED
            BY <3>4, <4>1, DivGrows, TextConstants DEF Tokens
    <3>6. Tokens(t) <= ChunkTokens
        BY <2>2, <3>4 DEF Short
    <3>7. ChunkTokens \in Nat
        BY TextConstants
    <3>8. ~(Tokens(s + b) > ChunkTokens)
        BY <3>5, <3>6, <3>7
    <3>9. QED
        BY <3>8 DEF Promised
  <2>3. CASE Fits(b) /\ current # <<>>
    <3>1. Tokens(bytes) + Tokens(b) + 1 <= ChunkTokens
        BY <2>3 DEF Fits
    <3>2. /\ Tokens(bytes + b + 1) <= Tokens(bytes) + Tokens(b) + 1
          /\ Tokens(bytes) \in Nat /\ Tokens(b) \in Nat /\ Tokens(bytes + b + 1) \in Nat
        <4>1. bytes + b + 1 \in Nat
            BY <1>1, <1>2
        <4>2. QED
            BY <1>1, <1>2, <4>1, DivGrows, TextConstants DEF Tokens
    <3>3. s + b = bytes + b + 1
        BY <1>1, <1>2, <2>3
    <3>4. ChunkTokens \in Nat
        BY TextConstants
    <3>5. ~(Tokens(s + b) > ChunkTokens)
        BY <3>1, <3>2, <3>3, <3>4
    <3>6. QED
        BY <3>5 DEF Promised
  <2>4. QED
    BY <1>2, <2>1, <2>2, <2>3 DEF AddBlock
<1>8. ASSUME chunks # <<>>, NEW d, d = chunks[Len(chunks)],
             NEW e, e = [parts |-> c, repeated |-> repeated, bytes |-> s + b]
      PROVE  Repeats(e, d)'
  <2>1. current # <<>>
    <3>1. ASSUME current = <<>> PROVE FALSE
        <4>1. n = i - 1 /\ n = Len(blocks)
            BY <1>0, <1>8, <3>1 DEF PackInv, CurrentGoesOn
        <4>2. QED
            BY <1>1, <4>1
    <3>2. QED
        BY <3>1
  <2>2. Repeats(Finished, d)
    BY <1>8, <2>1 DEF PackInv, CurrentGoesOn
  <2>3. repeated < L
    BY <1>2, <2>1 DEF PackInv, CurrentGoesOn, FollowsOn, Finished
  <2>4. repeated + 1 \in 1..L /\ \A k \in 1..repeated : k \in 1..L
    BY <1>1, <1>2, <2>3
  <2>5. c[repeated + 1] = current[repeated + 1] /\ \A k \in 1..repeated : c[k] = current[k]
    BY <1>5, <2>4
  <2>6. {c[k].id : k \in 1..repeated} = {current[k].id : k \in 1..repeated}
    BY <2>5
  <2>7. Repeats(e, d)
    BY <1>8, <2>2, <2>5, <2>6 DEF Repeats, Finished
  <2>8. QED
    BY <1>3, <2>7, StillRepeats
<1>9. PackShape'
  <2>1. s + b \in Nat /\ i + 1 \in 1..Len(blocks) + 1
    BY <1>1, <1>2
  <2>2. QED
    BY <1>1, <1>3, <1>4, <1>5, <2>1 DEF PackShape
<1>10. CurrentGoesOn'
  <2>1. i = (i + 1) - 1
    BY <1>1
  <2>2. InRow(current', nextBlock' - 1, bytes')
    BY <1>3, <1>4, <1>5, <2>1
  <2>3. /\ Finished' = [parts |-> c, repeated |-> repeated, bytes |-> s + b]
        /\ current' # <<>>
        /\ n = IF chunks' = <<>> THEN 0 ELSE LastId(chunks'[Len(chunks')])
    BY <1>0, <1>3, <1>4, <1>5 DEF Finished
  <2>4. FollowsOn(Finished', n) /\ Promised(Finished')
    BY <1>6, <1>7, <2>3
  <2>5. chunks' # <<>> => Repeats(Finished, chunks[Len(chunks)])'
    <3> SUFFICES ASSUME chunks' # <<>> PROVE Repeats(Finished, chunks[Len(chunks)])'
        OBVIOUS
    <3>1. PICK d, e : d = chunks'[Len(chunks')] /\ e = Finished'
        OBVIOUS
    <3>2. Repeats(e, d)'
        BY <1>3, <1>8, <2>3, <3>1
    <3>3. QED
        BY <3>1, <3>2 DEF Repeats
  <2>6. QED
    BY <2>2, <2>3, <2>4, <2>5 DEF CurrentGoesOn
<1>11. ShortIsOne'
  <2>1. (Short' <=> Short) /\ \A m : UpTo'[m] = UpTo[m]
    BY PackedStays
  <2> SUFFICES ASSUME Short PROVE chunks = <<>> /\ s + b + 2 = UpTo[i] + (i + 1)
    <3>1. (i + 1) - 1 = i
        BY <1>1
    <3>2. ASSUME Short => chunks = <<>> /\ s + b + 2 = UpTo[i] + (i + 1) PROVE ShortIsOne'
        BY <1>3, <2>1, <3>1, <3>2 DEF ShortIsOne
    <3>3. QED
        BY <3>2
  <2>2. chunks = <<>>
    <3>1. chunks # <<>> => current = <<>>
        BY DEF PackInv, ShortIsOne
    <3>2. ASSUME current = <<>>, chunks # <<>> PROVE FALSE
        <4>1. n = i - 1 /\ n = Len(blocks)
            BY <1>0, <3>2 DEF PackInv, CurrentGoesOn
        <4>2. QED
            BY <1>1, <4>1
    <3>3. QED
        BY <3>1, <3>2
  <2>3. UpTo[i] = UpTo[i - 1] + b /\ UpTo[i - 1] \in Nat /\ UpTo[0] = 0
    BY <1>1, <1>2, SumsAdd
  <2>4. CASE current = <<>>
    <3>1. n = i - 1 /\ n = 0
        BY <1>0, <2>2, <2>4 DEF PackInv, CurrentGoesOn
    <3>2. i = 1 /\ s = 0
        BY <1>1, <1>2, <2>4, <3>1
    <3>3. QED
        BY <1>2, <2>2, <2>3, <3>2
  <2>5. CASE current # <<>>
    <3>1. bytes + 2 = UpTo[i - 1] + i
        BY <2>5 DEF PackInv, ShortIsOne
    <3>2. PICK u, v : u = UpTo[i] /\ v = UpTo[i - 1]
        OBVIOUS
    <3>3. v \in Nat /\ u = v + b /\ s = bytes + 1 /\ bytes + 2 = v + i /\ i \in Nat
        BY <1>1, <1>2, <2>3, <2>5, <3>1, <3>2
    <3>4. s + b + 2 = u + (i + 1)
        BY <1>2a, <3>3
    <3>5. QED
        BY <2>2, <3>2, <3>4
  <2>6. QED
    BY <2>4, <2>5
<1>12. NoTurnLost' /\ ChunksOverlap' /\ OversizedByOneTurn'
  <2>1. \A a, d : Repeats(a, d) => Repeats(a, d)'
    BY <1>3, StillRepeats
  <2>2. ChunksOverlap'
    <3>1. \A k \in 2..Len(chunks) : Repeats(chunks[k], chunks[k - 1])
        BY DEF PackInv, ChunksOverlap
    <3>2. PICK all : all = chunks
        OBVIOUS
    <3>3. \A k \in 2..Len(all) : Repeats(all[k], all[k - 1])'
        BY <2>1, <3>1, <3>2
    <3>4. QED
        BY <1>3, <3>2, <3>3 DEF ChunksOverlap
  <2>3. OversizedByOneTurn'
    BY <1>3 DEF PackInv, OversizedByOneTurn
  <2>4. NoTurnLost'
    BY <1>3, <1>4, <1>5 DEF PackInv, NoTurnLost
  <2>5. QED
    BY <2>2, <2>3, <2>4
<1>13. QED
    BY <1>9, <1>10, <1>11, <1>12 DEF PackInv

LEMMA FlushChunkKeeps ==
    ASSUME PackInv, NEW i, i = nextBlock, i \in DOMAIN blocks, FlushChunk(i),
           UNCHANGED <<blocks, preamble>>
    PROVE  PackInv'
<1>1. /\ blocks \in Seq(Nat) /\ preamble \in BOOLEAN /\ current \in Seq(Parts)
      /\ repeated \in Nat /\ bytes \in Nat /\ chunks \in Seq(PackedChunks)
      /\ i \in 1..Len(blocks) /\ Len(blocks) \in Nat /\ current # <<>>
    BY SMTT(30) DEF PackInv, PackShape, FlushChunk
<1>0. PICK b, o, s : b = blocks[i] /\ o = OverlapParts /\ s = OverlapBytes + 2
    OBVIOUS
<1>2. PICK c : c = Append(o, [id |-> i, start |-> s])
    OBVIOUS
<1>3. PICK before : before = Finished
    OBVIOUS
<1>4. /\ current' = c /\ bytes' = s + b /\ nextBlock' = i + 1 /\ repeated' = Len(o)
      /\ chunks' = Append(chunks, before) /\ blocks' = blocks /\ preamble' = preamble
      /\ ~Short
    BY <1>0, <1>2, <1>3 DEF FlushChunk
<1>5. /\ o \in Seq(Parts) /\ o # <<>> /\ b \in Nat /\ s \in Nat /\ OverlapBytes \in Nat
      /\ InRow(o, i - 1, OverlapBytes) /\ OverlapBytes = s - 2
      /\ \/ OverlapBytes >= Overlap
         \/ \A p \in Range(current) :
                  p.id \in {o[k].id : k \in 1..Len(o)} \/ (preamble /\ p.id = 1)
  <2>1. /\ o \in Seq(Parts) /\ o # <<>> /\ OverlapBytes \in Nat
        /\ InRow(o, i - 1, OverlapBytes)
        /\ \/ OverlapBytes >= Overlap
           \/ \A p \in Range(current) :
                  p.id \in {o[k].id : k \in 1..Len(o)} \/ (preamble /\ p.id = 1)
    BY <1>0, <1>1, OverlapIs
  <2>2. b \in Nat /\ s \in Nat /\ OverlapBytes = s - 2
    <3>1. b \in Nat
        BY <1>0, <1>1
    <3>2. PICK l \in Nat : l = OverlapBytes
        BY <2>1
    <3>3. QED
        BY <1>0, <3>1, <3>2
  <2>3. QED
    BY <2>1, <2>2
<1>6. PICK L \in Nat \ {0} : L = Len(o)
    BY <1>5
<1>7. /\ c \in Seq(Parts) /\ InRow(c, i, s + b) /\ Len(c) = L + 1 /\ c # <<>>
      /\ c[L + 1] = [id |-> i, start |-> s] /\ \A k \in 1..L : c[k] = o[k]
  <2>1. i - 1 \in Nat /\ (i - 1) + 1 = i /\ OverlapBytes <= s /\ s + b \in Nat /\ s <= s + b
    BY <1>0, <1>1, <1>5, SMTT(30)
  <2>2. \A part : part = [id |-> i, start |-> s] =>
            /\ Append(o, part) \in Seq(Parts) /\ InRow(Append(o, part), i, s + b)
    BY <1>5, <2>1, RowGrows
  <2>3. [id |-> i, start |-> s] \in Parts
    BY <1>1, <1>5 DEF Parts
  <2>4. Len(c) = L + 1 /\ c[L + 1] = [id |-> i, start |-> s] /\ \A k \in 1..L : c[k] = o[k]
    BY <1>2, <1>5, <1>6, <2>3
  <2>5. c # <<>>
    BY <1>6, <2>4
  <2>6. QED
    BY <1>2, <2>2, <2>4, <2>5
<1>8. /\ chunks' \in Seq(PackedChunks) /\ chunks' # <<>> /\ chunks'[Len(chunks')] = before
      /\ LastId(before) = i - 1
      /\ \A k \in DOMAIN chunks' :
            FollowsOn(chunks'[k], IF k = 1 THEN 0 ELSE LastId(chunks'[k - 1]))
      /\ ChunksOverlap' /\ OversizedByOneTurn'
    BY <1>1, <1>3, <1>4, ChunkFinished
<1>9. PackShape'
  <2>1. s + b \in Nat /\ i + 1 \in 1..Len(blocks) + 1 /\ Len(o) \in Nat
    BY <1>1, <1>5, <1>6, SMTT(30)
  <2>2. QED
    BY <1>1, <1>4, <1>7, <1>8, <2>1 DEF PackShape
<1>10. PICK e : e = [parts |-> c, repeated |-> L, bytes |-> s + b]
    OBVIOUS
<1>11. FollowsOn(e, i - 1) /\ Promised(e)
  <2>1. L < Len(c) /\ Len(c) = L + 1
    BY <1>7
  <2>2. \A k \in L + 1..L + 1 : c[k].id = (i - 1) + k - L
    BY <1>1, <1>7
  <2>3. QED
    BY <1>10, <2>1, <2>2 DEF FollowsOn, Promised
<1>12. Repeats(e, before)
  <2>1. {c[k].id : k \in 1..L} = {o[k].id : k \in 1..Len(o)}
    BY <1>6, <1>7
  <2>2. c[L + 1].start - 2 = OverlapBytes
    BY <1>5, <1>7
  <2>3. LastId(before) \in {o[k].id : k \in 1..Len(o)}
    <3>1. L \in 1..Len(o) /\ o[L].id \in Nat
        <4>1. L \in 1..Len(o) /\ o[L] \in Parts
            BY <1>5, <1>6
        <4>2. QED
            BY <4>1 DEF Parts
    <3>2. o[L].id + L = i - 1 + L
        BY <1>5, <1>6, <3>1 DEF InRow
    <3>3. o[L].id = i - 1
        BY <1>1, <3>1, <3>2, SMTT(30)
    <3>4. QED
        BY <1>8, <3>1, <3>3
  <2>4. before.parts = current
    BY <1>3 DEF Finished
  <2>5. QED
    BY <1>5, <1>10, <2>1, <2>2, <2>3, <2>4 DEF Repeats
<1>13. CurrentGoesOn'
  <2>1. Finished' = e
    BY <1>4, <1>6, <1>10 DEF Finished
  <2>2. Repeats(e, before)'
    BY <1>4, <1>12, StillRepeats
  <2>3. Repeats(Finished, chunks[Len(chunks)])'
    BY <1>8, <2>1, <2>2 DEF Repeats
  <2>4. InRow(current', nextBlock' - 1, bytes')
    <3>1. (i + 1) - 1 = i
        BY <1>1
    <3>2. QED
        BY <1>4, <1>7, <3>1
  <2>5. FollowsOn(Finished', LastId(chunks'[Len(chunks')])) /\ Promised(Finished')
    BY <1>8, <1>11, <2>1
  <2>6. current' # <<>> /\ chunks' # <<>>
    BY <1>4, <1>7, <1>8
  <2>7. QED
    BY <2>3, <2>4, <2>5, <2>6 DEF CurrentGoesOn
<1>14. ShortIsOne'
    BY <1>4, PackedStays DEF ShortIsOne
<1>15. NoTurnLost'
    BY <1>4, <1>7, <1>8 DEF NoTurnLost
<1>16. QED
    BY <1>8, <1>9, <1>13, <1>14, <1>15 DEF PackInv

LEMMA LastChunkKeeps ==
    ASSUME PackInv, nextBlock \notin DOMAIN blocks, current # <<>>, LastChunk,
           UNCHANGED <<blocks, preamble>>
    PROVE  PackInv'
<1>1. /\ blocks \in Seq(Nat) /\ preamble \in BOOLEAN /\ current \in Seq(Parts)
      /\ nextBlock = Len(blocks) + 1 /\ Len(blocks) \in Nat
    BY DEF PackInv, PackShape
<1>2. /\ current' = <<>> /\ bytes' = 0 /\ nextBlock' = nextBlock /\ repeated' = 0
      /\ chunks' = Append(chunks, Finished) /\ blocks' = blocks /\ preamble' = preamble
    BY DEF LastChunk
<1>3. /\ chunks' \in Seq(PackedChunks) /\ chunks' # <<>>
      /\ LastId(chunks'[Len(chunks')]) = nextBlock - 1
      /\ \A k \in DOMAIN chunks' :
            FollowsOn(chunks'[k], IF k = 1 THEN 0 ELSE LastId(chunks'[k - 1]))
      /\ ChunksOverlap' /\ OversizedByOneTurn'
    BY <1>1, <1>2, ChunkFinished
<1>4. nextBlock - 1 = Len(blocks) /\ <<>> \in Seq(Parts)
    BY <1>1
<1>5. PackShape'
    BY <1>1, <1>2, <1>3, <1>4 DEF PackShape
<1>6. CurrentGoesOn'
  <2>1. InRow(<<>>, nextBlock - 1, 0)
    BY DEF InRow
  <2>2. QED
    BY <1>2, <1>3, <1>4, <2>1 DEF CurrentGoesOn
<1>7. ShortIsOne'
    BY <1>2, PackedStays DEF ShortIsOne
<1>8. NoTurnLost'
    BY <1>2, <1>3, <1>4 DEF NoTurnLost
<1>9. QED
    BY <1>3, <1>5, <1>6, <1>7, <1>8 DEF PackInv

LEMMA PackKeeps == ASSUME PackInv, Pack PROVE PackInv'
<1>1. UNCHANGED <<blocks, preamble>>
    BY DEF Pack
<1>2. PICK i : i = nextBlock
    OBVIOUS
<1>3. CASE i \in DOMAIN blocks /\ AddBlock(i)
    BY <1>1, <1>2, <1>3, AddBlockKeeps
<1>4. CASE i \in DOMAIN blocks /\ FlushChunk(i)
    BY <1>1, <1>2, <1>4, FlushChunkKeeps
<1>5. CASE nextBlock \notin DOMAIN blocks /\ current # <<>> /\ LastChunk
    BY <1>1, <1>5, LastChunkKeeps
<1>6. QED
    BY <1>2, <1>3, <1>4, <1>5 DEF Pack

LEMMA PackRests == ASSUME PackInv, UNCHANGED packVars PROVE PackInv'
<1>1. /\ blocks' = blocks /\ preamble' = preamble /\ nextBlock' = nextBlock
      /\ current' = current /\ repeated' = repeated /\ bytes' = bytes /\ chunks' = chunks
    BY DEF packVars
<1>2. (Short' <=> Short) /\ UpTo' = UpTo
  <2>1. UpTo' = UpTo
    BY <1>1 DEF UpTo
  <2>2. QED
    BY <1>1, <2>1 DEF Short, Tokens
<1>3. PackShape' /\ ShortIsOne' /\ NoTurnLost' /\ OversizedByOneTurn'
    BY <1>1, <1>2 DEF PackInv, PackShape, ShortIsOne, NoTurnLost, OversizedByOneTurn
<1>4. ChunksOverlap'
  <2>1. \A a, d : Repeats(a, d) => Repeats(a, d)'
    BY <1>1, StillRepeats
  <2>2. PICK all : all = chunks
    OBVIOUS
  <2>3. \A k \in 2..Len(all) : Repeats(all[k], all[k - 1])'
    BY <2>1, <2>2 DEF PackInv, ChunksOverlap
  <2>4. QED
    BY <1>1, <2>2, <2>3 DEF ChunksOverlap
<1>5. CurrentGoesOn'
    BY <1>1 DEF PackInv, CurrentGoesOn, Repeats, Finished
<1>6. QED
    BY <1>3, <1>4, <1>5 DEF PackInv

LEMMA WindowKeeps == ASSUME WindowInv, CutWindow PROVE WindowInv'
<1>1. /\ chars \in Nat /\ windows \in Seq(WindowRecs) /\ chars' = chars
      /\ Len(windows) \in Nat
    BY DEF WindowInv, CutWindow
<1>2. MaxChars \in Nat \ {0} /\ Overlap \in Nat \ {0}
  <2>1. TokenBytes \in Nat \ {0} /\ ChunkTokens \in Nat \ {0} /\ Overlap \in Nat \ {0}
    BY TextConstants
  <2>2. \A a, b \in Nat \ {0} : a * b \in Nat \ {0}
    BY SMTT(30)
  <2>3. QED
    BY <2>1, <2>2 DEF MaxChars
<1>3. /\ Step \in Nat \ {0} /\ Step <= MaxChars
      /\ MaxChars > Overlap => MaxChars - Step = Overlap
    BY <1>2 DEF Step
<1> DEFINE L == Len(windows)
<1>4. PICK from, to : /\ from = (IF windows = <<>> THEN 0 ELSE windows[L].from + Step)
                      /\ to = (IF from + MaxChars < chars THEN from + MaxChars ELSE chars)
    OBVIOUS
<1>5. windows' = Append(windows, [from |-> from, to |-> to])
    BY <1>4 DEF CutWindow
<1>6. \A k \in 1..L : /\ windows[k].from \in Nat /\ windows[k].to \in Nat
                      /\ windows[k].to = IF windows[k].from + MaxChars < chars
                                         THEN windows[k].from + MaxChars ELSE chars
  <2>1. \A k \in 1..L : windows[k] \in WindowRecs
    BY <1>1
  <2>2. \A x \in WindowRecs : x.from \in Nat /\ x.to \in Nat
    BY DEF WindowRecs
  <2>3. \A k \in 1..L : windows[k].to = IF windows[k].from + MaxChars < chars
                                         THEN windows[k].from + MaxChars ELSE chars
    BY DEF WindowInv
  <2>4. QED
    BY <2>1, <2>2, <2>3
<1>7. from \in Nat /\ to \in Nat
  <2>1. windows # <<>> => windows[L].from \in Nat
    <3>1. windows # <<>> => L \in 1..L
        BY <1>1
    <3>2. QED
        BY <1>6, <3>1
  <2>2. from \in Nat
    BY <1>3, <1>4, <2>1
  <2>3. chars \in Nat /\ from + MaxChars \in Nat
    BY <1>1, <1>2, <2>2
  <2>4. QED
    BY <1>4, <2>2, <2>3
<1>8. PICK w : w = windows'
    OBVIOUS
<1>9. /\ w \in Seq(WindowRecs) /\ Len(w) = L + 1 /\ w # <<>>
      /\ w[L + 1].from = from /\ w[L + 1].to = to
      /\ \A k \in 1..L : w[k] = windows[k]
  <2>1. [from |-> from, to |-> to] \in WindowRecs
    BY <1>7 DEF WindowRecs
  <2>2. PICK r : r = [from |-> from, to |-> to]
    OBVIOUS
  <2>3. /\ w \in Seq(WindowRecs) /\ Len(w) = L + 1 /\ w # <<>> /\ w[L + 1] = r
        /\ \A k \in 1..L : w[k] = windows[k]
    BY <1>1, <1>5, <1>8, <2>1, <2>2
  <2>4. QED
    BY <2>2, <2>3
<1>10. windows # <<>> => /\ windows[L].from < from /\ from <= windows[L].to
                         /\ MaxChars > Overlap => windows[L].to - from = Overlap
  <2> SUFFICES ASSUME windows # <<>>
               PROVE  /\ windows[L].from < from /\ from <= windows[L].to
                      /\ MaxChars > Overlap => windows[L].to - from = Overlap
    OBVIOUS
  <2>1. L \in 1..L /\ windows[L].to < chars
    BY <1>1 DEF CutWindow
  <2>2. windows[L].to = windows[L].from + MaxChars
    BY <1>1, <1>2, <1>6, <2>1
  <2>3. from = windows[L].from + Step
    BY <1>4
  <2>4. QED
    BY <1>2, <1>3, <1>6, <2>1, <2>2, <2>3
<1>11. ASSUME NEW k \in 2..L + 1
       PROVE  /\ w[k - 1].from < w[k].from /\ w[k].from <= w[k - 1].to
              /\ MaxChars > Overlap => w[k - 1].to - w[k].from = Overlap
  <2>1. CASE k \in 2..L
    <3>1. k \in 1..L /\ k - 1 \in 1..L
        BY <1>1, <2>1
    <3>2. QED
        BY <1>9, <2>1, <3>1 DEF WindowInv, WindowsCover
  <2>2. CASE k = L + 1
    <3>1. windows # <<>> /\ k - 1 = L /\ L \in 1..L
        BY <1>1, <2>2
    <3>2. QED
        BY <1>9, <1>10, <2>2, <3>1
  <2>3. QED
    BY <1>1, <2>1, <2>2
<1>12. w[1].from = 0
  <2>1. CASE windows = <<>>
    BY <1>4, <1>9, <2>1
  <2>2. CASE windows # <<>>
    <3>1. 1 \in 1..L
        BY <1>1, <2>2
    <3>2. QED
        BY <1>9, <2>2, <3>1 DEF WindowInv, WindowsCover
  <2>3. QED
    BY <2>1, <2>2
<1>13. \A k \in 1..L + 1 : w[k].to = IF w[k].from + MaxChars < chars
                                     THEN w[k].from + MaxChars ELSE chars
  <2>1. \A k \in 1..L + 1 : k \in 1..L \/ k = L + 1
    BY <1>1
  <2>2. QED
    BY <1>4, <1>6, <1>9, <2>1
<1>14. WindowsCover'
    BY <1>8, <1>9, <1>11, <1>12 DEF WindowsCover
<1>15. QED
    BY <1>1, <1>8, <1>9, <1>13, <1>14 DEF WindowInv

LEMMA AlikeItself ==
    ASSUME NEW item \in Items PROVE Similar(item.words, item.words)
<1>1. PICK text \in Texts : text = item.words
    BY DEF Items
<1>2. IsFiniteSet(text) /\ text \cap text = text /\ text \cup text = text
    BY TextAssumption
<1>3. PICK n \in Nat : n = Cardinality(text)
    BY <1>2, FS_CardinalityType
<1>4. 10 * n >= 7 * n
    BY <1>3
<1>5. Similar(text, text)
    BY <1>2, <1>3, <1>4 DEF Similar
<1>6. QED
    BY <1>1, <1>5

LEMMA StrippedIs ==
    ASSUME NEW item \in Items
    PROVE  /\ Stripped(item) \in Items /\ Stripped(item).words = item.words
           /\ Stripped(item).quote # "fabricated"
<1>1. item = [words |-> item.words, quote |-> item.quote] /\ item.words \in Texts
    BY DEF Items
<1>2. CASE item.quote = "fabricated"
  <2>1. Stripped(item) = [words |-> item.words, quote |-> "none"]
    BY <1>1, <1>2 DEF Stripped
  <2>2. QED
    BY <1>1, <2>1 DEF Items
<1>3. CASE item.quote # "fabricated"
    BY <1>3 DEF Stripped
<1>4. QED
    BY <1>2, <1>3

LEMMA DedupKeeps == ASSUME DedupInv, DedupItem PROVE DedupInv'
<1>1. /\ items \in Seq(Items) /\ seen \in Nat /\ kept \in Seq(Items)
      /\ seen < Len(items) /\ seen' = seen + 1 /\ items' = items
      /\ Len(kept) \in Nat /\ Len(items) \in Nat
    BY DEF DedupInv, DedupItem
<1>2. PICK x, left : x = items[seen + 1] /\ left = Stripped(x)
    OBVIOUS
<1>3. x \in Items /\ left \in Items /\ left.words = x.words /\ left.quote # "fabricated"
  <2>1. seen + 1 \in 1..Len(items)
    BY <1>1
  <2>2. x \in Items
    BY <1>1, <1>2, <2>1
  <2>3. QED
    BY <1>2, <2>2, StrippedIs
<1>4. kept' = IF Duplicate(left) THEN kept ELSE Append(kept, left)
    BY <1>2 DEF DedupItem
<1>5. PICK n : n = kept'
    OBVIOUS
<1>6. /\ \A j, k \in 1..Len(kept) : j < k => ~Similar(kept[j].words, kept[k].words)
      /\ \A i \in 1..seen : \E k \in 1..Len(kept) : Similar(kept[k].words, items[i].words)
      /\ \A k \in 1..Len(kept) : kept[k].quote # "fabricated"
  <2>1. DOMAIN kept = 1..Len(kept)
    BY <1>1
  <2>2. QED
    BY <2>1 DEF DedupInv, DedupKeepsMeaning
<1>7. /\ n \in Seq(Items)
      /\ \A j, k \in 1..Len(n) : j < k => ~Similar(n[j].words, n[k].words)
      /\ \A i \in 1..seen + 1 : \E k \in 1..Len(n) : Similar(n[k].words, items[i].words)
      /\ \A k \in 1..Len(n) : n[k].quote # "fabricated"
  <2>1. CASE Duplicate(left)
    <3>1. n = kept
        BY <1>4, <1>5, <2>1
    <3>2. \E k \in 1..Len(kept) : Similar(kept[k].words, x.words)
        BY <1>1, <1>3, <2>1 DEF Duplicate
    <3>3. \A i \in 1..seen + 1 : i \in 1..seen \/ i = seen + 1
        BY <1>1
    <3>4. QED
        BY <1>1, <1>2, <1>6, <3>1, <3>2, <3>3
  <2>2. CASE ~Duplicate(left)
    <3>1. n = Append(kept, left)
        BY <1>4, <1>5, <2>2
    <3>2. /\ n \in Seq(Items) /\ Len(n) = Len(kept) + 1 /\ n[Len(kept) + 1] = left
          /\ \A k \in 1..Len(kept) : n[k] = kept[k]
        BY <1>1, <1>3, <3>1
    <3>3. \A k \in 1..Len(kept) : ~Similar(kept[k].words, left.words)
        BY <1>1, <2>2 DEF Duplicate
    <3>4. \A k \in 1..Len(n) : k \in 1..Len(kept) \/ k = Len(kept) + 1
        BY <1>1, <3>2
    <3>5. ASSUME NEW j \in 1..Len(n), NEW k \in 1..Len(n), j < k
          PROVE  ~Similar(n[j].words, n[k].words)
        <4>1. j \in 1..Len(kept)
            BY <1>1, <3>2, <3>5
        <4>2. QED
            BY <1>6, <3>2, <3>3, <3>4, <3>5, <4>1
    <3>6. ASSUME NEW i \in 1..seen + 1
          PROVE  \E k \in 1..Len(n) : Similar(n[k].words, items[i].words)
        <4>1. \A k \in 1..Len(kept) : k \in 1..Len(n)
            BY <1>1, <3>2
        <4>2. CASE i \in 1..seen
            BY <1>6, <3>2, <4>1, <4>2
        <4>3. CASE i = seen + 1
            <5>1. Similar(left.words, x.words) /\ Len(kept) + 1 \in 1..Len(n)
                BY <1>1, <1>3, <3>2, AlikeItself
            <5>2. QED
                BY <1>2, <3>2, <4>3, <5>1
        <4>4. QED
            BY <1>1, <4>2, <4>3
    <3>7. QED
        BY <1>3, <1>6, <3>2, <3>4, <3>5, <3>6
  <2>3. QED
    BY <2>1, <2>2
<1>8. DOMAIN n = 1..Len(n)
    BY <1>7
<1>9. DedupKeepsMeaning'
    BY <1>1, <1>5, <1>7, <1>8 DEF DedupKeepsMeaning
<1>10. QED
    BY <1>1, <1>5, <1>7, <1>9 DEF DedupInv

LEMMA PeopleKept == ASSUME PeopleInv, DedupPerson PROVE PeopleInv'
<1>1. /\ people \in Seq(People) /\ met \in Nat /\ present \in Seq(Nat) /\ people' = people
      /\ met' = met + 1 /\ met < Len(people)
    BY DEF PeopleInv, DedupPerson
<1>2. PICK p : p = people[met + 1]
    OBVIOUS
<1>3. /\ tags' = tags \cup {p.tag}
      /\ names' = IF p.tag \in tags THEN names ELSE names \cup {p.name}
      /\ present' = IF p.tag \in tags \/ NameSeen(p) THEN present ELSE Append(present, met + 1)
    BY <1>2 DEF DedupPerson
<1>4. met + 1 \in 1..met + 1 /\ (\A j \in 1..met : j \in 1..met + 1) /\ met + 1 \in Nat
    BY <1>1
<1>5. \A tag \in tags' : \E j \in 1..met + 1 : people[j].tag = tag
    BY <1>2, <1>3, <1>4 DEF PeopleInv
<1>6. \A name \in names' : \E j \in 1..met + 1 : people[j].name = name
    BY <1>2, <1>3, <1>4 DEF PeopleInv
<1>7. present' \in Seq(Nat) /\ Range(present) \subseteq Range(present')
      /\ (p.tag \in tags \/ NameSeen(p) \/ met + 1 \in Range(present'))
  <2>1. CASE p.tag \in tags \/ NameSeen(p)
    BY <1>1, <1>3, <2>1
  <2>2. CASE ~(p.tag \in tags \/ NameSeen(p))
    <3>1. PICK n : n = Append(present, met + 1) /\ n = present'
        BY <1>3, <2>2
    <3>2. /\ n \in Seq(Nat) /\ Len(n) = Len(present) + 1 /\ n[Len(present) + 1] = met + 1
          /\ \A k \in 1..Len(present) : n[k] = present[k]
        BY <1>1, <1>4, <3>1
    <3>3. Range(present) \subseteq Range(n) /\ met + 1 \in Range(n)
        <4>1. DOMAIN present = 1..Len(present) /\ DOMAIN n = 1..Len(present) + 1
            BY <1>1, <3>2
        <4>2. Len(present) + 1 \in DOMAIN n /\ \A k \in DOMAIN present : k \in DOMAIN n
            BY <1>1, <4>1
        <4>3. \A k \in DOMAIN present : n[k] = present[k]
            BY <3>2, <4>1
        <4>4. QED
            BY <3>2, <4>2, <4>3 DEF Range
    <3>4. QED
        BY <3>1, <3>2, <3>3
  <2>3. QED
    BY <2>1, <2>2
<1>8. ASSUME NEW i \in (1..met + 1) \ Range(present')
      PROVE  \E j \in 1..i - 1 :
                 \/ people[j].tag = people[i].tag
                 \/ people[i].name # NoName /\ people[j].name = people[i].name
  <2>1. CASE i \in 1..met
    <3>1. i \in (1..met) \ Range(present)
        BY <1>7, <2>1
    <3>2. QED
        BY <3>1 DEF PeopleInv, PeopleStay
  <2>2. CASE i = met + 1
    <3>1. p.tag \in tags \/ NameSeen(p)
        BY <1>7, <2>2
    <3>2. i - 1 = met
        BY <1>1, <2>2
    <3>3. QED
        BY <1>2, <2>2, <3>1, <3>2 DEF NameSeen, PeopleInv
  <2>3. QED
    BY <1>1, <2>1, <2>2
<1>9. PeopleStay'
    BY <1>1, <1>8 DEF PeopleStay
<1>10. QED
    BY <1>1, <1>4, <1>5, <1>6, <1>7, <1>9 DEF PeopleInv

LEMMA LoopsRest ==
    /\ WindowInv /\ UNCHANGED charVars => WindowInv'
    /\ DedupInv /\ UNCHANGED itemVars => DedupInv'
    /\ PeopleInv /\ UNCHANGED peopleVars => PeopleInv'
<1>1. ASSUME WindowInv, UNCHANGED charVars PROVE WindowInv'
    BY <1>1 DEF WindowInv, WindowsCover, charVars
<1>2. ASSUME DedupInv, UNCHANGED itemVars PROVE DedupInv'
    BY <1>2 DEF DedupInv, DedupKeepsMeaning, itemVars
<1>3. ASSUME PeopleInv, UNCHANGED peopleVars PROVE PeopleInv'
    BY <1>3 DEF PeopleInv, PeopleStay, peopleVars
<1>4. QED
    BY <1>1, <1>2, <1>3

LEMMA TextInvInit == TextInit => TextInv
<1> SUFFICES ASSUME TextInit PROVE TextInv
    OBVIOUS
<1>1. /\ nextBlock = 1 /\ current = <<>> /\ repeated = 0 /\ bytes = 0 /\ chunks = <<>>
      /\ windows = <<>> /\ seen = 0 /\ kept = <<>>
      /\ met = 0 /\ present = <<>> /\ tags = {} /\ names = {}
    BY DEF TextInit
<1>2. \A S : <<>> \in Seq(S)
    OBVIOUS
<1>3. blocks \in Seq(Nat) /\ preamble \in BOOLEAN
  <2>1. ASSUME NEW n \in 1..MaxBlocks, blocks \in [1..n -> BlockSizes] PROVE blocks \in Seq(Nat)
    <3>1. n \in Nat
        BY TextConstants
    <3>2. BlockSizes \subseteq Nat
        BY TextConstants
    <3>3. blocks \in [1..n -> Nat]
        BY <2>1, <3>2
    <3>4. QED
        BY <3>1, <3>3
  <2>2. QED
    BY <1>2, <2>1 DEF TextInit
<1>4. chars \in Nat
  <2>1. 4 * TokenBytes * ChunkTokens \in Nat
    BY TextConstants
  <2>2. QED
    BY <2>1 DEF TextInit
<1>5. items \in Seq(Items)
  <2>1. ASSUME NEW n \in 0..MaxItems, items \in [1..n -> Items] PROVE items \in Seq(Items)
    BY <2>1
  <2>2. QED
    BY <1>2, <2>1 DEF TextInit
<1>6. people \in Seq(People)
  <2>1. ASSUME NEW n \in 0..MaxPeople, people \in [1..n -> People] PROVE people \in Seq(People)
    BY <2>1
  <2>2. QED
    BY <1>2, <2>1 DEF TextInit
<1>7. PackInv
  <2>1. PackShape
    <3>1. 1 \in 1..Len(blocks) + 1
        BY <1>3
    <3>2. QED
        BY <1>1, <1>2, <1>3, <3>1 DEF PackShape
  <2>2. CurrentGoesOn
    BY <1>1 DEF CurrentGoesOn, InRow
  <2>3. ShortIsOne /\ NoTurnLost /\ ChunksOverlap /\ OversizedByOneTurn
    BY <1>1 DEF ShortIsOne, NoTurnLost, ChunksOverlap, OversizedByOneTurn
  <2>4. QED
    BY <2>1, <2>2, <2>3 DEF PackInv
<1>8. WindowInv
    BY <1>1, <1>2, <1>4 DEF WindowInv, WindowsCover
<1>9. DedupInv
    BY <1>1, <1>2, <1>5 DEF DedupInv, DedupKeepsMeaning
<1>10. PeopleInv
    BY <1>1, <1>2, <1>6 DEF PeopleInv, PeopleStay
<1>11. QED
    BY <1>7, <1>8, <1>9, <1>10 DEF TextInv

LEMMA TextInvStep == TextInv /\ [TextNext]_textVars => TextInv'
<1> SUFFICES ASSUME TextInv, [TextNext]_textVars PROVE TextInv'
    OBVIOUS
<1>1. PackInv /\ WindowInv /\ DedupInv /\ PeopleInv
    BY DEF TextInv
<1>2. CASE Pack
  <2>1. UNCHANGED charVars /\ UNCHANGED itemVars /\ UNCHANGED peopleVars
    BY <1>2 DEF Pack
  <2>2. QED
    BY <1>1, <1>2, <2>1, PackKeeps, LoopsRest DEF TextInv
<1>3. CASE CutWindow
  <2>1. UNCHANGED packVars /\ UNCHANGED itemVars /\ UNCHANGED peopleVars
    BY <1>3 DEF CutWindow
  <2>2. QED
    BY <1>1, <1>3, <2>1, PackRests, WindowKeeps, LoopsRest DEF TextInv
<1>4. CASE DedupItem
  <2>1. UNCHANGED packVars /\ UNCHANGED charVars /\ UNCHANGED peopleVars
    BY <1>4 DEF DedupItem
  <2>2. QED
    BY <1>1, <1>4, <2>1, PackRests, DedupKeeps, LoopsRest DEF TextInv
<1>5. CASE DedupPerson
  <2>1. UNCHANGED packVars /\ UNCHANGED charVars /\ UNCHANGED itemVars
    BY <1>5 DEF DedupPerson
  <2>2. QED
    BY <1>1, <1>5, <2>1, PackRests, PeopleKept, LoopsRest DEF TextInv
<1>6. CASE UNCHANGED textVars
  <2>1. /\ UNCHANGED packVars /\ UNCHANGED charVars
        /\ UNCHANGED itemVars /\ UNCHANGED peopleVars
    BY <1>6 DEF textVars
  <2>2. QED
    BY <1>1, <2>1, PackRests, LoopsRest DEF TextInv
<1>7. QED
    BY <1>2, <1>3, <1>4, <1>5, <1>6 DEF TextNext

\* A long transcript reaches the model whole: every turn is new in exactly one chunk, a
\* chunk repeats the end of the one before, and is larger than it should be only for one
\* turn; no characters are left out without headers; what the model answers loses no
\* meaning and no participant when duplicates go.
THEOREM TextKeptHolds == TextSpec => []TextKept
<1>1. TextInit => TextInv
    BY TextInvInit
<1>2. TextInv /\ [TextNext]_textVars => TextInv'
    BY TextInvStep
<1>3. TextInv => TextKept
    BY DEF TextInv, PackInv, WindowInv, DedupInv, PeopleInv, TextKept
<1>4. QED
    BY <1>1, <1>2, <1>3, PTL DEF TextSpec

(***************************************************************************)
(* AssistantAnswer: a question, from its chat to its sources.              *)
(***************************************************************************)

(* Sums *)

LEMMA SumRecursion ==
    ASSUME NEW s \in Seq(Nat)
    PROVE  \E g \in [0..Len(s) -> Nat] :
               /\ g[0] = 0 /\ \A n \in 1..Len(s) : g[n] = g[n - 1] + s[n]
               /\ SumOf(s) = g[Len(s)]
<1> DEFINE N == Len(s)
           step == [vn \in Nat \X (1..N) |-> vn[1] + s[vn[2]]]
           Rec(g) == [n \in 0..N |-> IF n = 0 THEN 0 ELSE g[n - 1] + s[n]]
<1>1. N \in Nat /\ step \in [Nat \X (1..N) -> Nat]
    OBVIOUS
<1>2. PICK g \in [0..N -> Nat] :
          g[0] = 0 /\ \A n \in 1..N : g[n - 1] \in Nat /\ g[n] = step[<<g[n - 1], n>>]
  <2>1. PICK g : Recursive(g, N, Nat, 0, step)
    <3> HIDE DEF N, step
    <3>1. QED
        BY <1>1, RecursionExists
  <2>2. QED
    BY <2>1 DEF Recursive
<1>3. \A n \in 1..N : g[n] = g[n - 1] + s[n]
    BY <1>2
<1>4. g = Rec(g)
  <2>1. \A n \in 0..N : g[n] = IF n = 0 THEN 0 ELSE g[n - 1] + s[n]
    BY <1>1, <1>2, <1>3
  <2>2. QED
    BY <1>2, <2>1
<1>5. PICK h : SumOf(s) = h[N] /\ h = Rec(h)
  <2>1. Rec(g) = g
    BY <1>4
  <2>2. QED
    BY <2>1 DEF SumOf
<1>6. h[0] = 0 /\ \A n \in 1..N : h[n] = h[n - 1] + s[n]
  <2>1. h[0] = 0
    BY <1>1, <1>5
  <2>2. ASSUME NEW n \in 1..N PROVE h[n] = h[n - 1] + s[n]
    <3>1. n \in 0..N /\ n # 0
        BY <1>1
    <3>2. QED
        BY <1>5, <3>1
  <2>3. QED
    BY <2>1, <2>2
<1>7. h \in [0..N -> Nat]
  <2>1. ASSUME NEW n \in 1..N, h[n - 1] \in Nat PROVE h[n] \in Nat
    BY <1>6, <2>1
  <2>2. \A n \in 0..N : h[n] \in Nat
    <3>1. h[0] \in Nat
        BY <1>6
    <3> HIDE DEF N
    <3>2. QED
        BY <1>1, <2>1, <3>1, RecursionStays
  <2>3. h = [n \in 0..N |-> h[n]]
    BY <1>5
  <2>4. QED
    BY <2>2, <2>3
<1>8. QED
    BY <1>5, <1>6, <1>7

LEMMA SumUnique ==
    ASSUME NEW s \in Seq(Nat), NEW h, h[0] = 0, \A n \in 1..Len(s) : h[n] = h[n - 1] + s[n]
    PROVE  SumOf(s) = h[Len(s)] /\ SumOf(s) \in Nat
<1>1. PICK g \in [0..Len(s) -> Nat] :
          /\ g[0] = 0 /\ \A n \in 1..Len(s) : g[n] = g[n - 1] + s[n]
          /\ SumOf(s) = g[Len(s)]
    BY SumRecursion
<1> DEFINE V == {0}
           d == [n \in 0..Len(s) |-> IF h[n] = g[n] THEN 0 ELSE 1]
<1>2. PICK N \in Nat : N = Len(s)
    OBVIOUS
<1>3. \A n \in 0..N : d[n] \in V
  <2>1. d[0] \in V
    BY <1>1, <1>2
  <2>2. ASSUME NEW n \in 1..N, d[n - 1] \in V PROVE d[n] \in V
    <3>1. n - 1 \in 0..N /\ n \in 0..N
        BY <1>2
    <3>2. h[n - 1] = g[n - 1]
        BY <1>2, <2>2, <3>1
    <3>3. h[n] = g[n]
        BY <1>1, <1>2, <3>2
    <3>4. QED
        BY <1>2, <3>1, <3>3
  <2>3. QED
    <3> HIDE DEF d, V
    <3>1. QED
        BY <2>1, <2>2, RecursionStays
<1>4. h[N] = g[N]
  <2>1. N \in 0..N
    BY <1>2
  <2>2. QED
    BY <1>2, <1>3, <2>1
<1>5. g[N] \in Nat
    BY <1>1, <1>2
<1>6. QED
    BY <1>1, <1>2, <1>4, <1>5

\* The sum of a sequence and one more.
LEMMA SumAdds ==
    /\ SumOf(<<>>) = 0
    /\ \A s \in Seq(Nat) : \A e \in Nat :
           /\ SumOf(s) \in Nat
           /\ SumOf(Append(s, e)) = SumOf(s) + e
<1>1. SumOf(<<>>) = 0
  <2>1. <<>> \in Seq(Nat) /\ Len(<<>>) = 0
    BY EmptySeq
  <2> DEFINE h == [n \in {0} |-> 0]
  <2>2. h[0] = 0 /\ \A n \in 1..Len(<<>>) : h[n] = h[n - 1] + <<>>[n]
    BY <2>1
  <2>3. SumOf(<<>>) = h[Len(<<>>)]
    <3> HIDE DEF h
    <3>1. QED
        BY <2>1, <2>2, SumUnique
  <2>4. QED
    BY <2>1, <2>3
<1>2. ASSUME NEW s \in Seq(Nat), NEW e \in Nat
      PROVE  SumOf(s) \in Nat /\ SumOf(Append(s, e)) = SumOf(s) + e
  <2>1. PICK g \in [0..Len(s) -> Nat] :
            /\ g[0] = 0 /\ \A n \in 1..Len(s) : g[n] = g[n - 1] + s[n]
            /\ SumOf(s) = g[Len(s)]
    BY SumRecursion
  <2>2. PICK N \in Nat : N = Len(s)
    OBVIOUS
  <2> DEFINE h == [n \in 0..N + 1 |-> IF n <= N THEN g[n] ELSE g[N] + e]
  <2>3. PICK t \in Seq(Nat) : t = Append(s, e) /\ Len(t) = N + 1 /\ t[N + 1] = e
                              /\ \A n \in 1..N : t[n] = s[n]
    BY <2>2, AppendProperties
  <2>4. h[0] = 0 /\ \A n \in 1..N + 1 : h[n] = h[n - 1] + t[n]
    <3>1. h[0] = 0
        BY <2>1
    <3>2. ASSUME NEW n \in 1..N PROVE h[n] = h[n - 1] + t[n]
        BY <2>1, <2>2, <2>3
    <3>3. h[N + 1] = h[N] + t[N + 1]
        BY <2>3
    <3>4. \A n \in 1..N + 1 : n \in 1..N \/ n = N + 1
        OBVIOUS
    <3>5. (N + 1) - 1 = N
        OBVIOUS
    <3> HIDE DEF h
    <3>6. QED
        BY <3>1, <3>2, <3>3, <3>4, <3>5
  <2>5. SumOf(t) = h[N + 1]
    <3> HIDE DEF h
    <3>1. QED
        BY <2>3, <2>4, SumUnique
  <2>6. g[N] \in Nat
    BY <2>1, <2>2
  <2>7. QED
    BY <2>1, <2>2, <2>3, <2>5, <2>6
<1>3. QED
    BY <1>1, <1>2

\* And some more that are alike.
LEMMA SumOfAlike ==
    ASSUME NEW s \in Seq(Nat), NEW t \in Seq(Nat), NEW k \in Nat, NEW e \in Nat,
           Len(t) = Len(s) + k, \A n \in 1..Len(s) : t[n] = s[n],
           \A n \in Len(s) + 1..Len(s) + k : t[n] = e
    PROVE  SumOf(t) = SumOf(s) + k * e
<1>1. PICK g \in [0..Len(s) -> Nat] :
          /\ g[0] = 0 /\ \A n \in 1..Len(s) : g[n] = g[n - 1] + s[n]
          /\ SumOf(s) = g[Len(s)]
    BY SumRecursion
<1>2. PICK N \in Nat : N = Len(s)
    OBVIOUS
<1> DEFINE h == [n \in 0..N + k |-> IF n <= N THEN g[n] ELSE g[N] + (n - N) * e]
<1>3. h[0] = 0
    BY <1>1
<1>4. ASSUME NEW n \in 1..N PROVE h[n] = h[n - 1] + t[n]
    BY <1>1, <1>2
<1>5. ASSUME NEW n \in N + 1..N + k PROVE h[n] = h[n - 1] + t[n]
  <2>1. t[n] = e
    BY <1>2
  <2>2. PICK m \in Nat, u \in Nat : m = n - 1 - N /\ u = g[N]
    <3>1. n - 1 - N \in Nat /\ g[N] \in Nat
        BY <1>1, <1>2
    <3>2. QED
        BY <3>1
  <2>3. (m + 1) * e = m * e + e /\ m * e \in Nat
    OBVIOUS
  <2>4. h[n] = u + (m + 1) * e
    BY <2>2
  <2>5. h[n - 1] = u + m * e
    <3>1. CASE m = 0
      <4>1. n - 1 = N /\ m * e = 0
        BY <2>2, <3>1
      <4>2. h[N] = u
        BY <2>2
      <4>3. QED
        BY <2>2, <4>1, <4>2
    <3>2. CASE m # 0
        BY <2>2, <3>2
    <3>3. QED
        BY <3>1, <3>2
  <2>6. QED
    BY <2>1, <2>3, <2>4, <2>5
<1>6. SumOf(t) = h[N + k]
  <2>1. \A n \in 1..Len(t) : h[n] = h[n - 1] + t[n]
    <3>1. \A n \in 1..Len(t) : n \in 1..N \/ n \in N + 1..N + k
        BY <1>2
    <3> HIDE DEF h
    <3>2. QED
        BY <1>4, <1>5, <3>1
  <2> HIDE DEF h
  <2>2. QED
    BY <1>2, <1>3, <2>1, SumUnique
<1>7. CASE k = 0
    BY <1>1, <1>2, <1>6, <1>7
<1>8. CASE k # 0
  <2>1. h[N + k] = g[N] + k * e
    BY <1>8
  <2>2. QED
    BY <1>1, <1>2, <1>6, <2>1
<1>9. QED
    BY <1>7, <1>8

LEMMA GreatestIs ==
    ASSUME NEW n \in Nat, NEW K, K \subseteq 0..n, K # {}
    PROVE  Max(K) \in K /\ \A y \in K : y <= Max(K)
<1> DEFINE T == {k + 1 : k \in K}
<1>1. T \subseteq 1..n + 1 /\ T # {} /\ n + 1 \in Nat
  <2>1. ASSUME NEW k \in K PROVE k + 1 \in 1..n + 1
    <3>1. k \in 0..n
        OBVIOUS
    <3>2. QED
        BY <3>1
  <2>2. n + 1 \in Nat
    OBVIOUS
  <2>3. QED
    BY <2>1, <2>2
<1>2. PICK t \in T : \A u \in T : u <= t
  <2> HIDE DEF T
  <2>1. QED
    BY <1>1, GreatestThere
<1>3. PICK x \in K : t = x + 1
    OBVIOUS
<1>4. ASSUME NEW y \in K PROVE y <= x
  <2>1. y + 1 \in T /\ x \in 0..n /\ y \in 0..n
    OBVIOUS
  <2>2. y + 1 <= x + 1
    BY <1>2, <1>3, <2>1
  <2>3. QED
    BY <2>1, <2>2
<1>5. \A y \in K : x >= y
    BY <1>4
<1>6. Max(K) \in K /\ \A y \in K : Max(K) >= y
    BY <1>5 DEF Max
<1>7. \A y \in K : y \in Nat
    OBVIOUS
<1>8. QED
    BY <1>6, <1>7

LEMMA LeastIs ==
    ASSUME NEW K, K \subseteq Nat, K # {}
    PROVE  Min(K) \in K /\ \A y \in K : Min(K) <= y
<1>1. \E x \in K : \A y \in K : x <= y
    BY NatsHaveLeast
<1>2. QED
    BY <1>1 DEF Min

LEMMA AskConstants ==
    /\ {RrfK, FusionCandidates, GlobalLimit, OwnLimit, OtherLimit, CallCap, FallbackSources,
        WindowTokens} \subseteq Nat \ {0}
    /\ TokenBudget \in Nat /\ CardTokens \in Nat /\ MaxCards \in Nat /\ MaxTurns \in Nat
    /\ TurnSizes \subseteq Nat
    /\ IsFiniteSet(AskCalls) /\ NoScope \notin AskCalls /\ NoChat \notin Chats
    /\ NoTime \notin Nat
BY AskAssumption

(* The windows of a transcript *)
WindowsOf(n) == {w \in [from : 1..n, to : 2..n + 1] : w.from < w.to}
WindowFits(w, sizes) ==
    w.to = w.from + 1 \/ SumOf(SubSeq(sizes, w.from, w.to - 1)) <= WindowTokens

LEMMA WindowIs ==
    ASSUME NEW sizes \in Seq(Nat), NEW n \in 1..Len(sizes)
    PROVE  /\ Window(sizes, n) \in WindowsOf(Len(sizes))
           /\ Window(sizes, n).from = n /\ WindowFits(Window(sizes, n), sizes)
<1> DEFINE K == {to \in n + 1 .. Len(sizes) + 1 :
                    to = n + 1 \/ SumOf(SubSeq(sizes, n, to - 1)) <= WindowTokens}
<1>1. PICK N \in Nat : N = Len(sizes) /\ N + 1 \in Nat
    OBVIOUS
<1>2. n + 1 \in K /\ K \subseteq 0..N + 1
    BY <1>1
<1>3. Max(K) \in K
  <2> HIDE DEF K
  <2>1. QED
    BY <1>1, <1>2, GreatestIs
<1>4. Window(sizes, n) = [from |-> n, to |-> Max(K)]
    BY DEF Window, WindowEnd
<1>5. PICK e \in n + 1..N + 1 :
          e = Max(K) /\ (e = n + 1 \/ SumOf(SubSeq(sizes, n, e - 1)) <= WindowTokens)
    BY <1>1, <1>3
<1>6. Window(sizes, n) = [from |-> n, to |-> e]
    BY <1>4, <1>5
<1>7. n \in 1..N /\ e \in 2..N + 1 /\ n < e
    BY <1>1
<1>8. PICK w : w = Window(sizes, n) /\ w = [from |-> n, to |-> e]
    BY <1>6
<1>9. w \in WindowsOf(N) /\ w.from = n /\ w.to = e
    BY <1>7, <1>8 DEF WindowsOf
<1>10. WindowFits(w, sizes)
    BY <1>5, <1>9 DEF WindowFits
<1>11. QED
    BY <1>1, <1>8, <1>9, <1>10

LEMMA NextWindowIs ==
    ASSUME NEW n \in Nat, NEW w \in WindowsOf(n), w.to <= n
    PROVE  /\ NextWindow(w) \in 1..n /\ w.from < NextWindow(w) /\ NextWindow(w) <= w.to
           /\ NextWindow(w) < w.to \/ w.to - w.from = 1
<1>1. PICK f \in 1..n, t \in 2..n + 1 : w.from = f /\ w.to = t /\ f < t /\ t <= n
    BY DEF WindowsOf
<1>2. NextWindow(w) = IF t - f > 1 THEN t - 1 ELSE t
    BY <1>1 DEF NextWindow
<1>3. QED
    BY <1>1, <1>2

\* The windows one after the other.
After(w, sizes) == IF w.to > Len(sizes) THEN w ELSE Window(sizes, NextWindow(w))

LEMMA AfterIs ==
    ASSUME NEW sizes \in Seq(Nat), NEW w \in WindowsOf(Len(sizes)), WindowFits(w, sizes)
    PROVE  After(w, sizes) \in WindowsOf(Len(sizes)) /\ WindowFits(After(w, sizes), sizes)
<1>1. PICK N \in Nat : N = Len(sizes)
    OBVIOUS
<1>2. PICK t \in Nat : t = w.to
    BY <1>1 DEF WindowsOf
<1>3. CASE t > N
    BY <1>1, <1>2, <1>3 DEF After
<1>4. CASE t <= N
  <2>1. NextWindow(w) \in 1..N
    BY <1>1, <1>2, <1>4, NextWindowIs
  <2>2. After(w, sizes) = Window(sizes, NextWindow(w))
    BY <1>1, <1>2, <1>4 DEF After
  <2>3. QED
    BY <1>1, <2>1, <2>2, WindowIs
<1>5. QED
    BY <1>2, <1>3, <1>4

LEMMA WindowsRecursion ==
    ASSUME NEW sizes \in Seq(Nat), sizes # <<>>
    PROVE  \E f :
               /\ \A n \in 1..Len(sizes) : f[n] \in WindowsOf(Len(sizes)) /\ WindowFits(f[n], sizes)
               /\ f[1].from = 1
               /\ \A n \in 2..Len(sizes) : f[n] = After(f[n - 1], sizes)
               /\ Windows(sizes) =
                      SubSeq(f, 1, Min({n \in 1..Len(sizes) : f[n].to > Len(sizes)}))
<1>0. PICK N \in Nat : N = Len(sizes) /\ N # 0
    BY EmptySeq
<1> DEFINE V == {w \in WindowsOf(N) : WindowFits(w, sizes)}
           first == Window(sizes, 1)
           step == [vn \in V \X (1..N) |-> IF vn[2] = 1 THEN first ELSE After(vn[1], sizes)]
           Rec(f) == [n \in 1..N |-> IF n = 1 THEN Window(sizes, 1)
                                     ELSE LET before == f[n - 1]
                                          IN  IF before.to > Len(sizes) THEN before
                                              ELSE Window(sizes, NextWindow(before))]
<1>1. first \in V /\ first.from = 1
    BY <1>0, WindowIs
<1>2. \A w \in V : After(w, sizes) \in V
    BY <1>0, AfterIs
<1>3. step \in [V \X (1..N) -> V]
    BY <1>1, <1>2
<1>4. PICK g : Recursive(g, N, V, first, step)
  <2> HIDE DEF V, first, step
  <2>1. QED
    BY <1>1, <1>3, RecursionExists
<1>5. \A n \in 1..N : g[n - 1] \in V /\ g[n] = IF n = 1 THEN first ELSE After(g[n - 1], sizes)
    BY <1>4 DEF Recursive
<1> DEFINE e == [n \in 1..N |-> g[n]]
<1>6. e = Rec(e)
  <2>1. ASSUME NEW n \in 1..N
        PROVE  e[n] = IF n = 1 THEN first ELSE After(e[n - 1], sizes)
    <3>1. CASE n = 1
        BY <1>5, <3>1
    <3>2. CASE n # 1
      <4>1. n - 1 \in 1..N
        BY <3>2
      <4>2. QED
        BY <1>5, <3>2, <4>1
    <3>3. QED
        BY <3>1, <3>2
  <2>2. QED
    BY <2>1 DEF After
<1>7. PICK f : /\ f = Rec(f)
               /\ Windows(sizes) = SubSeq(f, 1, Min({n \in 1..Len(sizes) : f[n].to > Len(sizes)}))
  <2>1. Rec(e) = e
    BY <1>6
  <2> HIDE DEF e
  <2>2. QED
    BY <1>0, <2>1 DEF Windows
<1>8. f[1] = first /\ \A n \in 2..N : f[n] = After(f[n - 1], sizes)
  <2>1. ASSUME NEW n \in 1..N
        PROVE  f[n] = IF n = 1 THEN first ELSE After(f[n - 1], sizes)
    BY <1>7 DEF After
  <2>2. 1 \in 1..N /\ \A n \in 2..N : n \in 1..N /\ n # 1
    BY <1>0
  <2> HIDE DEF first
  <2>3. QED
    BY <2>1, <2>2
<1>9. \A n \in 1..N : f[n] \in V
  <2> DEFINE h == [n \in 0..N |-> IF n = 0 THEN first ELSE f[n]]
  <2>1. h[0] \in V
    BY <1>1
  <2>2. ASSUME NEW n \in 1..N, h[n - 1] \in V PROVE h[n] \in V
    <3>1. CASE n = 1
        BY <1>1, <1>8, <3>1
    <3>2. CASE n # 1
      <4>1. h[n - 1] = f[n - 1] /\ n \in 2..N
        BY <3>2
      <4>2. f[n - 1] \in V
        BY <2>2, <4>1
      <4>3. f[n] = After(f[n - 1], sizes) /\ h[n] = f[n]
        BY <1>8, <4>1
      <4> HIDE DEF V, h
      <4>4. QED
        BY <1>2, <4>2, <4>3
    <3>3. QED
        BY <3>1, <3>2
  <2>3. \A n \in 0..N : h[n] \in V
    <3> HIDE DEF h, V
    <3>1. QED
        BY <2>1, <2>2, RecursionStays
  <2>4. QED
    BY <2>3
<1>10. \A n \in 1..Len(sizes) : f[n] \in WindowsOf(Len(sizes)) /\ WindowFits(f[n], sizes)
    BY <1>0, <1>9
<1>11. f[1].from = 1
    BY <1>1, <1>8
<1>12. \A n \in 2..Len(sizes) : f[n] = After(f[n - 1], sizes)
    BY <1>0, <1>8
<1>13. Windows(sizes) = SubSeq(f, 1, Min({n \in 1..Len(sizes) : f[n].to > Len(sizes)}))
    BY <1>7
<1>14. QED
    BY <1>10, <1>11, <1>12, <1>13

\* Spans of which each begins no later than the one before it ends leave no gap.
LEMMA ChainCovers ==
    ASSUME NEW N \in Nat, NEW L \in 1..N, NEW from \in [1..N -> Nat], NEW to \in [1..N -> Nat],
           from[1] = 1, \A k \in 1..L - 1 : from[k + 1] <= to[k]
    PROVE  \A n \in 1..to[L] - 1 : \E k \in 1..L : n \in from[k]..to[k] - 1
<1> DEFINE C == {m \in Nat : m + 1 <= L =>
                    \A n \in 1..to[m + 1] - 1 : \E k \in 1..m + 1 : n \in from[k]..to[k] - 1}
<1>1. 0 \in C
    OBVIOUS
<1>2. ASSUME NEW m \in Nat, m \in C, m + 2 <= L
      PROVE  \A n \in 1..to[m + 2] - 1 : \E k \in 1..m + 2 : n \in from[k]..to[k] - 1
  <2>1. m + 1 <= L
    BY <1>2
  <2>2. \A n \in 1..to[m + 1] - 1 : \E k \in 1..m + 1 : n \in from[k]..to[k] - 1
    BY <1>2, <2>1
  <2> HIDE DEF C
  <2>3. PICK t \in Nat, f \in Nat, e \in Nat :
            t = to[m + 1] /\ f = from[m + 2] /\ e = to[m + 2] /\ f <= t
    <3>1. m + 1 \in 1..L - 1 /\ (m + 1) + 1 = m + 2 /\ m + 1 \in 1..N /\ m + 2 \in 1..N
        BY <1>2
    <3>2. from[m + 2] <= to[m + 1]
        BY <3>1
    <3>3. to[m + 1] \in Nat /\ from[m + 2] \in Nat /\ to[m + 2] \in Nat
        BY <3>1
    <3>4. QED
        BY <3>2, <3>3
  <2>4. \A n \in 1..t - 1 : \E k \in 1..m + 1 : n \in from[k]..to[k] - 1
    BY <2>2, <2>3
  <2>5. ASSUME NEW n \in 1..e - 1 PROVE \E k \in 1..m + 2 : n \in from[k]..to[k] - 1
    <3>1. n \in Nat /\ 1 <= n /\ n <= e - 1
        OBVIOUS
    <3>2. CASE n < t
      <4>1. n \in 1..t - 1
        BY <3>1, <3>2
      <4>2. PICK k \in 1..m + 1 : n \in from[k]..to[k] - 1
        BY <2>4, <4>1
      <4>3. k \in 1..m + 2
        OBVIOUS
      <4>4. QED
        BY <4>2, <4>3
    <3>3. CASE ~(n < t)
      <4>1. n \in f..e - 1
        BY <2>3, <3>1, <3>3
      <4>2. m + 2 \in 1..m + 2
        OBVIOUS
      <4>3. QED
        BY <2>3, <4>1, <4>2
    <3>4. QED
        BY <3>1, <3>2, <3>3
  <2>6. QED
    BY <2>3, <2>5
<1>3. ASSUME NEW m \in Nat, m \in C PROVE m + 1 \in C
  <2>1. (m + 1) + 1 = m + 2 /\ m + 1 \in Nat
    OBVIOUS
  <2>2. QED
    BY <1>2, <1>3, <2>1
<1>4. Nat \subseteq C
  <2> HIDE DEF C
  <2>1. QED
    BY <1>1, <1>3, SetInduction
<1>5. L - 1 \in Nat /\ (L - 1) + 1 = L /\ L <= L
    OBVIOUS
<1>6. L - 1 \in C
  <2> HIDE DEF C
  <2>1. QED
    BY <1>4, <1>5
<1>7. QED
    BY <1>5, <1>6

\* The windows take every turn, and go on from each other.
Covered(ws, sizes) ==
    /\ \A n \in 1..Len(sizes) : \E k \in 1..Len(ws) : n \in ws[k].from .. ws[k].to - 1
    /\ \A k \in 1 .. Len(ws) - 1 :
           /\ ws[k].from < ws[k + 1].from
           /\ ws[k + 1].from < ws[k].to \/ ws[k].to - ws[k].from = 1
    /\ \A k \in 1..Len(ws) : WindowFits(ws[k], sizes)

LEMMA WindowsAre ==
    ASSUME NEW sizes \in Seq(Nat)
    PROVE  /\ Windows(sizes) \in Seq(WindowsOf(Len(sizes)))
           /\ Covered(Windows(sizes), sizes)
<1>1. CASE sizes = <<>>
  <2>1. Windows(sizes) = <<>>
    BY <1>1 DEF Windows
  <2>2. Len(sizes) = 0
    BY <1>1, EmptySeq
  <2>3. <<>> \in Seq(WindowsOf(0)) /\ Len(<<>>) = 0
    BY EmptySeq
  <2>4. Covered(<<>>, sizes)
    BY <2>2, <2>3 DEF Covered
  <2>5. QED
    BY <2>1, <2>2, <2>3, <2>4
<1>2. CASE sizes # <<>>
  <2>1. PICK N \in Nat : N = Len(sizes) /\ N # 0
    BY <1>2, EmptySeq
  <2>2. PICK f :
            /\ \A n \in 1..N : f[n] \in WindowsOf(N) /\ WindowFits(f[n], sizes)
            /\ f[1].from = 1
            /\ \A n \in 2..N : f[n] = After(f[n - 1], sizes)
            /\ Windows(sizes) = SubSeq(f, 1, Min({n \in 1..N : f[n].to > N}))
    BY <1>2, <2>1, WindowsRecursion
  <2> DEFINE from == [n \in 1..N |-> f[n].from]
             to == [n \in 1..N |-> f[n].to]
             K == {n \in 1..N : f[n].to > N}
  <2>3. \A n \in 1..N : from[n] \in 1..N /\ to[n] \in 2..N + 1 /\ from[n] < to[n]
    BY <2>2 DEF WindowsOf
  <2>4. ASSUME NEW n \in 2..N
        PROVE  /\ n - 1 \in 1..N
               /\ to[n - 1] > N => to[n] = to[n - 1]
               /\ to[n - 1] <= N =>
                     /\ from[n - 1] < from[n] /\ from[n] <= to[n - 1]
                     /\ from[n] < to[n - 1] \/ to[n - 1] - from[n - 1] = 1
    <3>1. n - 1 \in 1..N /\ n \in 1..N
        OBVIOUS
    <3>2. PICK w \in WindowsOf(N) : w = f[n - 1]
        BY <2>2, <3>1
    <3>3. f[n] = IF w.to > N THEN w ELSE Window(sizes, NextWindow(w))
        BY <2>1, <2>2, <3>2 DEF After
    <3>4. from[n - 1] = w.from /\ to[n - 1] = w.to /\ from[n] = f[n].from /\ to[n] = f[n].to
        BY <3>1, <3>2
    <3>5. ASSUME w.to <= N
          PROVE  /\ w.from < f[n].from /\ f[n].from <= w.to
                 /\ f[n].from < w.to \/ w.to - w.from = 1
      <4>1. /\ NextWindow(w) \in 1..N /\ w.from < NextWindow(w) /\ NextWindow(w) <= w.to
            /\ NextWindow(w) < w.to \/ w.to - w.from = 1
        BY <3>5, NextWindowIs
      <4>2. w.to \in 2..N + 1
        BY DEF WindowsOf
      <4>3. f[n] = Window(sizes, NextWindow(w))
        BY <3>3, <3>5, <4>2
      <4>4. f[n].from = NextWindow(w)
        BY <2>1, <4>1, <4>3, WindowIs
      <4>5. QED
        BY <4>1, <4>4
    <3>6. w.to > N => f[n] = w
        BY <3>3
    <3> HIDE DEF from, to
    <3>7. QED
        BY <3>1, <3>4, <3>5, <3>6
  <2> HIDE DEF from, to
  <2>5. K # {}
    <3> DEFINE T == {n \in Nat : n + 1 <= N => to[n + 1] > N \/ from[n + 1] >= n + 1}
    <3>1. 0 \in T
      <4>1. from[1] = 1
        BY <2>1, <2>2 DEF from
      <4>2. QED
        BY <4>1
    <3>2. ASSUME NEW n \in Nat, n \in T PROVE n + 1 \in T
      <4>1. ASSUME n + 2 <= N PROVE to[n + 2] > N \/ from[n + 2] >= n + 2
        <5>1. n + 1 \in 1..N /\ n + 2 \in 2..N /\ (n + 2) - 1 = n + 1 /\ n + 2 \in 1..N
            BY <4>1
        <5>2. to[n + 1] > N \/ from[n + 1] >= n + 1
            BY <3>2, <5>1
        <5>3. CASE to[n + 1] > N
            BY <2>4, <5>1, <5>3
        <5>4. CASE to[n + 1] <= N
          <6>1. from[n + 1] < from[n + 2] /\ from[n + 1] >= n + 1
            BY <2>3, <2>4, <5>1, <5>2, <5>4
          <6>2. from[n + 1] \in Nat /\ from[n + 2] \in Nat
            BY <2>3, <5>1
          <6>3. QED
            BY <6>1, <6>2
        <5>5. QED
            BY <2>3, <5>1, <5>3, <5>4
      <4>2. (n + 1) + 1 = n + 2
        OBVIOUS
      <4>3. QED
        BY <4>1, <4>2
    <3>3. Nat \subseteq T
      <4> HIDE DEF T
      <4>1. QED
        BY <3>1, <3>2, SetInduction
    <3>4. to[N] > N \/ from[N] >= N
      <4>1. N - 1 \in Nat /\ (N - 1) + 1 = N /\ N <= N
        BY <2>1
      <4>2. N - 1 \in T
        <5> HIDE DEF T
        <5>1. QED
            BY <3>3, <4>1
      <4>3. QED
        BY <4>1, <4>2
    <3>5. to[N] > N
        BY <2>1, <2>3, <3>4
    <3>6. QED
        BY <2>1, <3>5 DEF to
  <2>6. PICK L \in 1..N : L = Min(K) /\ to[L] > N /\ \A k \in 1..L - 1 : to[k] <= N
    <3>1. Min(K) \in K /\ \A k \in K : Min(K) <= k
      <4>1. K \subseteq Nat
        OBVIOUS
      <4> HIDE DEF K
      <4>2. QED
        BY <2>5, <4>1, LeastIs
    <3>2. \A k \in 1..N : k \in K <=> to[k] > N
        BY DEF to
    <3>3. ASSUME NEW k \in 1..Min(K) - 1 PROVE to[k] <= N
      <4>1. k \in 1..N /\ k < Min(K)
        BY <3>1
      <4>2. k \notin K
        BY <3>1, <4>1
      <4>3. QED
        BY <2>3, <3>2, <4>1, <4>2
    <3>4. QED
        BY <3>1, <3>2, <3>3
  <2>7. PICK ws \in Seq(WindowsOf(N)) :
            ws = Windows(sizes) /\ Len(ws) = L /\ \A k \in 1..L : ws[k] = f[k]
    <3>1. \A k \in 1..L : f[k] \in WindowsOf(N)
        BY <2>2
    <3>2. Windows(sizes) = SubSeq(f, 1, L)
        BY <2>2, <2>6
    <3>3. QED
        BY <3>1, <3>2, SubSeqProperties
  <2>8. \A k \in 1..L : ws[k].from = from[k] /\ ws[k].to = to[k] /\ WindowFits(ws[k], sizes)
    BY <2>2, <2>7 DEF from, to
  <2>9. \A k \in 1..L - 1 :
            /\ from[k] < from[k + 1] /\ from[k + 1] <= to[k]
            /\ from[k + 1] < to[k] \/ to[k] - from[k] = 1
    <3>1. ASSUME NEW k \in 1..L - 1
          PROVE  /\ from[k] < from[k + 1] /\ from[k + 1] <= to[k]
                 /\ from[k + 1] < to[k] \/ to[k] - from[k] = 1
      <4>1. k + 1 \in 2..N /\ (k + 1) - 1 = k
        OBVIOUS
      <4>2. QED
        BY <2>4, <2>6, <4>1
    <3>2. QED
        BY <3>1
  <2>10. \A n \in 1..N : \E k \in 1..L : n \in from[k]..to[k] - 1
    <3>1. from \in [1..N -> Nat] /\ to \in [1..N -> Nat]
      <4>1. \A n \in 1..N : from[n] \in Nat /\ to[n] \in Nat
        BY <2>3
      <4>2. QED
        BY <4>1 DEF from, to
    <3>2. from[1] = 1
        BY <2>1, <2>2 DEF from
    <3>3. \A k \in 1..L - 1 : from[k + 1] <= to[k]
        BY <2>9
    <3>4. \A n \in 1..to[L] - 1 : \E k \in 1..L : n \in from[k]..to[k] - 1
      <4> HIDE DEF K
      <4>1. QED
        BY <3>1, <3>2, <3>3, ChainCovers
    <3>5. ASSUME NEW n \in 1..N PROVE n \in 1..to[L] - 1
      <4>1. to[L] \in 2..N + 1
        BY <2>3
      <4>2. QED
        BY <2>6, <4>1
    <3> HIDE DEF K
    <3>6. QED
        BY <3>4, <3>5
  <2>11. Covered(ws, sizes)
    <3>1. \A n \in 1..N : \E k \in 1..L : n \in ws[k].from..ws[k].to - 1
        BY <2>8, <2>10
    <3>2. \A k \in 1..L - 1 :
              /\ ws[k].from < ws[k + 1].from
              /\ ws[k + 1].from < ws[k].to \/ ws[k].to - ws[k].from = 1
      <4>1. \A k \in 1..L - 1 : k \in 1..L /\ k + 1 \in 1..L
        OBVIOUS
      <4>2. QED
        BY <2>8, <2>9, <4>1
    <3>3. QED
        BY <2>1, <2>7, <2>8, <3>1, <3>2 DEF Covered
  <2>12. QED
    BY <2>1, <2>7, <2>11
<1>3. QED
    BY <1>1, <1>2

LEMMA CoverHolds == FragmentsCover
<1>1. ASSUME NEW sizes \in SeqOf(TurnSizes, MaxTurns)
      PROVE  sizes \in Seq(Nat) /\ DOMAIN sizes = 1..Len(sizes)
  <2>1. PICK m \in 0..MaxTurns : sizes \in [1..m -> TurnSizes]
    BY DEF SeqOf
  <2>2. m \in Nat /\ sizes \in [1..m -> Nat]
    <3>1. TurnSizes \subseteq Nat /\ m \in Nat
        BY AskConstants
    <3>2. \A n \in 1..m : sizes[n] \in Nat
        BY <2>1, <3>1
    <3>3. QED
        BY <2>1, <3>1, <3>2
  <2>3. sizes \in Seq(Nat)
    BY <2>2
  <2>4. QED
    BY <2>3
<1>2. ASSUME NEW sizes \in SeqOf(TurnSizes, MaxTurns)
      PROVE  /\ DOMAIN sizes = 1..Len(sizes)
             /\ DOMAIN Windows(sizes) = 1..Len(Windows(sizes))
             /\ Covered(Windows(sizes), sizes)
    BY <1>1, WindowsAre
<1>3. QED
    BY <1>2 DEF FragmentsCover, Covered, WindowFits

(* The passages of the calls *)
LEMMA FlattenIs ==
    ASSUME NEW S, NEW seqs \in Seq(Seq(S))
    PROVE  FlattenSeq(seqs) \in Seq(S)
<1>1. PICK N \in Nat : N = Len(seqs)
    OBVIOUS
<1>2. CASE N = 0
  <2>1. seqs = <<>>
    BY <1>1, <1>2, EmptySeq
  <2>2. FlattenSeq(seqs) = seqs
    BY <1>1, <1>2 DEF FlattenSeq
  <2>3. QED
    BY <2>1, <2>2, EmptySeq
<1>3. CASE N # 0
  <2> DEFINE V == Seq(S)
             step == [vn \in V \X (1..N) |-> IF vn[2] = 1 THEN seqs[1] ELSE vn[1] \o seqs[vn[2]]]
             Rec(f) == [i \in 1..N |-> IF i = 1 THEN seqs[i] ELSE f[i - 1] \o seqs[i]]
  <2>1. \A i \in 1..N : seqs[i] \in V
    BY <1>1
  <2>2. seqs[1] \in V /\ step \in [V \X (1..N) -> V]
    BY <1>3, <2>1
  <2>3. PICK g : Recursive(g, N, V, seqs[1], step)
    <3> HIDE DEF V, step
    <3>1. QED
        BY <2>2, RecursionExists
  <2>4. \A i \in 1..N : g[i - 1] \in V /\ g[i] = IF i = 1 THEN seqs[1] ELSE g[i - 1] \o seqs[i]
    BY <2>3 DEF Recursive
  <2> DEFINE e == [i \in 1..N |-> g[i]]
  <2>5. e = Rec(e)
    <3>1. ASSUME NEW i \in 1..N
          PROVE  e[i] = IF i = 1 THEN seqs[i] ELSE e[i - 1] \o seqs[i]
      <4>1. CASE i = 1
        BY <2>4, <4>1
      <4>2. CASE i # 1
        <5>1. i - 1 \in 1..N
            BY <4>2
        <5>2. QED
            BY <2>4, <4>2, <5>1
      <4>3. QED
        BY <4>1, <4>2
    <3>2. QED
        BY <3>1
  <2>6. PICK f : f = Rec(f) /\ FlattenSeq(seqs) = f[N]
    <3>1. Rec(e) = e
        BY <2>5
    <3> HIDE DEF e
    <3>2. QED
        BY <1>1, <1>3, <3>1 DEF FlattenSeq
  <2>7. \A i \in 0..N - 1 : f[i + 1] \in V
    <3> DEFINE h == [i \in 0..N - 1 |-> f[i + 1]]
    <3>1. h[0] \in V
        BY <1>3, <2>1, <2>6
    <3>2. ASSUME NEW i \in 1..N - 1, h[i - 1] \in V PROVE h[i] \in V
      <4>1. /\ i + 1 \in 1..N /\ i + 1 # 1 /\ (i + 1) - 1 = i /\ (i - 1) + 1 = i
            /\ i \in 0..N - 1 /\ i - 1 \in 0..N - 1
        OBVIOUS
      <4>2. f[i + 1] = f[i] \o seqs[i + 1]
        BY <2>6, <4>1
      <4>3. f[i] \in V /\ seqs[i + 1] \in V
        BY <2>1, <3>2, <4>1
      <4>4. f[i + 1] \in V
        BY <4>2, <4>3, ConcatProperties
      <4>5. QED
        BY <4>1, <4>4
    <3>3. N - 1 \in Nat
        BY <1>3
    <3>4. \A i \in 0..N - 1 : h[i] \in V
      <4> HIDE DEF h, V
      <4>1. QED
        BY <3>1, <3>2, <3>3, RecursionStays
    <3>5. QED
        BY <3>4
  <2>8. N - 1 \in 0..N - 1 /\ (N - 1) + 1 = N
    BY <1>3
  <2>9. QED
    BY <2>6, <2>7, <2>8
<1>4. QED
    BY <1>2, <1>3

Indexed(p) ==
    /\ p.call \in AskCalls /\ p.kind \in {"transcript", "recap", "item"} /\ p.tokens \in Nat
    /\ p.kind = "transcript" => p.start # NoTime
PassagesOf(c) == Range(TranscriptPassages(c)) \cup Range(CallRows[c])
AllPassages == UNION {PassagesOf(c) : c \in AskCalls}

LEMMA PassagesAre ==
    ASSUME NEW c \in AskCalls
    PROVE  /\ TranscriptPassages(c) \o CallRows[c] \in Seq(AllPassages)
           /\ \A p \in PassagesOf(c) : Indexed(p)
<1> DEFINE turns == CallTurns[c]
           sizes == [n \in DOMAIN turns |-> turns[n].tokens]
<1>1. /\ CallTurns[c] \in Seq(Range(CallTurns[c])) /\ CallRows[c] \in Seq(Range(CallRows[c]))
      /\ \A turn \in Range(CallTurns[c]) : turn.start \in Nat /\ turn.tokens \in Nat
      /\ \A row \in Range(CallRows[c]) :
             row.call = c /\ row.kind \in {"recap", "item"} /\ row.tokens \in Nat
    BY AskAssumption
<1>2. PICK N \in Nat : N = Len(turns) /\ DOMAIN turns = 1..N
    BY <1>1
<1>3. \A n \in 1..N : turns[n].start \in Nat /\ turns[n].tokens \in Nat
  <2>1. \A n \in 1..N : turns[n] \in Range(turns)
    BY <1>2 DEF Range
  <2>2. QED
    BY <1>1, <2>1
<1>4. sizes \in Seq(Nat) /\ Len(sizes) = N
    BY <1>2, <1>3
<1>5. PICK ws \in Seq(WindowsOf(N)) : ws = Windows(sizes)
  <2> HIDE DEF sizes
  <2>1. QED
    BY <1>4, WindowsAre
<1>6. PICK ps :
                /\ ps = TranscriptPassages(c) /\ DOMAIN ps = 1..Len(ws)
                /\ \A n \in 1..Len(ws) :
                       /\ ps[n].call = c /\ ps[n].kind = "transcript"
                       /\ ps[n].start = turns[ws[n].from].start
                       /\ ps[n].tokens = SumOf(SubSeq(sizes, ws[n].from, ws[n].to - 1))
                /\ ps = [n \in 1..Len(ws) |-> ps[n]]
  <2> DEFINE Text(w) == SubSeq([n \in DOMAIN turns |-> turns[n].words], w.from, w.to - 1)
             Passage(w) ==
                 [call |-> c, kind |-> "transcript", start |-> turns[w.from].start,
                  end |-> IF w.to > Len(turns) THEN NoTime ELSE turns[w.to].start,
                  text |-> Text(w), tokens |-> SumOf(SubSeq(sizes, w.from, w.to - 1))]
             passages == [n \in 1..Len(ws) |-> Passage(ws[n])]
  <2>1. DOMAIN ws = 1..Len(ws)
    OBVIOUS
  <2>2. TranscriptPassages(c) = [n \in DOMAIN ws |-> Passage(ws[n])]
    BY <1>5 DEF TranscriptPassages
  <2>3. TranscriptPassages(c) = passages
    BY <2>1, <2>2
  <2>4. \A n \in 1..Len(ws) :
            /\ passages[n].call = c /\ passages[n].kind = "transcript"
            /\ passages[n].start = turns[ws[n].from].start
            /\ passages[n].tokens = SumOf(SubSeq(sizes, ws[n].from, ws[n].to - 1))
    OBVIOUS
  <2>5. DOMAIN passages = 1..Len(ws) /\ passages = [n \in 1..Len(ws) |-> passages[n]]
    OBVIOUS
  <2> HIDE DEF passages
  <2>6. QED
    BY <2>3, <2>4, <2>5
<1>7. ASSUME NEW n \in 1..Len(ws) PROVE Indexed(ps[n])
  <2>1. PICK f \in 1..N, t \in 2..N + 1 : ws[n].from = f /\ ws[n].to = t
    BY DEF WindowsOf
  <2>2. SubSeq(sizes, f, t - 1) \in Seq(Nat)
    <3>1. \A k \in f..t - 1 : sizes[k] \in Nat
        BY <1>2, <1>3
    <3>2. f \in Int /\ t - 1 \in Int
        OBVIOUS
    <3> HIDE DEF sizes
    <3>3. QED
        BY <3>1, <3>2, SubSeqProperties
  <2>3. SumOf(SubSeq(sizes, f, t - 1)) \in Nat
    BY <2>2, SumAdds
  <2>4. ps[n].start \in Nat
    BY <1>3, <1>6, <2>1
  <2>5. ps[n].start # NoTime
    BY <2>4, AskConstants
  <2>6. ps[n].tokens \in Nat /\ ps[n].call = c /\ ps[n].kind = "transcript"
    BY <1>6, <2>1, <2>3
  <2>7. QED
    BY <2>5, <2>6 DEF Indexed
<1>8. ps \in Seq(Range(ps))
  <2>1. \A n \in 1..Len(ws) : ps[n] \in Range(ps)
    BY <1>6 DEF Range
  <2>2. ps \in [1..Len(ws) -> Range(ps)]
    <3>1. [n \in 1..Len(ws) |-> ps[n]] \in [1..Len(ws) -> Range(ps)]
        BY <2>1
    <3>2. ps = [n \in 1..Len(ws) |-> ps[n]]
        BY <1>6, Zenon
    <3>3. QED
        BY <3>1, <3>2, Zenon
  <2>3. PICK m \in Nat : m = Len(ws)
    OBVIOUS
  <2>4. QED
    BY <2>2, <2>3
<1>9. ASSUME NEW p \in PassagesOf(c) PROVE Indexed(p)
  <2>1. CASE p \in Range(ps)
    <3>1. PICK n \in 1..Len(ws) : p = ps[n]
        BY <1>6, <2>1 DEF Range
    <3>2. QED
        BY <1>7, <3>1
  <2>2. CASE p \in Range(CallRows[c])
    BY <1>1, <2>2 DEF Indexed
  <2>3. QED
    BY <1>6, <2>1, <2>2 DEF PassagesOf
<1>10. Range(ps) \subseteq AllPassages /\ Range(CallRows[c]) \subseteq AllPassages
  <2>1. PassagesOf(c) \subseteq AllPassages
    BY DEF AllPassages
  <2>2. PassagesOf(c) = Range(ps) \cup Range(CallRows[c])
    BY <1>6 DEF PassagesOf
  <2>3. QED
    BY <2>1, <2>2
<1>11. ps \in Seq(AllPassages) /\ CallRows[c] \in Seq(AllPassages)
    BY <1>1, <1>8, <1>10, SeqMonotonic
<1>12. ps \o CallRows[c] \in Seq(AllPassages)
    BY <1>11, ConcatProperties
<1>13. QED
    BY <1>6, <1>9, <1>12

LEMMA LibraryIs ==
    /\ Library \in Seq(AllPassages) /\ \A p \in AllPassages : Indexed(p)
    /\ Ids = 1..Len(Library) /\ IsFiniteSet(Ids)
    /\ \A i \in Ids : Library[i] \in AllPassages /\ Indexed(Library[i])
<1>1. PICK n \in Nat : n = Cardinality(AskCalls) /\ ExistsBijection(1..n, AskCalls)
    BY AskConstants, FS_CardinalityType
<1>2. PICK order \in [1..n -> AskCalls] : order = SetToSeq(AskCalls)
  <2>1. \E f \in [1..n -> AskCalls] : IsInjective(f)
    BY <1>1 DEF ExistsBijection, Bijection, Injection, IsInjective
  <2>2. SetToSeq(AskCalls) \in [1..n -> AskCalls]
    BY <1>1, <2>1 DEF SetToSeq
  <2>3. QED
    BY <2>2
<1> DEFINE seqs == [m \in DOMAIN order |-> TranscriptPassages(order[m]) \o CallRows[order[m]]]
<1>3. seqs \in Seq(Seq(AllPassages))
  <2>1. \A m \in 1..n :
            TranscriptPassages(order[m]) \o CallRows[order[m]] \in Seq(AllPassages)
    BY PassagesAre
  <2>2. seqs \in [1..n -> Seq(AllPassages)]
    BY <2>1
  <2> HIDE DEF seqs
  <2>3. QED
    BY <2>2
<1>4. Library = FlattenSeq(seqs)
    BY <1>2 DEF Library
<1>5. Library \in Seq(AllPassages)
  <2> HIDE DEF seqs
  <2>1. QED
    BY <1>3, <1>4, FlattenIs
<1>6. ASSUME NEW p \in AllPassages PROVE Indexed(p)
    BY PassagesAre DEF AllPassages
<1>7. Ids = 1..Len(Library) /\ Len(Library) \in Nat
    BY <1>5 DEF Ids
<1>8. IsFiniteSet(Ids)
    BY <1>7, FS_Interval
<1>9. \A i \in Ids : Library[i] \in AllPassages
    BY <1>5, <1>7
<1>10. QED
    BY <1>5, <1>6, <1>7, <1>8, <1>9

(* What goes into the prompt *)
LEMMA OneMore ==
    ASSUME NEW S, NEW f \in Seq(S), NEW p \in S, NEW g, g = Append(f, p), NEW N, N = Len(f)
    PROVE  /\ g \in Seq(S) /\ Len(g) = N + 1 /\ g[N + 1] = p
           /\ \A n \in 1..N : g[n] = f[n]
<1>1. g \in Seq(S) /\ Len(g) = N + 1
    OBVIOUS
<1>2. g[N + 1] = p
    OBVIOUS
<1>3. \A n \in 1..N : g[n] = f[n]
    OBVIOUS
<1>4. QED
    BY <1>1, <1>2, <1>3

FragSet == AllPassages \cup {Card(n) : n \in 1..MaxCards}

LEMMA FragIs ==
    ASSUME NEW p \in FragSet
    PROVE  /\ p.tokens \in Nat
           /\ p.kind # "contact" => p \in AllPassages /\ Indexed(p)
           /\ p \in AllPassages => p.kind # "contact" /\ Indexed(p)
<1>1. CASE p \in AllPassages
  <2>1. Indexed(p)
    BY <1>1, LibraryIs
  <2>2. p.tokens \in Nat /\ p.kind \in {"transcript", "recap", "item"}
    BY <2>1 DEF Indexed
  <2>3. p.kind # "contact"
    BY <2>2
  <2>4. QED
    BY <1>1, <2>1, <2>2, <2>3
<1>2. CASE p \notin AllPassages
  <2>1. PICK n \in 1..MaxCards : p = Card(n)
    BY <1>2 DEF FragSet
  <2>2. p.tokens = CardTokens /\ p.kind = "contact"
    BY <2>1 DEF Card
  <2>3. QED
    BY <1>2, <2>2, AskConstants
<1>3. QED
    BY <1>1, <1>2

Sizes(f) == [n \in DOMAIN f |-> f[n].tokens]

LEMMA SizesAre ==
    ASSUME NEW f \in Seq(FragSet)
    PROVE  /\ Sizes(f) \in Seq(Nat) /\ Len(Sizes(f)) = Len(f) /\ Total(f) = SumOf(Sizes(f))
           /\ \A n \in 1..Len(f) : Sizes(f)[n] = f[n].tokens
<1>1. PICK N \in Nat : N = Len(f) /\ DOMAIN f = 1..N
    OBVIOUS
<1>2. \A n \in 1..N : f[n].tokens \in Nat
  <2>1. \A n \in 1..N : f[n] \in FragSet
    BY <1>1
  <2>2. QED
    BY <2>1, FragIs
<1>3. [n \in 1..N |-> f[n].tokens] \in [1..N -> Nat]
    BY <1>2
<1>4. PICK t \in [1..N -> Nat] : t = [n \in 1..N |-> f[n].tokens]
    BY <1>3
<1>5. t \in Seq(Nat) /\ Len(t) = N /\ \A n \in 1..N : t[n] = f[n].tokens
    BY <1>4
<1>6. Sizes(f) = t
    BY <1>1, <1>4 DEF Sizes
<1>7. Total(f) = SumOf(Sizes(f))
    BY DEF Total, Sizes
<1>8. QED
    BY <1>1, <1>5, <1>6, <1>7

LEMMA TotalAdds ==
    /\ Total(<<>>) = 0
    /\ \A f \in Seq(FragSet) : \A p \in FragSet :
           Total(f) \in Nat /\ Total(Append(f, p)) = Total(f) + p.tokens
<1>1. Total(<<>>) = 0
  <2>1. <<>> \in Seq(FragSet) /\ Len(<<>>) = 0
    BY EmptySeq
  <2>2. Sizes(<<>>) \in Seq(Nat) /\ Len(Sizes(<<>>)) = 0 /\ Total(<<>>) = SumOf(Sizes(<<>>))
    BY <2>1, SizesAre
  <2>3. Sizes(<<>>) = <<>>
    BY <2>2, EmptySeq
  <2>4. QED
    BY <2>2, <2>3, SumAdds
<1>2. ASSUME NEW f \in Seq(FragSet), NEW p \in FragSet
      PROVE  Total(f) \in Nat /\ Total(Append(f, p)) = Total(f) + p.tokens
  <2>1. PICK N \in Nat : N = Len(f)
    OBVIOUS
  <2> DEFINE g == Append(f, p)
  <2>2. g \in Seq(FragSet) /\ Len(g) = N + 1 /\ g[N + 1] = p /\ \A n \in 1..N : g[n] = f[n]
    BY <2>1, OneMore
  <2> HIDE DEF g
  <2>3. PICK s \in Seq(Nat) : s = Sizes(f) /\ Len(s) = N /\ Total(f) = SumOf(s)
                              /\ \A n \in 1..N : s[n] = f[n].tokens
    BY <2>1, SizesAre
  <2>4. PICK t \in Seq(Nat) : t = Sizes(g) /\ Len(t) = N + 1 /\ Total(g) = SumOf(t)
                              /\ \A n \in 1..N + 1 : t[n] = g[n].tokens
    BY <2>2, SizesAre
  <2>5. PICK e \in Nat : e = p.tokens
    BY FragIs
  <2> DEFINE u == Append(s, e)
  <2>6. /\ u \in Seq(Nat) /\ Len(u) = N + 1 /\ u[N + 1] = e
        /\ \A n \in 1..N : u[n] = s[n]
    BY <2>3, OneMore
  <2>7. SumOf(s) \in Nat /\ SumOf(u) = SumOf(s) + e
    BY SumAdds
  <2> HIDE DEF u
  <2>8. t = u
    <3>1. ASSUME NEW n \in 1..N + 1 PROVE t[n] = u[n]
      <4>1. CASE n \in 1..N
        BY <2>2, <2>3, <2>4, <2>6, <4>1
      <4>2. CASE n = N + 1
        BY <2>2, <2>4, <2>5, <2>6, <4>2
      <4>3. QED
        BY <4>1, <4>2
    <3>2. QED
        BY <2>4, <2>6, <3>1, SeqEqual
  <2>9. QED
    BY <2>3, <2>4, <2>5, <2>8, <2>7 DEF g
<1>3. QED
    BY <1>1, <1>2

\* How many of a call there are.
OfCall(f, c) == {n \in 1..Len(f) : f[n].call = c}

LEMMA CountAdds ==
    ASSUME NEW S, NEW f \in Seq(S), NEW p \in S, NEW c
    PROVE  /\ Cardinality(OfCall(f, c)) \in Nat /\ IsFiniteSet(OfCall(f, c))
           /\ Cardinality(OfCall(Append(f, p), c)) =
                  IF p.call = c THEN Cardinality(OfCall(f, c)) + 1 ELSE Cardinality(OfCall(f, c))
<1>1. PICK N \in Nat : N = Len(f)
    OBVIOUS
<1> DEFINE g == Append(f, p)
<1>2. /\ g \in Seq(S) /\ Len(g) = N + 1 /\ g[N + 1] = p
      /\ \A n \in 1..N : g[n] = f[n]
    BY <1>1, OneMore
<1> HIDE DEF g
<1>3. IsFiniteSet(OfCall(f, c)) /\ Cardinality(OfCall(f, c)) \in Nat
  <2>1. IsFiniteSet(1..N)
    BY FS_Interval
  <2>2. OfCall(f, c) \in SUBSET (1..N)
    BY <1>1 DEF OfCall
  <2>3. QED
    BY <2>1, <2>2, FS_Subset, FS_CardinalityType
<1>4. N + 1 \notin OfCall(f, c)
    BY <1>1 DEF OfCall
<1>5. CASE p.call = c
  <2>1. OfCall(g, c) = OfCall(f, c) \cup {N + 1}
    BY <1>1, <1>2, <1>5 DEF OfCall
  <2>2. Cardinality(OfCall(f, c) \cup {N + 1}) = Cardinality(OfCall(f, c)) + 1
    BY <1>3, <1>4, FS_AddElement
  <2>3. QED
    BY <1>3, <1>5, <2>1, <2>2 DEF g
<1>6. CASE p.call # c
  <2>1. OfCall(g, c) = OfCall(f, c)
    BY <1>1, <1>2, <1>6 DEF OfCall
  <2>2. QED
    BY <1>3, <1>6, <2>1 DEF g
<1>7. QED
    BY <1>5, <1>6

\* Why a passage is not in the prompt, and that this remains so.
Excused(h, f, global) ==
    \/ \E k \in 1..Len(f) : f[k].text = h.text \/ StartsWithin(h, f[k])
    \/ global /\ Cardinality(OfCall(f, h.call)) >= CallCap
    \/ Total(f) + h.tokens > TokenBudget

SaidOnce(f) ==
    \A j, k \in 1..Len(f) : j < k =>
        f[j].text # f[k].text /\ (f[j].kind = "transcript" => ~StartsWithin(f[k], f[j]))

LEMMA AdmitsIs ==
    ASSUME NEW f \in Seq(AllPassages), NEW h \in AllPassages, NEW global
    PROVE  /\ ~Admits(h, f, global) => Excused(h, f, global)
           /\ Admits(h, f, global) =>
                 /\ \A k \in 1..Len(f) : f[k].text # h.text /\ ~StartsWithin(h, f[k])
                 /\ global => Cardinality(OfCall(f, h.call)) < CallCap
                 /\ Total(f) + h.tokens <= TokenBudget
<1>1. PICK N \in Nat : N = Len(f) /\ DOMAIN f = 1..N
    OBVIOUS
<1>2. \A p : p \in Range(f) <=> \E k \in 1..N : p = f[k]
    BY <1>1 DEF Range
<1>3. SameText(h, f) <=> \E k \in 1..N : f[k].text = h.text
    BY <1>2 DEF SameText
<1>4. Overlaps(h, f) <=> \E k \in 1..N : StartsWithin(h, f[k])
  <2>1. h.kind = "transcript" => h.start # NoTime
    BY LibraryIs DEF Indexed
  <2>2. QED
    BY <1>2, <2>1 DEF Overlaps, StartsWithin
<1>5. CapReached(h, f, global) <=> global /\ Cardinality(OfCall(f, h.call)) >= CallCap
    BY <1>1 DEF CapReached, OfCall
<1>6. f \in Seq(FragSet) /\ h \in FragSet
    BY SeqMonotonic DEF FragSet
<1>7. Total(f) \in Nat /\ h.tokens \in Nat /\ TokenBudget \in Nat /\ CallCap \in Nat
    BY <1>6, TotalAdds, FragIs, AskConstants
<1>8. Cardinality(OfCall(f, h.call)) \in Nat
    BY CountAdds
<1>9. PICK t \in Nat, k \in Nat, m \in Nat, b \in Nat, p \in Nat :
          /\ t = Total(f) /\ k = h.tokens /\ b = TokenBudget
          /\ m = Cardinality(OfCall(f, h.call)) /\ p = CallCap
    BY <1>7, <1>8
<1>10. Admits(h, f, global) <=>
          ~SameText(h, f) /\ ~Overlaps(h, f) /\ ~CapReached(h, f, global) /\ t + k <= b
    BY <1>9 DEF Admits
<1>11. (t + k <= b <=> ~(t + k > b)) /\ (m < p <=> ~(m >= p))
    OBVIOUS
<1>12. QED
    BY <1>1, <1>3, <1>4, <1>5, <1>9, <1>10, <1>11 DEF Excused

\* What the recursion returns.
LEMMA AssembledRecursion ==
    ASSUME NEW hits \in Seq(AllPassages), NEW global
    PROVE  \E g :
               /\ g[0] = <<>> /\ \A n \in 0..Len(hits) : g[n] \in Seq(AllPassages)
               /\ \A n \in 1..Len(hits) :
                      g[n] = IF Admits(hits[n], g[n - 1], global)
                             THEN Append(g[n - 1], hits[n]) ELSE g[n - 1]
               /\ Assembled(hits, global) = g[Len(hits)]
<1> DEFINE V == Seq(AllPassages)
           More(f, n) == IF Admits(hits[n], f, global) THEN Append(f, hits[n]) ELSE f
           Rec(g, N) == [n \in 0..N |-> IF n = 0 THEN <<>> ELSE More(g[n - 1], n)]
<1>1. PICK N \in Nat : N = Len(hits)
    OBVIOUS
<1> DEFINE step == [fn \in V \X (1..N) |-> More(fn[1], fn[2])]
<1>2. ASSUME NEW f \in V, NEW n \in 1..N PROVE More(f, n) \in V
  <2>1. hits[n] \in AllPassages
    BY <1>1
  <2>2. Append(f, hits[n]) \in V
    BY <2>1
  <2>3. QED
    BY <2>2
<1>3. <<>> \in V /\ step \in [V \X (1..N) -> V]
  <2> HIDE DEF V, More
  <2>1. step \in [V \X (1..N) -> V]
    BY <1>2
  <2>2. <<>> \in V
    BY EmptySeq DEF V
  <2>3. QED
    BY <2>1, <2>2
<1>4. PICK e : Recursive(e, N, V, <<>>, step)
  <2> HIDE DEF V, step
  <2>1. QED
    BY <1>1, <1>3, RecursionExists
<1> HIDE DEF V, More
<1>5. /\ e \in [0..N -> V] /\ e[0] = <<>>
      /\ \A n \in 1..N : e[n - 1] \in V /\ e[n] = More(e[n - 1], n)
    BY <1>4 DEF Recursive
<1>6. e = Rec(e, N)
  <2>1. \A n \in 0..N : e[n] = IF n = 0 THEN <<>> ELSE More(e[n - 1], n)
    BY <1>1, <1>5
  <2>2. QED
    BY <1>5, <2>1
<1>7. PICK g : g = Rec(g, N) /\ Assembled(hits, global) = g[N]
  <2>1. Rec(e, N) = e
    BY <1>6
  <2>2. QED
    BY <1>1, <2>1 DEF Assembled, More
<1>8. /\ g[0] = <<>> /\ \A n \in 1..N : g[n] = More(g[n - 1], n)
  <2>1. g[0] = <<>>
    BY <1>1, <1>7
  <2>2. ASSUME NEW n \in 1..N PROVE g[n] = More(g[n - 1], n)
    <3>1. n \in 0..N /\ n # 0
        BY <1>1
    <3>2. QED
        BY <1>7, <3>1
  <2>3. QED
    BY <2>1, <2>2
<1>9. \A n \in 0..N : g[n] \in V
  <2>1. g[0] \in V
    BY <1>3, <1>8
  <2>2. ASSUME NEW n \in 1..N, g[n - 1] \in V PROVE g[n] \in V
    BY <1>2, <1>8, <2>2
  <2>3. QED
    BY <1>1, <2>1, <2>2, RecursionStays
<1>10. QED
    BY <1>1, <1>7, <1>8, <1>9 DEF More, V

\* The first n hits, each in the prompt or excused.
Taken(f, hits, n, global) ==
    /\ f \in Seq(AllPassages)
    /\ \A k \in 1..Len(f) : \E i \in 1..n : f[k] = hits[i]
    /\ Total(f) <= TokenBudget /\ SaidOnce(f)
    /\ global => \A c : Cardinality(OfCall(f, c)) <= CallCap
    /\ \A i \in 1..n : Excused(hits[i], f, global)

LEMMA NothingTaken ==
    ASSUME NEW hits, NEW global
    PROVE  Taken(<<>>, hits, 0, global)
<1>1. <<>> \in Seq(AllPassages) /\ Len(<<>>) = 0
    BY EmptySeq
<1>2. Total(<<>>) <= TokenBudget
    BY TotalAdds, AskConstants
<1>3. ASSUME NEW c PROVE Cardinality(OfCall(<<>>, c)) <= CallCap
  <2>1. OfCall(<<>>, c) = {}
    BY <1>1 DEF OfCall
  <2>2. Cardinality({}) = 0
    BY FS_EmptySet
  <2>3. CallCap \in Nat
    BY AskConstants
  <2>4. 0 <= CallCap
    BY <2>3
  <2>5. Cardinality(OfCall(<<>>, c)) = 0
    BY <2>1, <2>2, Zenon
  <2>6. QED
    BY <2>4, <2>5, Zenon
<1>4. QED
    BY <1>1, <1>2, <1>3 DEF Taken, SaidOnce

LEMMA OneTaken ==
    ASSUME NEW hits \in Seq(AllPassages), NEW global, NEW n \in Nat, n + 1 <= Len(hits),
           NEW f, Taken(f, hits, n, global), NEW g,
           g = IF Admits(hits[n + 1], f, global) THEN Append(f, hits[n + 1]) ELSE f
    PROVE  Taken(g, hits, n + 1, global)
<1>1. PICK h \in AllPassages : h = hits[n + 1]
    OBVIOUS
<1>2. f \in Seq(AllPassages)
    BY DEF Taken
<1>3. \A i \in 1..n : i \in 1..n + 1
    OBVIOUS
<1>4. n + 1 \in 1..n + 1 /\ \A i \in 1..n + 1 : i \in 1..n \/ i = n + 1
    OBVIOUS
<1>5. CASE ~Admits(h, f, global)
  <2>1. g = f /\ Excused(h, f, global)
    BY <1>1, <1>2, <1>5, AdmitsIs
  <2>2. QED
    BY <1>1, <1>3, <1>4, <2>1 DEF Taken
<1>6. CASE Admits(h, f, global)
  <2>1. PICK N \in Nat : N = Len(f)
    BY <1>2
  <2>2. /\ g \in Seq(AllPassages) /\ Len(g) = N + 1 /\ g[N + 1] = h
        /\ \A k \in 1..N : g[k] = f[k]
    BY <1>1, <1>2, <1>6, <2>1, OneMore
  <2>3. /\ \A k \in 1..N : f[k].text # h.text /\ ~StartsWithin(h, f[k])
        /\ global => Cardinality(OfCall(f, h.call)) < CallCap
        /\ Total(f) + h.tokens <= TokenBudget
    BY <1>2, <1>6, <2>1, AdmitsIs
  <2>4. \A k \in 1..N + 1 : k \in 1..N \/ k = N + 1
    BY <2>1
  <2>5. \A k \in 1..N : k \in 1..N + 1 /\ k < N + 1
    BY <2>1
  <2>6. f \in Seq(FragSet) /\ h \in FragSet
    BY <1>2, SeqMonotonic DEF FragSet
  <2>7. /\ Total(f) \in Nat /\ h.tokens \in Nat /\ Total(g) = Total(f) + h.tokens
    BY <1>1, <1>6, <2>6, TotalAdds, FragIs
  <2>8. ASSUME NEW c
        PROVE  /\ Cardinality(OfCall(f, c)) \in Nat
               /\ Cardinality(OfCall(g, c)) = IF h.call = c THEN Cardinality(OfCall(f, c)) + 1
                                              ELSE Cardinality(OfCall(f, c))
    BY <1>1, <1>2, <1>6, CountAdds
  <2>9. \A k \in 1..N + 1 : \E i \in 1..n + 1 : g[k] = hits[i]
    <3>1. ASSUME NEW k \in 1..N PROVE \E i \in 1..n + 1 : g[k] = hits[i]
        BY <1>3, <2>1, <2>2 DEF Taken
    <3>2. QED
        BY <1>1, <1>4, <2>2, <2>4, <3>1
  <2>10. SaidOnce(g)
    <3>1. ASSUME NEW j \in 1..N + 1, NEW k \in 1..N + 1, j < k
          PROVE  g[j].text # g[k].text /\ (g[j].kind = "transcript" => ~StartsWithin(g[k], g[j]))
      <4>1. j \in 1..N
        BY <2>1, <3>1
      <4>2. CASE k \in 1..N
        BY <2>1, <2>2, <3>1, <4>1, <4>2 DEF Taken, SaidOnce
      <4>3. CASE k = N + 1
        BY <2>2, <2>3, <4>1, <4>3
      <4>4. QED
        BY <2>4, <4>2, <4>3
    <3>2. QED
        BY <2>2, <3>1 DEF SaidOnce
  <2>11. ASSUME global, NEW c PROVE Cardinality(OfCall(g, c)) <= CallCap
    <3>1. Cardinality(OfCall(f, c)) <= CallCap /\ CallCap \in Nat
        BY <2>11, AskConstants DEF Taken
    <3>2. Cardinality(OfCall(f, c)) \in Nat
        BY <2>8
    <3>3. CASE h.call = c
      <4>1. PICK m \in Nat, p \in Nat : m = Cardinality(OfCall(f, c)) /\ p = CallCap
        BY <3>1, <3>2
      <4>2. m < p
        BY <2>3, <2>11, <3>3, <4>1
      <4>3. Cardinality(OfCall(g, c)) = m + 1
        BY <2>8, <3>3, <4>1
      <4>4. QED
        BY <4>1, <4>2, <4>3
    <3>4. CASE h.call # c
        BY <2>8, <3>1, <3>4
    <3>5. QED
        BY <3>3, <3>4
  <2>12. ASSUME NEW p \in AllPassages, Excused(p, f, global) PROVE Excused(p, g, global)
    <3>1. CASE \E k \in 1..N : f[k].text = p.text \/ StartsWithin(p, f[k])
      <4>1. PICK k \in 1..N : f[k].text = p.text \/ StartsWithin(p, f[k])
        BY <3>1
      <4>2. k \in 1..Len(g) /\ g[k] = f[k]
        BY <2>2, <2>5
      <4>3. QED
        BY <4>1, <4>2 DEF Excused
    <3>2. CASE global /\ Cardinality(OfCall(f, p.call)) >= CallCap
      <4>1. Cardinality(OfCall(g, p.call)) >= Cardinality(OfCall(f, p.call))
        BY <2>8
      <4>2. /\ Cardinality(OfCall(f, p.call)) \in Nat /\ Cardinality(OfCall(g, p.call)) \in Nat
            /\ CallCap \in Nat
        BY <2>8, AskConstants
      <4>3. Cardinality(OfCall(g, p.call)) >= CallCap
        <5>1. PICK m \in Nat, l \in Nat, b \in Nat :
                  /\ m = Cardinality(OfCall(f, p.call)) /\ l = Cardinality(OfCall(g, p.call))
                  /\ b = CallCap
            BY <4>2
        <5>2. l >= m /\ m >= b
            BY <3>2, <4>1, <5>1
        <5>3. QED
            BY <5>1, <5>2
      <4>4. QED
        BY <3>2, <4>3 DEF Excused
    <3>3. CASE Total(f) + p.tokens > TokenBudget
      <4>1. p.tokens \in Nat /\ TokenBudget \in Nat
        BY LibraryIs, AskConstants DEF Indexed
      <4>2. Total(g) + p.tokens > TokenBudget
        BY <2>7, <3>3, <4>1
      <4>3. QED
        BY <4>2 DEF Excused
    <3>4. QED
        BY <2>1, <2>12, <3>1, <3>2, <3>3 DEF Excused
  <2>13. Excused(h, g, global)
    <3>1. N + 1 \in 1..Len(g) /\ g[N + 1].text = h.text
        BY <2>1, <2>2
    <3>2. QED
        BY <3>1 DEF Excused
  <2>14. \A i \in 1..n + 1 : Excused(hits[i], g, global)
    <3>1. ASSUME NEW i \in 1..n PROVE Excused(hits[i], g, global)
      <4>1. hits[i] \in AllPassages
        OBVIOUS
      <4>2. Excused(hits[i], f, global)
        BY DEF Taken
      <4>3. QED
        BY <2>12, <4>1, <4>2
    <3>2. QED
        BY <1>1, <1>4, <2>13, <3>1
  <2>15. QED
    <3>1. Total(g) <= TokenBudget
        BY <2>3, <2>7
    <3>2. QED
        BY <2>2, <2>9, <2>10, <2>11, <2>14, <3>1 DEF Taken
<1>7. QED
    BY <1>1, <1>5, <1>6

LEMMA AssembledIs ==
    ASSUME NEW hits \in Seq(AllPassages), NEW global
    PROVE  Taken(Assembled(hits, global), hits, Len(hits), global)
<1>1. PICK N \in Nat : N = Len(hits)
    OBVIOUS
<1>2. PICK g :
          /\ g[0] = <<>>
          /\ \A n \in 1..N : g[n] = IF Admits(hits[n], g[n - 1], global)
                                    THEN Append(g[n - 1], hits[n]) ELSE g[n - 1]
          /\ Assembled(hits, global) = g[N]
    BY <1>1, AssembledRecursion
<1> DEFINE T == {n \in Nat : n <= N => Taken(g[n], hits, n, global)}
<1>3. 0 \in T
    BY <1>2, NothingTaken
<1>4. ASSUME NEW n \in Nat, n \in T PROVE n + 1 \in T
  <2>1. ASSUME n + 1 <= N PROVE Taken(g[n + 1], hits, n + 1, global)
    <3>1. Taken(g[n], hits, n, global) /\ n + 1 \in 1..N /\ (n + 1) - 1 = n
        BY <1>4, <2>1
    <3>2. g[n + 1] = IF Admits(hits[n + 1], g[n], global)
                     THEN Append(g[n], hits[n + 1]) ELSE g[n]
        BY <1>2, <3>1
    <3>3. QED
        BY <1>1, <2>1, <3>1, <3>2, OneTaken
  <2>2. QED
    BY <2>1
<1>5. Nat \subseteq T
  <2> HIDE DEF T
  <2>1. QED
    BY <1>3, <1>4, SetInduction
<1>6. QED
    BY <1>1, <1>2, <1>5

\* What is kept of a list is of the list and of the set.
LEMMA WithinIs ==
    ASSUME NEW A, NEW s \in Seq(A), NEW S
    PROVE  Within(s, S) \in Seq(A \cap S)
<1> DEFINE V == Seq(A \cap S)
           Kept(f, n) == IF s[n] \in S THEN Append(f, s[n]) ELSE f
           Rec(g, N) == [n \in 0..N |-> IF n = 0 THEN <<>> ELSE Kept(g[n - 1], n)]
<1>1. PICK N \in Nat : N = Len(s)
    OBVIOUS
<1> DEFINE step == [fn \in V \X (1..N) |-> Kept(fn[1], fn[2])]
<1>2. ASSUME NEW f \in V, NEW n \in 1..N PROVE Kept(f, n) \in V
  <2>1. CASE s[n] \in S
    <3>1. s[n] \in A \cap S
        BY <1>1, <2>1
    <3>2. Append(f, s[n]) \in V
        BY <3>1
    <3>3. QED
        BY <2>1, <3>2
  <2>2. CASE s[n] \notin S
    BY <2>2
  <2>3. QED
    BY <2>1, <2>2
<1>3. <<>> \in V /\ step \in [V \X (1..N) -> V]
  <2> HIDE DEF V, Kept
  <2>1. step \in [V \X (1..N) -> V]
    BY <1>2
  <2>2. <<>> \in V
    BY EmptySeq DEF V
  <2>3. QED
    BY <2>1, <2>2
<1>4. PICK e : Recursive(e, N, V, <<>>, step)
  <2> HIDE DEF V, step
  <2>1. QED
    BY <1>1, <1>3, RecursionExists
<1> HIDE DEF V, Kept
<1>5. /\ e \in [0..N -> V] /\ e[0] = <<>>
      /\ \A n \in 1..N : e[n - 1] \in V /\ e[n] = Kept(e[n - 1], n)
    BY <1>4 DEF Recursive
<1>6. e = Rec(e, N)
  <2>1. \A n \in 0..N : e[n] = IF n = 0 THEN <<>> ELSE Kept(e[n - 1], n)
    BY <1>1, <1>5
  <2>2. QED
    BY <1>5, <2>1
<1>7. PICK g : g = Rec(g, N) /\ Within(s, S) = g[N]
  <2>1. Rec(e, N) = e
    BY <1>6
  <2>2. QED
    BY <1>1, <2>1 DEF Within, Kept
<1>8. \A n \in 0..N : g[n] \in V
  <2>1. g[0] \in V
    BY <1>1, <1>3, <1>7
  <2>2. ASSUME NEW n \in 1..N, g[n - 1] \in V PROVE g[n] \in V
    <3>1. n \in 0..N /\ n # 0
        BY <1>1
    <3>2. g[n] = Kept(g[n - 1], n)
        BY <1>7, <3>1
    <3>3. QED
        BY <1>2, <2>2, <3>2
  <2>3. QED
    BY <1>1, <2>1, <2>2, RecursionStays
<1>9. QED
    BY <1>1, <1>7, <1>8 DEF V

\* A prompt that is sound: its passages fit unless it is cards alone, say nothing
\* twice and are of the period.
Prompt(f, period) ==
    /\ f \in Seq(FragSet)
    /\ Total(f) <= TokenBudget \/ \A k \in 1..Len(f) : f[k].kind = "contact"
    /\ \A j, k \in 1..Len(f) : f[j].kind # "contact" /\ f[k].kind # "contact" /\ j < k =>
           f[j].text # f[k].text /\ (f[j].kind = "transcript" => ~StartsWithin(f[k], f[j]))
    /\ \A k \in 1..Len(f) : f[k].kind # "contact" => f[k].call \in period

LEMMA EmptyPrompt == ASSUME NEW period PROVE Prompt(<<>>, period)
<1>1. <<>> \in Seq(FragSet) /\ Len(<<>>) = 0
    BY EmptySeq
<1>2. QED
    BY <1>1 DEF Prompt

LEMMA TakenPrompt ==
    ASSUME NEW hits \in Seq(AllPassages), NEW global, NEW period,
           \A i \in 1..Len(hits) : hits[i].call \in period
    PROVE  Prompt(Assembled(hits, global), period)
<1>1. PICK f : f = Assembled(hits, global)
    OBVIOUS
<1>2. Taken(f, hits, Len(hits), global)
    BY <1>1, AssembledIs
<1>3. f \in Seq(AllPassages) /\ f \in Seq(FragSet)
    BY <1>2, SeqMonotonic DEF Taken, FragSet
<1>4. \A k \in 1..Len(f) : f[k].call \in period
    BY <1>2 DEF Taken
<1>5. Total(f) <= TokenBudget /\ SaidOnce(f)
    BY <1>2 DEF Taken
<1>6. QED
    BY <1>1, <1>3, <1>4, <1>5 DEF Prompt, SaidOnce

LEMMA RoomIs ==
    ASSUME NEW f \in Seq(FragSet), NEW extra \in Nat
    PROVE  \E k \in 0..Len(f) :
               /\ MakeRoom(f, extra) = SubSeq(f, 1, k)
               /\ k = 0 \/ Total(SubSeq(f, 1, k)) + extra <= TokenBudget
<1> DEFINE K == {n \in 0..Len(f) : n = 0 \/ Total(SubSeq(f, 1, n)) + extra <= TokenBudget}
<1>1. PICK N \in Nat : N = Len(f)
    OBVIOUS
<1>2. K \subseteq 0..N /\ 0 \in K
    BY <1>1
<1>3. Max(K) \in K
  <2> HIDE DEF K
  <2>1. QED
    BY <1>1, <1>2, GreatestIs
<1>4. MakeRoom(f, extra) = SubSeq(f, 1, Max(K))
    BY DEF MakeRoom
<1>5. QED
    BY <1>3, <1>4

LEMMA CardsPrompt ==
    ASSUME NEW f, NEW period, Prompt(f, period), NEW n \in 1..MaxCards
    PROVE  LET g == MakeRoom(f, n * CardTokens) \o [m \in 1..n |-> Card(m)]
           IN  Prompt(g, period) /\ g # <<>>
<1>1. PICK c \in Nat : c = CardTokens
    BY AskConstants
<1>2. f \in Seq(FragSet) /\ n \in Nat /\ n * c \in Nat
    BY <1>1, AskConstants DEF Prompt
<1>3. PICK k \in 0..Len(f) :
          /\ MakeRoom(f, n * c) = SubSeq(f, 1, k)
          /\ k = 0 \/ Total(SubSeq(f, 1, k)) + n * c <= TokenBudget
    BY <1>2, RoomIs
<1> DEFINE room == SubSeq(f, 1, k)
           cards == [m \in 1..n |-> Card(m)]
           g == room \o cards
<1>4. room \in Seq(FragSet) /\ Len(room) = k /\ \A i \in 1..k : room[i] = f[i]
  <2>1. \A i \in 1..k : f[i] \in FragSet
    BY <1>2
  <2>2. k \in Nat /\ k \in Int /\ 1 \in Int
    BY <1>2
  <2>3. /\ room \in Seq(FragSet) /\ Len(room) = IF 1 <= k THEN k - 1 + 1 ELSE 0
        /\ \A i \in 1..k - 1 + 1 : room[i] = f[1 + i - 1]
    BY <2>1, <2>2, SubSeqProperties
  <2>4. Len(room) = k
    BY <2>2, <2>3
  <2>5. \A i \in 1..k : i \in 1..k - 1 + 1 /\ 1 + i - 1 = i
    BY <2>2
  <2>6. QED
    BY <2>3, <2>4, <2>5
<1>5. cards \in Seq(FragSet) /\ Len(cards) = n /\ \A i \in 1..n : cards[i] = Card(i)
  <2>1. \A m \in 1..n : Card(m) \in FragSet
    <3>1. MaxCards \in Nat
        BY AskConstants
    <3>2. \A m \in 1..n : m \in 1..MaxCards
        BY <3>1
    <3>3. QED
        BY <3>2 DEF FragSet
  <2>2. cards \in [1..n -> FragSet]
    BY <2>1
  <2>3. QED
    BY <1>2, <2>2
<1>6. k \in Nat
    BY <1>2
<1> HIDE DEF room, cards
<1>7. g \in Seq(FragSet) /\ Len(g) = k + n
    BY <1>4, <1>5, ConcatProperties
<1>8. \A i \in 1..k + n : g[i] = IF i <= k THEN room[i] ELSE cards[i - k]
    BY <1>4, <1>5, ConcatProperties
<1> HIDE DEF g
<1>9. \A i \in 1..k : i \in 1..Len(f) /\ g[i] = f[i]
  <2>1. \A i \in 1..k : i \in 1..k + n /\ i <= k /\ i \in 1..Len(f)
    BY <1>2, <1>6
  <2>2. QED
    BY <1>4, <1>8, <2>1
<1>10. \A i \in k + 1..k + n : g[i].kind = "contact" /\ g[i].tokens = c
  <2>1. ASSUME NEW i \in k + 1..k + n PROVE g[i].kind = "contact" /\ g[i].tokens = c
    <3>1. i \in 1..k + n /\ ~(i <= k) /\ i - k \in 1..n
        BY <1>2, <1>6
    <3>2. g[i] = Card(i - k)
        BY <1>5, <1>8, <3>1
    <3>3. QED
        BY <1>1, <3>2 DEF Card
  <2>2. QED
    BY <2>1
<1>11. Total(g) <= TokenBudget \/ k = 0
  <2>1. /\ Sizes(room) \in Seq(Nat) /\ Len(Sizes(room)) = k /\ Total(room) = SumOf(Sizes(room))
        /\ \A i \in 1..k : Sizes(room)[i] = room[i].tokens
    BY <1>4, SizesAre
  <2>2. /\ Sizes(g) \in Seq(Nat) /\ Len(Sizes(g)) = k + n /\ Total(g) = SumOf(Sizes(g))
        /\ \A i \in 1..k + n : Sizes(g)[i] = g[i].tokens
    BY <1>7, SizesAre
  <2>3. \A i \in 1..k : Sizes(g)[i] = Sizes(room)[i]
    <3>1. \A i \in 1..k : i \in 1..k + n
        BY <1>2, <1>6
    <3>2. QED
        BY <1>4, <1>9, <2>1, <2>2, <3>1
  <2>4. \A i \in k + 1..k + n : Sizes(g)[i] = c
    <3>1. \A i \in k + 1..k + n : i \in 1..k + n
        BY <1>2, <1>6
    <3>2. QED
        BY <1>10, <2>2, <3>1
  <2>5. Total(g) = Total(room) + n * c
    BY <1>2, <2>1, <2>2, <2>3, <2>4, SumOfAlike
  <2>6. QED
    BY <1>3, <2>5 DEF room
<1>12. \A i \in 1..k + n : g[i].kind # "contact" => i \in 1..k
  <2>1. \A i \in 1..k + n : i \in 1..k \/ i \in k + 1..k + n
    BY <1>2, <1>6
  <2>2. QED
    BY <1>10, <2>1
<1>13. Prompt(g, period)
  <2>1. Total(g) <= TokenBudget \/ \A i \in 1..k + n : g[i].kind = "contact"
    BY <1>11, <1>12
  <2>2. ASSUME NEW i \in 1..k + n, NEW j \in 1..k + n,
               g[i].kind # "contact", g[j].kind # "contact", i < j
        PROVE  g[i].text # g[j].text /\ (g[i].kind = "transcript" => ~StartsWithin(g[j], g[i]))
    <3>1. i \in 1..Len(f) /\ j \in 1..Len(f) /\ g[i] = f[i] /\ g[j] = f[j]
        BY <1>9, <1>12, <2>2
    <3>2. QED
        BY <2>2, <3>1 DEF Prompt
  <2>3. ASSUME NEW i \in 1..k + n, g[i].kind # "contact" PROVE g[i].call \in period
    <3>1. i \in 1..Len(f) /\ g[i] = f[i]
        BY <1>9, <1>12, <2>3
    <3>2. QED
        BY <2>3, <3>1 DEF Prompt
  <2>4. QED
    BY <1>7, <2>1, <2>2, <2>3 DEF Prompt
<1>14. g # <<>>
  <2>1. Len(g) # 0
    BY <1>2, <1>6, <1>7
  <2>2. QED
    BY <2>1, EmptySeq
<1>15. QED
    BY <1>1, <1>3, <1>13, <1>14 DEF g, room, cards

(* The order of the hits *)
Divides(d, m) == \E q \in Nat \ {0} : m = q * d

LEMMA DividesAlso ==
    ASSUME NEW d \in Nat, NEW m \in Nat, NEW e \in Nat \ {0}, Divides(d, m)
    PROVE  Divides(d, m * e)
<1>1. PICK q \in Nat \ {0} : m = q * d
    BY DEF Divides
<1>2. PICK r \in Nat : r = q * e
    OBVIOUS
<1>3. r # 0
    BY <1>2
<1>4. m * e = r * d
    BY <1>1, <1>2
<1>5. QED
    BY <1>3, <1>4 DEF Divides

LEMMA PlacesAre ==
    /\ Places \in Nat \ {0} /\ RrfK \in Nat
    /\ \A n \in 1..FusionCandidates : Divides(RrfK + n, Places)
<1>1. PICK F \in Nat, K \in Nat : F = FusionCandidates /\ K = RrfK
    BY AskConstants
<1> DEFINE V == Nat \ {0}
           step == [vn \in V \X (1..F) |-> vn[1] * (K + vn[2])]
           Rec(g) == [n \in 0..F |-> IF n = 0 THEN 1 ELSE g[n - 1] * (K + n)]
<1>2. \A v \in V : \A n \in 1..F : v * (K + n) \in V
  <2>1. ASSUME NEW v \in V, NEW n \in 1..F PROVE v * (K + n) \in V
    <3>1. PICK d \in Nat \ {0} : d = K + n
        BY <1>1
    <3>2. v * d \in Nat /\ v * d # 0
        OBVIOUS
    <3>3. QED
        BY <3>1, <3>2
  <2>2. QED
    BY <2>1
<1>3. 1 \in V /\ step \in [V \X (1..F) -> V]
    BY <1>2
<1>4. PICK e : Recursive(e, F, V, 1, step)
  <2> HIDE DEF V, step
  <2>1. QED
    BY <1>1, <1>3, RecursionExists
<1>5. /\ e \in [0..F -> V] /\ e[0] = 1
      /\ \A n \in 1..F : e[n - 1] \in V /\ e[n] = e[n - 1] * (K + n)
    BY <1>4 DEF Recursive
<1> HIDE DEF V
<1>6. e = Rec(e)
  <2>1. \A n \in 0..F : e[n] = IF n = 0 THEN 1 ELSE e[n - 1] * (K + n)
    BY <1>1, <1>5
  <2>2. QED
    BY <1>5, <2>1
<1>7. PICK g : g = Rec(g) /\ Places = g[F]
  <2>1. Rec(e) = e
    BY <1>6
  <2>2. QED
    BY <1>1, <2>1 DEF Places
<1>8. g[0] = 1 /\ \A n \in 1..F : g[n] = g[n - 1] * (K + n)
  <2>1. g[0] = 1
    BY <1>1, <1>7
  <2>2. ASSUME NEW n \in 1..F PROVE g[n] = g[n - 1] * (K + n)
    <3>1. n \in 0..F /\ n # 0
        BY <1>1
    <3>2. QED
        BY <1>7, <3>1
  <2>3. QED
    BY <2>1, <2>2
<1>9. \A n \in 0..F : g[n] \in V
  <2>1. g[0] \in V
    BY <1>3, <1>8
  <2>2. ASSUME NEW n \in 1..F, g[n - 1] \in V PROVE g[n] \in V
    BY <1>2, <1>8, <2>2
  <2>3. QED
    BY <1>1, <2>1, <2>2, RecursionStays
<1> DEFINE T == {n \in Nat : n <= F => \A m \in 1..n : Divides(K + m, g[n])}
<1>10. 0 \in T
    OBVIOUS
<1>11. ASSUME NEW n \in Nat, n \in T PROVE n + 1 \in T
  <2>1. ASSUME n + 1 <= F, NEW m \in 1..n + 1 PROVE Divides(K + m, g[n + 1])
    <3>1. /\ n + 1 \in 1..F /\ (n + 1) - 1 = n /\ n \in 0..F /\ n <= F
        BY <1>1, <2>1
    <3>2. PICK v \in Nat \ {0} : v = g[n]
        BY <1>9, <3>1 DEF V
    <3>3. PICK d \in Nat \ {0}, c \in Nat : d = K + (n + 1) /\ c = K + m
        BY <1>1
    <3>4. g[n + 1] = v * d
        BY <1>8, <3>1, <3>2, <3>3
    <3>5. CASE m \in 1..n
      <4>1. Divides(c, v)
        BY <1>11, <3>1, <3>2, <3>3, <3>5
      <4>2. QED
        BY <3>3, <3>4, <4>1, DividesAlso
    <3>6. CASE m = n + 1
        BY <3>3, <3>4, <3>6 DEF Divides
    <3>7. QED
        BY <3>5, <3>6
  <2>2. QED
    BY <2>1
<1>12. Nat \subseteq T
  <2> HIDE DEF T
  <2>1. QED
    BY <1>10, <1>11, SetInduction
<1>13. \A m \in 1..F : Divides(K + m, g[F])
    BY <1>1, <1>12
<1>14. g[F] \in V
    BY <1>1, <1>9
<1>15. QED
    BY <1>1, <1>7, <1>13, <1>14 DEF V

LEMMA ShareOfPlace ==
    ASSUME NEW n \in 1..FusionCandidates
    PROVE  /\ Places \div (RrfK + n) \in Nat \ {0}
           /\ \A m \in 1..FusionCandidates :
                  n < m => Places \div (RrfK + m) < Places \div (RrfK + n)
<1>1. ASSUME NEW m \in 1..FusionCandidates
      PROVE  \E q \in Nat \ {0} :
                 Places = q * (RrfK + m) /\ Places \div (RrfK + m) = q
  <2>1. PICK d \in Nat \ {0} : d = RrfK + m
    BY PlacesAre
  <2>2. PICK q \in Nat \ {0} : Places = q * d
    BY <2>1, PlacesAre DEF Divides
  <2>3. (q * d) \div d = q
    BY SMTT(60)
  <2>4. QED
    BY <2>1, <2>2, <2>3
<1>2. PICK q \in Nat \ {0} : Places = q * (RrfK + n) /\ Places \div (RrfK + n) = q
    BY <1>1
<1>3. ASSUME NEW m \in 1..FusionCandidates, n < m PROVE Places \div (RrfK + m) < q
  <2>1. PICK r \in Nat \ {0} : Places = r * (RrfK + m) /\ Places \div (RrfK + m) = r
    BY <1>1
  <2>2. PICK d \in Nat \ {0}, x \in Nat \ {0} : d = RrfK + n /\ d + x = RrfK + m
    <3>1. RrfK + n \in Nat \ {0} /\ m - n \in Nat \ {0} /\ RrfK + n + (m - n) = RrfK + m
        BY <1>3, PlacesAre
    <3>2. QED
        BY <3>1
  <2>3. q * d = r * (d + x)
    BY <1>2, <2>1, <2>2
  <2>4. ASSUME q <= r PROVE FALSE
    <3>1. PICK y \in Nat : r = q + y
      <4>1. r - q \in Nat /\ r = q + (r - q)
        BY <2>4
      <4>2. QED
        BY <4>1
    <3>2. r * (d + x) = q * d + y * d + r * x
        BY <3>1
    <3>3. y * d \in Nat /\ r * x \in Nat /\ r * x # 0 /\ q * d \in Nat
        OBVIOUS
    <3>4. QED
        BY <2>3, <3>2, <3>3
  <2>5. QED
    BY <2>1, <2>4
<1>4. QED
    BY <1>2, <1>3

\* A list of a channel: at most so many, and none twice.
IsList(s) ==
    /\ s \in Seq(Ids) /\ Len(s) <= FusionCandidates
    /\ \A n, m \in 1..Len(s) : s[n] = s[m] => n = m

LEMMA PlaceIs ==
    ASSUME NEW s, IsList(s), NEW i
    PROVE  /\ i \in Range(s) => /\ Place(i, s) \in 1..Len(s) /\ s[Place(i, s)] = i
                                /\ Share(i, s) = Places \div (RrfK + Place(i, s))
           /\ i \notin Range(s) => Place(i, s) = FusionCandidates + 1 /\ Share(i, s) = 0
<1>1. DOMAIN s = 1..Len(s)
    BY DEF IsList
<1>2. ASSUME i \in Range(s)
      PROVE  /\ Place(i, s) \in 1..Len(s) /\ s[Place(i, s)] = i
             /\ Share(i, s) = Places \div (RrfK + Place(i, s))
  <2>1. \E n \in DOMAIN s : s[n] = i
    BY <1>2 DEF Range
  <2>2. PICK k : k = CHOOSE n \in DOMAIN s : s[n] = i
    OBVIOUS
  <2>3. k \in DOMAIN s /\ s[k] = i
    BY <2>1, <2>2
  <2>4. Place(i, s) = k
    BY <1>2, <2>2 DEF Place
  <2>5. Share(i, s) = Places \div (RrfK + k)
    BY <1>2, <2>2 DEF Share
  <2>6. QED
    BY <1>1, <2>3, <2>4, <2>5
<1>3. QED
    BY <1>2 DEF Place, Share

LEMMA SharesFall ==
    ASSUME NEW s, IsList(s), NEW i, NEW j, Place(i, s) <= Place(j, s)
    PROVE  /\ Share(i, s) \in Nat /\ Share(j, s) \in Nat /\ Share(j, s) <= Share(i, s)
           /\ i \in Range(s) /\ i # j => Share(j, s) < Share(i, s)
           /\ j \in Range(s) => i \in Range(s)
<1>1. PICK L \in Nat, F \in Nat : L = Len(s) /\ F = FusionCandidates /\ L <= F
    BY AskConstants DEF IsList
<1>2. \A n \in 1..L : n \in 1..F
    BY <1>1
<1>3. ASSUME NEW k, k \in Range(s)
      PROVE  /\ Place(k, s) \in 1..F /\ s[Place(k, s)] = k /\ Share(k, s) \in Nat \ {0}
             /\ Share(k, s) = Places \div (RrfK + Place(k, s))
    BY <1>1, <1>2, <1>3, PlaceIs, ShareOfPlace
<1>4. ASSUME NEW k, k \notin Range(s) PROVE Place(k, s) = F + 1 /\ Share(k, s) = 0
    BY <1>1, <1>4, PlaceIs
<1>5. CASE i \in Range(s) /\ j \in Range(s)
  <2>1. PICK n \in 1..F, m \in 1..F : n = Place(i, s) /\ m = Place(j, s)
    BY <1>3, <1>5
  <2>2. n <= m /\ s[n] = i /\ s[m] = j
    BY <1>3, <1>5, <2>1
  <2>3. CASE n = m
    BY <1>3, <1>5, <2>1, <2>2, <2>3
  <2>4. CASE n # m
    <3>1. n < m
        BY <2>2, <2>4
    <3>2. Share(j, s) < Share(i, s)
        BY <1>1, <1>3, <1>5, <2>1, <3>1, ShareOfPlace
    <3>3. Share(i, s) \in Nat /\ Share(j, s) \in Nat
        BY <1>3, <1>5
    <3>4. Share(j, s) <= Share(i, s)
        BY <3>2, <3>3
    <3>5. QED
        BY <1>5, <3>2, <3>3, <3>4
  <2>5. QED
    BY <2>3, <2>4
<1>6. CASE i \in Range(s) /\ j \notin Range(s)
    BY <1>3, <1>4, <1>6
<1>7. CASE i \notin Range(s)
  <2>1. j \notin Range(s)
    <3>1. ASSUME j \in Range(s) PROVE FALSE
      <4>1. Place(j, s) \in 1..F /\ Place(i, s) = F + 1
        BY <1>3, <1>4, <1>7, <3>1
      <4>2. QED
        BY <4>1
    <3>2. QED
        BY <3>1
  <2>2. QED
    BY <1>4, <1>7, <2>1
<1>8. QED
    BY <1>5, <1>6, <1>7

LEMMA FusedFair ==
    ASSUME NEW bm, NEW near, IsList(bm), IsList(near), NEW f \in Fused(bm, near),
           NEW n \in DOMAIN f, NEW m \in DOMAIN f, n # m,
           Place(f[n], bm) <= Place(f[m], bm), Place(f[n], near) <= Place(f[m], near)
    PROVE  n < m
<1> DEFINE S == Range(bm) \cup Range(near)
<1>1. /\ f \in [1..Cardinality(S) -> S]
      /\ \A i, j \in 1..Cardinality(S) : i # j => f[i] # f[j]
    BY DEF Fused, SetToSeqs
<1>2. f[n] \in S /\ f[m] \in S /\ f[n] # f[m]
    BY <1>1
<1>3. IsFiniteSet(S)
  <2>1. ASSUME NEW s, IsList(s) PROVE Range(s) \subseteq Ids
    BY <2>1 DEF IsList, Range
  <2>2. S \in SUBSET Ids
    BY <2>1
  <2>3. QED
    BY <2>2, LibraryIs, FS_Subset
<1>4. n \in Nat /\ m \in Nat
  <2>1. Cardinality(S) \in Nat
    BY <1>3, FS_CardinalityType
  <2> HIDE DEF S
  <2>2. QED
    BY <1>1, <2>1
<1>5. PICK a \in Nat, b \in Nat, c \in Nat, d \in Nat :
          /\ a = Share(f[n], bm) /\ b = Share(f[m], bm)
          /\ c = Share(f[n], near) /\ d = Share(f[m], near)
    BY SharesFall
<1>6. b <= a /\ d <= c
    BY <1>5, SharesFall
<1>7. b < a \/ d < c
  <2>1. f[n] \in Range(bm) \/ f[n] \in Range(near)
    BY <1>2
  <2>2. QED
    BY <1>2, <1>5, <2>1, SharesFall
<1>8. Score(f[n], bm, near) = a + c /\ Score(f[m], bm, near) = b + d
    BY <1>5 DEF Score
<1>9. b + d < a + c
    BY <1>6, <1>7
<1>10. ASSUME m < n PROVE FALSE
  <2>1. \/ Score(f[m], bm, near) > Score(f[n], bm, near)
        \/ Score(f[m], bm, near) = Score(f[n], bm, near)
    BY <1>10 DEF Fused
  <2>2. b + d > a + c \/ b + d = a + c
    BY <1>8, <2>1
  <2>3. QED
    BY <1>9, <2>2
<1>11. QED
    BY <1>4, <1>10

\* A finite set is listed in a strict order in one way.
Listed(t, R) == \A n, m \in DOMAIN t : n < m => <<t[n], t[m]>> \in R

\* What rises from 1..N to 1..N stays where it is.
LEMMA RisesByOne ==
    ASSUME NEW N \in Nat, NEW h \in [1..N -> 1..N],
           \A n, m \in 1..N : n < m => h[n] < h[m]
    PROVE  \A n \in 1..N : h[n] = n
<1> DEFINE Up == {n \in Nat : n + 1 <= N => n + 1 <= h[n + 1]}
           Down == {n \in Nat : n < N => h[N - n] <= N - n}
<1>1. 0 \in Up
  <2>1. ASSUME 1 <= N PROVE 1 <= h[1]
    <3>1. h[1] \in 1..N
        BY <2>1
    <3>2. QED
        BY <3>1
  <2>2. QED
    BY <2>1
<1>2. ASSUME NEW n \in Nat, n \in Up PROVE n + 1 \in Up
  <2>1. ASSUME n + 2 <= N PROVE n + 2 <= h[n + 2]
    <3>1. n + 1 \in 1..N /\ n + 2 \in 1..N /\ n + 1 < n + 2 /\ n + 1 <= h[n + 1]
        BY <1>2, <2>1
    <3>2. PICK a \in Nat, b \in Nat : a = h[n + 1] /\ b = h[n + 2] /\ a < b
        BY <3>1
    <3>3. QED
        BY <3>1, <3>2
  <2>2. (n + 1) + 1 = n + 2
    OBVIOUS
  <2>3. QED
    BY <2>1, <2>2
<1>3. 0 \in Down
  <2>1. ASSUME 0 < N PROVE h[N - 0] <= N - 0
    <3>1. N \in 1..N /\ N - 0 = N
        BY <2>1
    <3>2. QED
        BY <3>1
  <2>2. QED
    BY <2>1
<1>4. ASSUME NEW n \in Nat, n \in Down PROVE n + 1 \in Down
  <2>1. ASSUME n + 1 < N PROVE h[N - (n + 1)] <= N - (n + 1)
    <3>1. PICK k \in Nat : k = N - (n + 1) /\ k + 1 = N - n
        BY <2>1
    <3>2. k \in 1..N /\ k + 1 \in 1..N /\ k < k + 1 /\ h[k + 1] <= k + 1
        BY <1>4, <2>1, <3>1
    <3>3. PICK a \in Nat, b \in Nat : a = h[k] /\ b = h[k + 1] /\ a < b
        BY <3>2
    <3>4. QED
        BY <3>1, <3>2, <3>3
  <2>2. QED
    BY <2>1
<1>5. Nat \subseteq Up /\ Nat \subseteq Down
  <2> HIDE DEF Up, Down
  <2>1. QED
    BY <1>1, <1>2, <1>3, <1>4, SetInduction
<1>6. ASSUME NEW n \in 1..N PROVE h[n] = n
  <2>1. n - 1 \in Nat /\ (n - 1) + 1 = n /\ N - n \in Nat /\ N - (N - n) = n /\ N - n < N
    OBVIOUS
  <2>2. n <= h[n] /\ h[n] <= n
    <3>1. n - 1 \in Up /\ N - n \in Down
        BY <1>5, <2>1
    <3>2. n <= N
        OBVIOUS
    <3>3. QED
        BY <2>1, <3>1, <3>2
  <2>3. h[n] \in Nat
    OBVIOUS
  <2>4. QED
    BY <2>2, <2>3
<1>7. QED
    BY <1>6

Orders(R, S) ==
    /\ \A i, j, k \in S : <<i, j>> \in R /\ <<j, k>> \in R => <<i, k>> \in R
    /\ \A i \in S : <<i, i>> \notin R
    /\ \A i, j \in S : i = j \/ <<i, j>> \in R \/ <<j, i>> \in R
OnlyList(s, S, R) == \A t : (t \in SetToSeqs(S) /\ Listed(t, R)) <=> t = s

LEMMA OneOrder ==
    ASSUME NEW S, IsFiniteSet(S), NEW R, Orders(R, S)
    PROVE  \E s : OnlyList(s, S, R)
<1>1. PICK N \in Nat : N = Cardinality(S)
    BY FS_CardinalityType
<1> DEFINE Below(i) == {j \in S : <<j, i>> \in R}
           rank == [i \in S |-> Cardinality(Below(i)) + 1]
<1>2. ASSUME NEW i \in S
      PROVE  /\ IsFiniteSet(Below(i)) /\ Cardinality(Below(i)) \in Nat
             /\ Cardinality(Below(i)) < N
  <2>1. Below(i) \in SUBSET S /\ Below(i) # S
    BY DEF Orders
  <2>2. /\ IsFiniteSet(Below(i)) /\ Cardinality(Below(i)) <= N
        /\ N # Cardinality(Below(i))
    <3> HIDE DEF Below
    <3>1. QED
        BY <1>1, <2>1, FS_Subset
  <2>3. Cardinality(Below(i)) \in Nat
    BY <2>2, FS_CardinalityType
  <2>4. QED
    BY <2>2, <2>3
<1>3. ASSUME NEW i \in S, NEW j \in S, <<i, j>> \in R
      PROVE  Cardinality(Below(i)) < Cardinality(Below(j))
  <2>1. Below(i) \in SUBSET Below(j) /\ Below(i) # Below(j)
    <3>1. \A k \in Below(i) : k \in Below(j)
        BY <1>3 DEF Orders
    <3>2. i \in Below(j) /\ i \notin Below(i)
        BY <1>3 DEF Orders
    <3>3. QED
        BY <3>1, <3>2
  <2> HIDE DEF Below
  <2>2. /\ Cardinality(Below(i)) <= Cardinality(Below(j))
        /\ Cardinality(Below(j)) # Cardinality(Below(i))
    BY <1>2, <2>1, FS_Subset
  <2>3. PICK a \in Nat, b \in Nat : a = Cardinality(Below(i)) /\ b = Cardinality(Below(j))
    BY <1>2
  <2>4. QED
    BY <2>2, <2>3
<1>4. rank \in [S -> 1..N]
  <2>1. ASSUME NEW i \in S PROVE Cardinality(Below(i)) + 1 \in 1..N
    <3>1. PICK a \in Nat : a = Cardinality(Below(i)) /\ a < N
        BY <1>2
    <3>2. QED
        BY <3>1
  <2> HIDE DEF Below
  <2>2. QED
    BY <2>1
<1>5. ASSUME NEW i \in S, NEW j \in S, <<i, j>> \in R PROVE rank[i] < rank[j]
  <2>1. PICK a \in Nat, b \in Nat :
            a = Cardinality(Below(i)) /\ b = Cardinality(Below(j)) /\ a < b
    BY <1>2, <1>3, <1>5
  <2> HIDE DEF Below
  <2>2. rank[i] = a + 1 /\ rank[j] = b + 1
    BY <2>1
  <2>3. QED
    BY <2>1, <2>2
<1> HIDE DEF rank, Below
<1>6. \A i, j \in S : rank[i] = rank[j] => i = j
  <2>1. ASSUME NEW i \in S, NEW j \in S, i # j PROVE rank[i] # rank[j]
    <3>1. rank[i] \in Nat /\ rank[j] \in Nat
        BY <1>4
    <3>2. rank[i] < rank[j] \/ rank[j] < rank[i]
        BY <1>5, <2>1 DEF Orders
    <3>3. QED
        BY <3>1, <3>2
  <2>2. QED
    BY <2>1
<1>7. \A n \in 1..N : \E i \in S : rank[i] = n
  <2>1. IsFiniteSet(1..N) /\ Cardinality(1..N) = N
    <3>1. IsFiniteSet(1..N) /\ Cardinality(1..N) = IF 1 > N THEN 0 ELSE N - 1 + 1
        BY FS_Interval
    <3>2. QED
        BY <3>1
  <2>2. rank \in Injection(S, 1..N)
    BY <1>4, <1>6 DEF Injection, IsInjective
  <2>3. rank \in Surjection(S, 1..N)
    BY <1>1, <2>1, <2>2, FS_Injection
  <2>4. QED
    BY <2>3 DEF Surjection
<1>8. PICK s \in [1..N -> S] : \A n \in 1..N : rank[s[n]] = n
  <2> DEFINE at == [n \in 1..N |-> CHOOSE i \in S : rank[i] = n]
  <2>1. \A n \in 1..N : at[n] \in S /\ rank[at[n]] = n
    BY <1>7
  <2>2. at \in [1..N -> S]
    BY <2>1
  <2>3. QED
    BY <2>1, <2>2
<1>9. ASSUME NEW t
      PROVE  t \in SetToSeqs(S) <=>
                 t \in [1..N -> S] /\ \A i, j \in 1..N : i # j => t[i] # t[j]
    BY <1>1 DEF SetToSeqs
<1>10. s \in SetToSeqs(S)
  <2>1. \A i, j \in 1..N : i # j => s[i] # s[j]
    BY <1>8
  <2>2. QED
    BY <1>8, <1>9, <2>1
<1>11. Listed(s, R)
  <2>1. ASSUME NEW n \in 1..N, NEW m \in 1..N, n < m PROVE <<s[n], s[m]>> \in R
    <3>1. s[n] \in S /\ s[m] \in S /\ rank[s[n]] = n /\ rank[s[m]] = m
        BY <1>8
    <3>2. s[n] # s[m] /\ ~(rank[s[m]] < rank[s[n]])
        BY <2>1, <3>1
    <3>3. QED
        BY <1>5, <3>1, <3>2 DEF Orders
  <2>2. QED
    BY <1>8, <2>1 DEF Listed
<1>12. ASSUME NEW t, t \in SetToSeqs(S), Listed(t, R) PROVE t = s
  <2>1. t \in [1..N -> S]
    BY <1>9, <1>12
  <2>2. PICK h : h = [n \in 1..N |-> rank[t[n]]]
    OBVIOUS
  <2>3. h \in [1..N -> 1..N] /\ \A n \in 1..N : h[n] = rank[t[n]]
    BY <1>4, <2>1, <2>2
  <2>4. ASSUME NEW n \in 1..N, NEW m \in 1..N, n < m PROVE h[n] < h[m]
    <3>1. t[n] \in S /\ t[m] \in S /\ DOMAIN t = 1..N
        BY <2>1
    <3>2. <<t[n], t[m]>> \in R
        BY <1>12, <2>4, <3>1 DEF Listed
    <3>3. rank[t[n]] < rank[t[m]]
        BY <1>5, <3>1, <3>2
    <3>4. QED
        BY <2>3, <3>3
  <2>5. \A n \in 1..N : h[n] = n
    BY <2>3, <2>4, RisesByOne
  <2>6. \A n \in 1..N : t[n] = s[n]
    BY <1>6, <1>8, <2>1, <2>3, <2>5
  <2>7. QED
    BY <1>8, <2>1, <2>6
<1>13. QED
    BY <1>10, <1>11, <1>12 DEF OnlyList

\* However the two channels overlap, the order of the hits is settled: `rrf_fuse` sorts by
\* the score, then by the id, and there is one such list of what was found.
THEOREM OneFused ==
    ASSUME NEW bm, NEW near, IsList(bm), IsList(near)
    PROVE  \E s : Fused(bm, near) = {s}
<1> DEFINE S == Range(bm) \cup Range(near)
           Before(i, j) == \/ Score(i, bm, near) > Score(j, bm, near)
                           \/ Score(i, bm, near) = Score(j, bm, near) /\ i < j
           R == {p \in S \X S : Before(p[1], p[2])}
<1>1. S \in SUBSET Ids /\ IsFiniteSet(S) /\ S \subseteq Nat
  <2>1. ASSUME NEW s, IsList(s) PROVE Range(s) \subseteq Ids
    BY <2>1 DEF IsList, Range
  <2>2. S \in SUBSET Ids
    BY <2>1
  <2>3. IsFiniteSet(S) /\ Ids \subseteq Nat
    <3> HIDE DEF S
    <3>1. IsFiniteSet(S)
        BY <2>2, LibraryIs, FS_Subset
    <3>2. Ids \subseteq Nat
        BY LibraryIs
    <3>3. QED
        BY <3>1, <3>2
  <2>4. QED
    BY <2>2, <2>3
<1>2. \A i \in S : Score(i, bm, near) \in Nat
  <2>1. ASSUME NEW i \in S PROVE Score(i, bm, near) \in Nat
    <3>1. PICK a \in Nat, b \in Nat : a = Share(i, bm) /\ b = Share(i, near)
      <4>1. ASSUME NEW s, IsList(s) PROVE Place(i, s) <= Place(i, s)
        <5>1. PICK F \in Nat, L \in Nat : F = FusionCandidates /\ L = Len(s)
            BY <4>1, AskConstants DEF IsList
        <5>2. CASE i \in Range(s)
          <6>1. Place(i, s) \in 1..L
            BY <4>1, <5>1, <5>2, PlaceIs
          <6>2. QED
            BY <6>1
        <5>3. CASE i \notin Range(s)
          <6>1. Place(i, s) = F + 1
            BY <4>1, <5>1, <5>3, PlaceIs
          <6>2. QED
            BY <6>1
        <5>4. QED
            BY <5>2, <5>3
      <4>2. QED
        BY <4>1, SharesFall
    <3>2. QED
        BY <3>1 DEF Score
  <2>2. QED
    BY <2>1
<1>3. \A i, j \in S : <<i, j>> \in R <=> Before(i, j)
    OBVIOUS
<1>4. ASSUME NEW i \in S, NEW j \in S, NEW k \in S
      PROVE  /\ Before(i, j) /\ Before(j, k) => Before(i, k)
             /\ ~Before(i, i)
             /\ i = j \/ Before(i, j) \/ Before(j, i)
  <2>1. i \in Nat /\ j \in Nat /\ k \in Nat
    BY <1>1
  <2>2. PICK a \in Nat, b \in Nat, c \in Nat :
            a = Score(i, bm, near) /\ b = Score(j, bm, near) /\ c = Score(k, bm, near)
    BY <1>2
  <2>3. /\ Before(i, j) <=> a > b \/ (a = b /\ i < j)
        /\ Before(j, k) <=> b > c \/ (b = c /\ j < k)
        /\ Before(i, k) <=> a > c \/ (a = c /\ i < k)
        /\ Before(i, i) <=> a > a \/ (a = a /\ i < i)
        /\ Before(j, i) <=> b > a \/ (b = a /\ j < i)
    BY <2>2
  <2> HIDE DEF Before, S
  <2>4. QED
    BY <2>1, <2>3
<1>5. PICK s : OnlyList(s, S, R)
  <2> HIDE DEF S, Before, R
  <2>1. Orders(R, S)
    BY <1>3, <1>4 DEF Orders
  <2>2. QED
    BY <1>1, <2>1, OneOrder
<1>6. ASSUME NEW t PROVE t \in Fused(bm, near) <=> t \in SetToSeqs(S) /\ Listed(t, R)
  <2>1. t \in SetToSeqs(S) => \A n \in DOMAIN t : t[n] \in S
    BY DEF SetToSeqs
  <2>2. t \in Fused(bm, near) <=>
            t \in SetToSeqs(S) /\ \A n, m \in DOMAIN t : n < m => Before(t[n], t[m])
    BY DEF Fused
  <2> HIDE DEF S, Before, R
  <2>3. QED
    BY <1>3, <2>1, <2>2 DEF Listed
<1>7. Fused(bm, near) = {s}
    BY <1>5, <1>6, Zenon DEF OnlyList
<1>8. QED
    BY <1>7

\* So is the order of the passages of a call in a summary.
LEMMA OneForSummary ==
    ASSUME live \subseteq Ids, NEW c
    PROVE  \E s : ForSummary(c) = {s}
<1> DEFINE S == {i \in live : Library[i].call = c}
           R == {p \in S \X S : SummaryBefore(p[1], p[2])}
<1>1. IsFiniteSet(S) /\ S \subseteq Nat
  <2>1. S \in SUBSET Ids
    OBVIOUS
  <2> HIDE DEF S
  <2>2. IsFiniteSet(S)
    BY <2>1, LibraryIs, FS_Subset
  <2>3. Ids \subseteq Nat
    BY LibraryIs
  <2>4. QED
    BY <2>1, <2>2, <2>3
<1>2. \A i, j \in S : <<i, j>> \in R <=> SummaryBefore(i, j)
    OBVIOUS
<1>3. ASSUME NEW i \in S, NEW j \in S, NEW k \in S
      PROVE  /\ SummaryBefore(i, j) /\ SummaryBefore(j, k) => SummaryBefore(i, k)
             /\ ~SummaryBefore(i, i)
             /\ i = j \/ SummaryBefore(i, j) \/ SummaryBefore(j, i)
  <2>1. i \in Nat /\ j \in Nat /\ k \in Nat
    BY <1>1
  <2>2. PICK x \in Nat, y \in Nat, z \in Nat :
            /\ x = KindRank(Library[i].kind) /\ y = KindRank(Library[j].kind)
            /\ z = KindRank(Library[k].kind)
    BY DEF KindRank
  <2>3. /\ SummaryBefore(i, j) <=> x < y \/ (x = y /\ i < j)
        /\ SummaryBefore(j, k) <=> y < z \/ (y = z /\ j < k)
        /\ SummaryBefore(i, k) <=> x < z \/ (x = z /\ i < k)
        /\ SummaryBefore(i, i) <=> x < x \/ (x = x /\ i < i)
        /\ SummaryBefore(j, i) <=> y < x \/ (y = x /\ j < i)
    BY <2>2 DEF SummaryBefore
  <2>4. QED
    BY <2>1, <2>3
<1>4. PICK s : OnlyList(s, S, R)
  <2> HIDE DEF S, R
  <2>1. Orders(R, S)
    BY <1>2, <1>3 DEF Orders
  <2>2. QED
    BY <1>1, <2>1, OneOrder
<1>5. ASSUME NEW t PROVE t \in ForSummary(c) <=> t \in SetToSeqs(S) /\ Listed(t, R)
  <2>1. t \in SetToSeqs(S) => \A n \in DOMAIN t : t[n] \in S
    BY DEF SetToSeqs
  <2>2. t \in ForSummary(c) <=>
            t \in SetToSeqs(S) /\ \A n, m \in DOMAIN t : n < m => SummaryBefore(t[n], t[m])
    BY DEF ForSummary
  <2> HIDE DEF S, R
  <2>3. QED
    BY <1>2, <2>1, <2>2 DEF Listed
<1>6. ForSummary(c) = {s}
    BY <1>4, <1>5, Zenon DEF OnlyList
<1>7. QED
    BY <1>6

(* The state of the questions and of the chats *)
Stages == {"start", "create", "question", "route", "period", "search", "fetch", "assemble",
           "cards", "generate", "finish", "done"}
Posed == {"route", "period", "search", "fetch", "assemble", "cards", "generate", "finish"}

SourceSet ==
    {[call |-> p.call, start |-> p.start] : p \in FragSet} \cup {Source(c) : c \in AskCalls}

AskRecord ==
    [at : Stages, chat : Chats \cup {NoChat}, scope : AskCalls \cup {NoScope},
     for : {"answer", "when"}, period : SUBSET AskCalls, passes : Seq({"all", "own", "other"}),
     bm : Seq(Ids), near : Seq(Ids), hits : Seq(Ids), frags : Seq(FragSet), cards : Nat,
     grounded : BOOLEAN, sources : SUBSET SourceSet]

OfPeriod(s, period) == \A k \in 1..Len(s) : Library[s[k]].call \in period

ShownIn(sources, f) ==
    \A s \in sources : \E n \in 1..Len(f) : f[n].call = s.call /\ f[n].start = s.start

\* A question, wherever it is: the period is set before the search, the hits are of
\* it, and the prompt is what was assembled of them until the cards are added.
AskStands(r) ==
    /\ r \in AskRecord
    /\ Prompt(r.frags, r.period) /\ OfPeriod(r.hits, r.period)
    /\ r.at \in {"start", "create", "done"} => r.chat = NoChat
    /\ r.at \notin {"start", "create", "done"} => r.chat \in Chats
    /\ r.at \in {"start", "create", "question", "route"} => r.period = AskCalls
    /\ r.at \notin {"search", "fetch", "assemble", "cards"} => r.hits = <<>>
    /\ r.at \notin {"cards", "generate", "finish"} => r.frags = <<>>
    /\ r.at \in {"search", "fetch"} => r.passes # <<>>
    /\ r.at = "fetch" => /\ IsList(r.bm) /\ IsList(r.near)
                         /\ OfPeriod(r.bm, r.period) /\ OfPeriod(r.near, r.period)
    /\ r.at = "cards" => r.frags = Assembled(Passages(r.hits), r.scope = NoScope)
    /\ r.at = "generate" => r.frags # <<>>
    /\ r.grounded => r.at = "finish" /\ r.sources # {} /\ ShownIn(r.sources, r.frags)

Messages == Seq([by : {"user", "assistant"}, ask : Asks])
ChatRecord ==
    [state : {"unborn", "open", "deleted"}, call : AskCalls \cup {NoScope}, messages : Messages]

Answered(m) ==
    \A n \in 1..Len(m) : m[n].by = "assistant" =>
        \E k \in 1..n - 1 : m[k] = Message(m[n].ask, "user")
Asked(m, a) == \E k \in 1..Len(m) : m[k] = Message(a, "user")

\* The chats: one of a call; the chat of a question was made, and has its question
\* once that is posed.
ChatsStand ==
    /\ \A c \in AskCalls : \A g, h \in CallChats(c) : g = h
    /\ \A h \in Chats : Answered(chats[h].messages)
    /\ \A a \in Asks, h \in Chats : asks[a].chat = h =>
           /\ chats[h].state # "unborn"
           /\ chats[h].state = "open" =>
                  /\ chats[h].call = asks[a].scope
                  /\ asks[a].at \in Posed => Asked(chats[h].messages, a)

AskInv ==
    /\ live \subseteq Ids /\ readyCalls \subseteq AskCalls
    /\ chats \in [Chats -> ChatRecord] /\ asks \in [Asks -> AskRecord]
    /\ \A a \in Asks : AskStands(asks[a])
    /\ ChatsStand

LEMMA PassagesKnown ==
    ASSUME NEW s \in Seq(Ids)
    PROVE  /\ Passages(s) \in Seq(AllPassages) /\ Len(Passages(s)) = Len(s)
           /\ \A n \in 1..Len(s) : Passages(s)[n] = Library[s[n]]
<1>1. \A n \in 1..Len(s) : Library[s[n]] \in AllPassages
    BY LibraryIs
<1>2. Passages(s) = [n \in 1..Len(s) |-> Library[s[n]]]
    BY DEF Passages
<1>3. Passages(s) \in [1..Len(s) -> AllPassages]
    BY <1>1, <1>2
<1>4. QED
    BY <1>2, <1>3

LEMMA NothingFound ==
    ASSUME NEW period
    PROVE  OfPeriod(<<>>, period) /\ Prompt(<<>>, period)
<1>1. Len(<<>>) = 0
    BY EmptySeq
<1>2. QED
    BY <1>1, EmptyPrompt DEF OfPeriod

LEMMA BegunStands == AskStands(Begun) /\ AskStands(Ended)
<1>1. <<>> \in Seq(Ids) /\ <<>> \in Seq(FragSet) /\ <<>> \in Seq({"all", "own", "other"})
    BY EmptySeq
<1>2. Begun \in AskRecord /\ Ended \in AskRecord
    BY <1>1 DEF Begun, Ended, AskRecord, Stages
<1>3. OfPeriod(<<>>, AskCalls) /\ Prompt(<<>>, AskCalls)
    BY NothingFound
<1>4. QED
    BY <1>2, <1>3 DEF AskStands, Begun, Ended

\* The answer that is no answer of the model.
Told(chat, scope, sources) ==
    [Begun EXCEPT !.at = "finish", !.chat = chat, !.scope = scope, !.sources = sources]

LEMMA ToldStands ==
    ASSUME NEW chat \in Chats, NEW scope \in AskCalls \cup {NoScope},
           NEW sources \in SUBSET SourceSet
    PROVE  /\ AskStands(Told(chat, scope, sources))
           /\ Told(chat, scope, sources).chat = chat /\ Told(chat, scope, sources).scope = scope
<1>1. PICK b \in AskRecord : b = Begun
    BY BegunStands DEF AskStands
<1>2. b.period = AskCalls /\ b.hits = <<>> /\ b.frags = <<>> /\ b.grounded = FALSE
    BY <1>1 DEF Begun
<1>3. PICK r : r = [b EXCEPT !.at = "finish", !.chat = chat, !.scope = scope,
                             !.sources = sources]
    OBVIOUS
<1>4. /\ r.at = "finish" /\ r.chat = chat /\ r.scope = scope
      /\ r.period = AskCalls /\ r.hits = <<>> /\ r.frags = <<>> /\ r.grounded = FALSE
    BY <1>2, <1>3 DEF AskRecord
<1>5. r \in AskRecord
    BY <1>3 DEF AskRecord, Stages
<1>6. OfPeriod(<<>>, AskCalls) /\ Prompt(<<>>, AskCalls)
    BY NothingFound
<1>7. AskStands(r)
    BY <1>4, <1>5, <1>6 DEF AskStands
<1>8. r = Told(chat, scope, sources)
    BY <1>1, <1>3, Zenon DEF Told
<1>9. QED
    BY <1>4, <1>7, <1>8

\* A question that goes on leaves the chats as they are.
LEMMA AskMoves ==
    ASSUME AskInv, NEW a \in Asks, NEW r, AskStands(r), AskGoes(a, r), UNCHANGED <<Archive, chats>>,
           \/ r.chat = NoChat
           \/ /\ r.chat = asks[a].chat /\ r.scope = asks[a].scope
              /\ r.at \in Posed => asks[a].at \in Posed
    PROVE  AskInv'
<1>1. /\ live' = live /\ readyCalls' = readyCalls /\ chats' = chats
      /\ asks' = [asks EXCEPT ![a] = r] /\ asks \in [Asks -> AskRecord]
    BY DEF Archive, AskGoes, AskInv
<1>2. r \in AskRecord
    BY DEF AskStands
<1>3. /\ asks' \in [Asks -> AskRecord] /\ asks'[a] = r
      /\ \A b \in Asks : b # a => asks'[b] = asks[b]
    BY <1>1, <1>2
<1>4. \A b \in Asks : AskStands(asks'[b])
    BY <1>3 DEF AskInv
<1>5. ASSUME NEW b \in Asks, NEW h \in Chats, asks'[b].chat = h
      PROVE  /\ chats[h].state # "unborn"
             /\ chats[h].state = "open" =>
                    /\ chats[h].call = asks'[b].scope
                    /\ asks'[b].at \in Posed => Asked(chats[h].messages, b)
  <2>1. /\ asks[b].chat = h /\ asks'[b].scope = asks[b].scope
        /\ asks'[b].at \in Posed => asks[b].at \in Posed
    <3>1. NoChat \notin Chats
        BY AskAssumption
    <3>2. QED
        BY <1>3, <1>5, <3>1
  <2>2. QED
    BY <2>1 DEF AskInv, ChatsStand
<1>6. ChatsStand'
    BY <1>1, <1>5 DEF AskInv, ChatsStand, CallChats, IsOpen
<1>7. QED
    BY <1>1, <1>3, <1>4, <1>6 DEF AskInv

LEMMA PassesKnown ==
    LET P == {"all", "own", "other"}
    IN  /\ <<"all">> \in Seq(P) /\ <<"all">> # <<>>
        /\ <<"own", "other">> \in Seq(P) /\ <<"own", "other">> # <<>>
OBVIOUS

LEMMA AnswersKeep ==
    ASSUME AskInv, NEW a \in Asks, NEW sources \in SUBSET SourceSet, asks[a].at \in Posed,
           Answers(a, sources), UNCHANGED <<Archive, chats>>
    PROVE  AskInv'
<1>1. asks[a].chat \in Chats /\ asks[a].scope \in AskCalls \cup {NoScope}
  <2>1. PICK b \in AskRecord : b = asks[a] /\ AskStands(b)
    BY DEF AskInv
  <2>2. QED
    BY <2>1 DEF AskStands, AskRecord, Posed
<1>2. PICK r : r = Told(asks[a].chat, asks[a].scope, sources)
    OBVIOUS
<1>3. AskStands(r) /\ r.chat = asks[a].chat /\ r.scope = asks[a].scope
    BY <1>1, <1>2, ToldStands
<1>4. AskGoes(a, r)
    BY <1>2, Zenon DEF Answers, Told
<1>5. QED
    BY <1>3, <1>4, AskMoves

LEMMA FailsKeeps ==
    ASSUME AskInv, NEW a \in Asks, AskFails(a)
    PROVE  AskInv'
<1>1. AskGoes(a, Ended) /\ UNCHANGED <<Archive, chats>>
    BY DEF AskFails
<1>2. PICK r : r = Ended
    OBVIOUS
<1>3. AskStands(r) /\ r.chat = NoChat
    BY <1>2, BegunStands DEF Ended, Begun
<1>4. AskGoes(a, r)
    BY <1>1, <1>2, Zenon
<1>5. QED
    BY <1>1, <1>3, <1>4, AskMoves

LEMMA DirectlyKeeps ==
    ASSUME AskInv, NEW a \in Asks, AnswerDirectly(a)
    PROVE  AskInv'
<1>1. PICK S \in {{}} \cup {{Source(c)} : c \in readyCalls} \cup {{Source(c) : c \in readyCalls}} :
          Answers(a, S)
    BY DEF AnswerDirectly
<1>2. S \in SUBSET SourceSet
  <2>1. \A c \in readyCalls : Source(c) \in SourceSet
    BY DEF AskInv, SourceSet
  <2>2. QED
    BY <2>1
<1>3. asks[a].at \in Posed /\ UNCHANGED <<Archive, chats>>
    BY DEF AnswerDirectly, At, Posed
<1>4. QED
    BY <1>1, <1>2, <1>3, AnswersKeep

\* What has nothing yet: the next stage of a question without hits.
LEMMA GoesToPeriod ==
    ASSUME AskInv, NEW a \in Asks, asks[a].at = "route",
           AskGoes(a, [asks[a] EXCEPT !.at = "period"]), UNCHANGED <<Archive, chats>>
    PROVE  AskInv'
<1>1. PICK b \in AskRecord : b = asks[a]
    BY DEF AskInv
<1>2. AskStands(b) /\ b.at = "route"
    BY <1>1 DEF AskInv
<1>3. PICK r : r = [b EXCEPT !.at = "period"]
    OBVIOUS
<1>4. /\ r.at = "period" /\ r.chat = b.chat /\ r.scope = b.scope /\ r.period = b.period
      /\ r.hits = b.hits /\ r.frags = b.frags /\ r.grounded = b.grounded
    BY <1>3 DEF AskRecord
<1>5. r \in AskRecord
    BY <1>3 DEF AskRecord, Stages
<1>6. AskStands(r)
    BY <1>2, <1>4, <1>5 DEF AskStands
<1>7. AskGoes(a, r)
    BY <1>1, <1>3, Zenon
<1>8. r.at \in Posed /\ asks[a].at \in Posed
    BY <1>1, <1>2, <1>4 DEF Posed
<1>9. QED
    BY <1>1, <1>4, <1>6, <1>7, <1>8, AskMoves

LEMMA NoRouteKeeps ==
    ASSUME AskInv, NEW a \in Asks, NoRoute(a)
    PROVE  AskInv'
<1>1. /\ asks[a].at = "route" /\ AskGoes(a, [asks[a] EXCEPT !.at = "period"])
      /\ UNCHANGED <<Archive, chats>>
    BY DEF NoRoute, At
<1>2. QED
    BY <1>1, GoesToPeriod

LEMMA WhenKeeps ==
    ASSUME AskInv, NEW a \in Asks, AskWhen(a)
    PROVE  AskInv'
<1>1. PICK b \in AskRecord : b = asks[a]
    BY DEF AskInv
<1>2. AskStands(b) /\ b.at = "route" /\ UNCHANGED <<Archive, chats>>
    BY <1>1 DEF AskInv, AskWhen, At
<1>3. PICK p \in Seq({"all", "own", "other"}) : p = <<"all">> /\ p # <<>>
    BY PassesKnown, Zenon
<1>4. PICK r : r = [b EXCEPT !.at = "search", !.for = "when", !.passes = p]
    OBVIOUS
<1>5. /\ r.at = "search" /\ r.chat = b.chat /\ r.scope = b.scope /\ r.period = b.period
      /\ r.hits = b.hits /\ r.frags = b.frags /\ r.grounded = b.grounded /\ r.passes = p
    BY <1>4 DEF AskRecord
<1>6. r \in AskRecord
    BY <1>4 DEF AskRecord, Stages
<1>7. AskStands(r)
    BY <1>2, <1>3, <1>5, <1>6 DEF AskStands
<1>8. AskGoes(a, r)
    BY <1>1, <1>3, <1>4, Zenon DEF AskWhen
<1>9. r.at \in Posed /\ asks[a].at \in Posed
    BY <1>1, <1>2, <1>5 DEF Posed
<1>10. QED
    BY <1>1, <1>2, <1>5, <1>7, <1>8, <1>9, AskMoves

LEMMA SummarizeKeeps ==
    ASSUME AskInv, NEW a \in Asks, Summarize(a)
    PROVE  AskInv'
<1>1. PICK b \in AskRecord : b = asks[a]
    BY DEF AskInv
<1>2. AskStands(b) /\ b.at = "route" /\ UNCHANGED <<Archive, chats>>
    BY <1>1 DEF AskInv, Summarize, At
<1> DEFINE Goes(order) ==
               LET frags == Assembled(Passages(order), FALSE) IN
               AskGoes(a, IF frags = <<>> THEN [asks[a] EXCEPT !.at = "period"]
                          ELSE [asks[a] EXCEPT !.at = "generate", !.frags = frags])
<1>3. PICK c : \E order \in ForSummary(c) : Goes(order)
    BY DEF Summarize
<1>4. PICK order \in ForSummary(c) : Goes(order)
    BY <1>3
<1>5. order \in Seq(Ids)
  <2>1. PICK S \in SUBSET Ids : order \in SetToSeqs(S) /\ S = {i \in live : Library[i].call = c}
    BY DEF ForSummary, AskInv
  <2>2. order \in [1..Cardinality(S) -> S] /\ Cardinality(S) \in Nat
    BY <2>1, LibraryIs, FS_Subset, FS_CardinalityType DEF SetToSeqs
  <2>3. order \in [1..Cardinality(S) -> Ids]
    BY <2>1, <2>2
  <2>4. QED
    BY <2>2, <2>3
<1>6. PICK f : f = Assembled(Passages(order), FALSE)
    OBVIOUS
<1>7. f \in Seq(FragSet) /\ Prompt(f, AskCalls)
  <2>1. PICK ps \in Seq(AllPassages) : ps = Passages(order)
    BY <1>5, PassagesKnown
  <2>2. \A n \in 1..Len(ps) : ps[n].call \in AskCalls
    <3>1. \A n \in 1..Len(ps) : ps[n] \in AllPassages
        OBVIOUS
    <3>2. QED
        BY <3>1, LibraryIs DEF Indexed
  <2>3. Prompt(Assembled(ps, FALSE), AskCalls)
    BY <2>2, TakenPrompt
  <2>4. QED
    BY <1>6, <2>1, <2>3 DEF Prompt
<1>8. CASE f = <<>>
  <2>1. AskGoes(a, [asks[a] EXCEPT !.at = "period"])
    BY <1>4, <1>6, <1>8, Zenon
  <2>2. QED
    BY <1>1, <1>2, <2>1, GoesToPeriod
<1>9. CASE f # <<>>
  <2>1. PICK r : r = [b EXCEPT !.at = "generate", !.frags = f]
    OBVIOUS
  <2>2. /\ r.at = "generate" /\ r.chat = b.chat /\ r.scope = b.scope /\ r.period = b.period
        /\ r.hits = b.hits /\ r.frags = f /\ r.grounded = b.grounded
    BY <2>1 DEF AskRecord
  <2>3. r \in AskRecord
    BY <1>7, <2>1 DEF AskRecord, Stages
  <2>4. AskStands(r)
    BY <1>2, <1>7, <1>9, <2>2, <2>3 DEF AskStands
  <2>5. AskGoes(a, r)
    BY <1>1, <1>4, <1>6, <1>9, <2>1, Zenon
  <2>6. r.at \in Posed /\ asks[a].at \in Posed
    BY <1>1, <1>2, <2>2 DEF Posed
  <2>7. QED
    BY <1>1, <1>2, <2>2, <2>4, <2>5, <2>6, AskMoves
<1>10. QED
    BY <1>8, <1>9

LEMMA PeriodKeeps ==
    ASSUME AskInv, NEW a \in Asks, FilterPeriod(a)
    PROVE  AskInv'
<1>1. PICK b \in AskRecord : b = asks[a]
    BY DEF AskInv
<1>2. AskStands(b) /\ b.at = "period" /\ UNCHANGED <<Archive, chats>>
    BY <1>1 DEF AskInv, FilterPeriod, At
<1>3. PICK S \in SUBSET AskCalls :
          IF S = {} THEN Answers(a, {})
          ELSE AskGoes(a, [asks[a] EXCEPT !.at = "search", !.period = S,
                   !.passes = IF asks[a].scope = NoScope THEN <<"all">> ELSE <<"own", "other">>])
  <2>1. Periods \subseteq SUBSET AskCalls
    BY DEF Periods, AskInv
  <2>2. QED
    BY <2>1 DEF FilterPeriod
<1>4. CASE S = {}
  <2>1. Answers(a, {}) /\ {} \in SUBSET SourceSet /\ asks[a].at \in Posed
    BY <1>1, <1>2, <1>3, <1>4 DEF Posed
  <2>2. QED
    BY <1>2, <2>1, AnswersKeep
<1>5. CASE S # {}
  <2>1. PICK p \in Seq({"all", "own", "other"}) :
            p = (IF asks[a].scope = NoScope THEN <<"all">> ELSE <<"own", "other">>) /\ p # <<>>
    BY PassesKnown, Zenon
  <2>2. PICK r : r = [b EXCEPT !.at = "search", !.period = S, !.passes = p]
    OBVIOUS
  <2>3. /\ r.at = "search" /\ r.chat = b.chat /\ r.scope = b.scope /\ r.period = S
        /\ r.hits = b.hits /\ r.frags = b.frags /\ r.grounded = b.grounded /\ r.passes = p
    BY <2>2 DEF AskRecord
  <2>4. r \in AskRecord
    BY <2>2 DEF AskRecord, Stages
  <2>5. r.hits = <<>> /\ r.frags = <<>>
    BY <1>2, <2>3 DEF AskStands
  <2>6. AskStands(r)
    BY <1>2, <2>1, <2>3, <2>4, <2>5, NothingFound DEF AskStands
  <2>7. AskGoes(a, r)
    BY <1>1, <1>3, <1>5, <2>1, <2>2, Zenon
  <2>8. r.at \in Posed /\ asks[a].at \in Posed
    BY <1>1, <1>2, <2>3 DEF Posed
  <2>9. QED
    BY <1>1, <1>2, <2>3, <2>6, <2>7, <2>8, AskMoves
<1>6. QED
    BY <1>4, <1>5

(* The search *)
LEMMA LimitIs == ASSUME NEW a PROVE Limit(a) \in Nat \ {0}
BY AskConstants DEF Limit

LEMMA ListsAre ==
    ASSUME NEW S \in SUBSET Ids, NEW n \in Nat, NEW s \in Lists(S, n)
    PROVE  /\ s \in Seq(S) /\ s \in Seq(Ids) /\ Len(s) <= n
           /\ \A i, j \in 1..Len(s) : s[i] = s[j] => i = j
<1>1. PICK m \in 0..n : s \in [1..m -> S]
    BY DEF Lists, SeqOf
<1>2. m \in Nat /\ m <= n /\ s \in [1..m -> Ids]
    BY <1>1
<1>3. s \in Seq(S) /\ s \in Seq(Ids) /\ Len(s) = m /\ DOMAIN s = 1..m
    BY <1>1, <1>2
<1>4. \A i, j \in DOMAIN s : s[i] = s[j] => i = j
    BY DEF Lists, IsInjective
<1>5. QED
    BY <1>2, <1>3, <1>4

LEMMA FoundKeeps ==
    ASSUME AskInv, NEW a \in Asks, NEW s \in Seq(Ids), OfPeriod(s, asks[a].period),
           asks[a].at \in {"search", "fetch"}, Found(a, s), UNCHANGED <<Archive, chats>>
    PROVE  AskInv'
<1>1. PICK b \in AskRecord : b = asks[a]
    BY DEF AskInv
<1>2. AskStands(b) /\ b.at \in {"search", "fetch"}
    BY <1>1 DEF AskInv
<1>3. PICK rest \in Seq({"all", "own", "other"}) : rest = Tail(b.passes)
  <2>1. PICK P : P = {"all", "own", "other"}
    OBVIOUS
  <2>2. PICK p \in Seq(P) : p = b.passes /\ p # <<>>
    BY <1>2, <2>1 DEF AskStands, AskRecord
  <2>3. Tail(p) \in Seq(P)
    BY <2>2
  <2>4. QED
    BY <2>1, <2>2, <2>3
<1>4. PICK all \in Seq(Ids) : all = b.hits \o s
  <2>1. PICK h \in Seq(Ids) : h = b.hits
    BY DEF AskRecord
  <2>2. h \o s \in Seq(Ids)
    OBVIOUS
  <2>3. QED
    BY <2>1, <2>2
<1>5. OfPeriod(all, b.period)
  <2>1. PICK h \in Seq(Ids) : h = b.hits /\ OfPeriod(h, b.period)
    BY <1>2 DEF AskRecord, AskStands
  <2>2. PICK n \in Nat, m \in Nat : n = Len(h) /\ m = Len(s)
    OBVIOUS
  <2>3. /\ Len(all) = n + m
        /\ \A i \in 1..n + m : all[i] = IF i <= n THEN h[i] ELSE s[i - n]
    BY <1>4, <2>1, <2>2, ConcatProperties
  <2>4. ASSUME NEW i \in 1..n + m PROVE Library[all[i]].call \in b.period
    <3>1. i <= n => i \in 1..n
        BY <2>2
    <3>2. ~(i <= n) => i - n \in 1..m
        BY <2>2
    <3>3. QED
        BY <1>1, <2>1, <2>2, <2>3, <3>1, <3>2 DEF OfPeriod
  <2>5. QED
    BY <2>3, <2>4 DEF OfPeriod
<1>6. PICK at \in {"assemble", "search"} :
          at = IF rest = <<>> THEN "assemble" ELSE "search"
    OBVIOUS
<1>7. PICK r : r = [b EXCEPT !.at = at, !.passes = rest, !.bm = <<>>, !.near = <<>>,
                             !.hits = all]
    OBVIOUS
<1>8. /\ r.at = at /\ r.chat = b.chat /\ r.scope = b.scope /\ r.period = b.period
      /\ r.hits = all /\ r.frags = b.frags /\ r.grounded = b.grounded /\ r.passes = rest
    BY <1>7 DEF AskRecord
<1>9. r \in AskRecord
  <2>1. <<>> \in Seq(Ids)
    BY EmptySeq
  <2>2. at \in Stages
    BY DEF Stages
  <2>3. QED
    BY <1>7, <2>1, <2>2 DEF AskRecord
<1>10. AskStands(r)
  <2>1. /\ Prompt(r.frags, r.period) /\ OfPeriod(r.hits, r.period) /\ r.frags = <<>>
        /\ ~r.grounded /\ r.chat \in Chats
    BY <1>2, <1>5, <1>8 DEF AskStands
  <2>2. r.at \in {"search", "fetch"} => r.passes # <<>>
    BY <1>6, <1>8
  <2>3. r.at \in {"search", "assemble"}
    BY <1>8
  <2>4. QED
    BY <1>9, <2>1, <2>2, <2>3 DEF AskStands
<1>11. AskGoes(a, r)
  <2>1. AskGoes(a, [asks[a] EXCEPT !.at = IF rest = <<>> THEN "assemble" ELSE "search",
                            !.passes = rest, !.bm = <<>>, !.near = <<>>, !.hits = all])
    BY <1>1, <1>3, <1>4, Zenon DEF Found
  <2>2. QED
    BY <1>1, <1>6, <1>7, <2>1, Zenon
<1>12. r.at \in Posed /\ asks[a].at \in Posed
    BY <1>1, <1>2, <1>8 DEF Posed
<1>13. QED
    BY <1>1, <1>8, <1>10, <1>11, <1>12, AskMoves

LEMMA WordsKeep ==
    ASSUME AskInv, NEW a \in Asks, SearchWords(a)
    PROVE  AskInv'
<1> DEFINE S == {i \in live : InPass(a, i)}
           T == {i \in Ids : InPeriod(a, i)}
<1>1. PICK s \in Lists(S, Limit(a)) : Found(a, Within(s, T))
    BY DEF SearchWords
<1>2. asks[a].at = "search" /\ UNCHANGED <<Archive, chats>>
    BY DEF SearchWords, At
<1>3. s \in Seq(Ids)
  <2>1. S \in SUBSET Ids
    BY DEF AskInv
  <2>2. Limit(a) \in Nat
    BY LimitIs
  <2> HIDE DEF S
  <2>3. QED
    BY <1>1, <2>1, <2>2, ListsAre
<1>4. PICK w \in Seq(Ids \cap T) : w = Within(s, T)
  <2> HIDE DEF T
  <2>1. QED
    BY <1>3, WithinIs
<1>5. w \in Seq(Ids) /\ \A n \in 1..Len(w) : w[n] \in T
    BY SeqMonotonic
<1>6. OfPeriod(w, asks[a].period)
    BY <1>5 DEF OfPeriod, InPeriod
<1>7. Found(a, w)
    BY <1>1, <1>4, Zenon
<1>8. QED
    BY <1>2, <1>5, <1>6, <1>7, FoundKeeps

LEMMA BothKeep ==
    ASSUME AskInv, NEW a \in Asks, SearchBoth(a)
    PROVE  AskInv'
<1> DEFINE S == {i \in live : InPass(a, i) /\ InPeriod(a, i)}
           T == {i \in Ids : InPass(a, i) /\ InPeriod(a, i)}
<1>1. PICK b \in AskRecord : b = asks[a]
    BY DEF AskInv
<1>2. AskStands(b) /\ b.at = "search" /\ UNCHANGED <<Archive, chats>>
    BY <1>1 DEF AskInv, SearchBoth, At
<1>3. PICK bm \in Lists(S, FusionCandidates), near \in Lists(T, FusionCandidates) :
          AskGoes(a, [asks[a] EXCEPT !.at = "fetch", !.bm = bm, !.near = near])
    BY DEF SearchBoth
<1>4. S \in SUBSET Ids /\ T \in SUBSET Ids /\ FusionCandidates \in Nat
    BY AskConstants DEF AskInv
<1>5. \A i \in S \cup T : Library[i].call \in b.period
    BY <1>1 DEF InPeriod
<1> HIDE DEF S, T
<1>6. /\ bm \in Seq(S) /\ bm \in Seq(Ids) /\ IsList(bm)
      /\ near \in Seq(T) /\ near \in Seq(Ids) /\ IsList(near)
    BY <1>3, <1>4, ListsAre DEF IsList
<1>7. OfPeriod(bm, b.period) /\ OfPeriod(near, b.period)
    BY <1>5, <1>6 DEF OfPeriod
<1>8. PICK r : r = [b EXCEPT !.at = "fetch", !.bm = bm, !.near = near]
    OBVIOUS
<1>9. /\ r.at = "fetch" /\ r.chat = b.chat /\ r.scope = b.scope /\ r.period = b.period
      /\ r.hits = b.hits /\ r.frags = b.frags /\ r.grounded = b.grounded
      /\ r.passes = b.passes /\ r.bm = bm /\ r.near = near
    BY <1>8 DEF AskRecord
<1>10. r \in AskRecord
    BY <1>6, <1>8 DEF AskRecord, Stages
<1>11. AskStands(r)
  <2>1. /\ Prompt(r.frags, r.period) /\ OfPeriod(r.hits, r.period) /\ r.frags = <<>>
        /\ ~r.grounded /\ r.passes # <<>> /\ r.chat \in Chats
    BY <1>2, <1>9 DEF AskStands
  <2>2. /\ IsList(r.bm) /\ IsList(r.near)
        /\ OfPeriod(r.bm, r.period) /\ OfPeriod(r.near, r.period)
    BY <1>6, <1>7, <1>9
  <2>3. QED
    BY <1>9, <1>10, <2>1, <2>2 DEF AskStands
<1>12. AskGoes(a, r)
    BY <1>1, <1>3, <1>8, Zenon
<1>13. r.at \in Posed /\ asks[a].at \in Posed
    BY <1>1, <1>2, <1>9 DEF Posed
<1>14. QED
    BY <1>1, <1>2, <1>9, <1>11, <1>12, <1>13, AskMoves

LEMMA FetchKeeps ==
    ASSUME AskInv, NEW a \in Asks, FetchMissing(a)
    PROVE  AskInv'
<1>1. PICK b \in AskRecord : b = asks[a]
    BY DEF AskInv
<1>2. AskStands(b) /\ b.at = "fetch" /\ UNCHANGED <<Archive, chats>>
    BY <1>1 DEF AskInv, FetchMissing, At
<1>3. /\ IsList(b.bm) /\ IsList(b.near)
      /\ OfPeriod(b.bm, b.period) /\ OfPeriod(b.near, b.period)
    BY <1>2 DEF AskStands
<1> DEFINE A == {i \in Ids : Library[i].call \in b.period}
           S == Range(b.bm) \cup Range(b.near)
           T == Range(b.bm) \cup live
<1>4. PICK f \in Fused(b.bm, b.near) :
          Found(a, SubSeq(Within(f, T), 1, Min({Len(Within(f, T)), Limit(a)})))
    BY <1>1 DEF FetchMissing
<1>5. S \subseteq A
  <2>1. ASSUME NEW s, IsList(s), OfPeriod(s, b.period) PROVE Range(s) \subseteq A
    BY <2>1 DEF IsList, OfPeriod, Range
  <2>2. QED
    BY <1>3, <2>1
<1>6. f \in Seq(A)
  <2>1. f \in [1..Cardinality(S) -> S]
    BY DEF Fused, SetToSeqs
  <2>2. S \in SUBSET Ids
    BY <1>5
  <2>3. Cardinality(S) \in Nat
    <3> HIDE DEF S
    <3>1. QED
        BY <2>2, LibraryIs, FS_Subset, FS_CardinalityType
  <2>4. f \in [1..Cardinality(S) -> A]
    BY <1>5, <2>1
  <2> HIDE DEF A, S
  <2>5. QED
    BY <2>3, <2>4
<1>7. PICK w \in Seq(A) : w = Within(f, T)
  <2> HIDE DEF A, T
  <2>1. Within(f, T) \in Seq(A \cap T)
    BY <1>6, WithinIs
  <2>2. Seq(A \cap T) \subseteq Seq(A)
    BY SeqMonotonic
  <2>3. QED
    BY <2>1, <2>2
<1>8. PICK n \in Nat, m \in Nat : n = Len(w) /\ m = Limit(a)
    BY LimitIs
<1>9. PICK k \in 0..n : k = Min({n, m})
  <2>1. Min({n, m}) = IF n <= m THEN n ELSE m
    BY DEF Min
  <2>2. QED
    BY <2>1
<1>10. PICK v \in Seq(A) : v = SubSeq(w, 1, k)
  <2> HIDE DEF A
  <2>1. \A i \in 1..k : w[i] \in A
    BY <1>8, <1>9
  <2>2. k \in Int /\ 1 \in Int
    BY <1>9
  <2>3. SubSeq(w, 1, k) \in Seq(A)
    BY <2>1, <2>2, SubSeqProperties
  <2>4. QED
    BY <2>3
<1>11. v \in Seq(Ids) /\ OfPeriod(v, b.period)
  <2>1. \A i \in 1..Len(v) : v[i] \in A
    OBVIOUS
  <2>2. v \in Seq(Ids)
    BY SeqMonotonic
  <2>3. QED
    BY <2>1, <2>2 DEF OfPeriod
<1>12. Found(a, v)
    BY <1>4, <1>7, <1>8, <1>9, <1>10, Zenon
<1>13. QED
    BY <1>1, <1>2, <1>11, <1>12, FoundKeeps

LEMMA WhenAnswered ==
    ASSUME AskInv, NEW a \in Asks, AnswerWhen(a)
    PROVE  AskInv'
<1>1. PICK b \in AskRecord : b = asks[a]
    BY DEF AskInv
<1>2. AskStands(b) /\ b.at = "assemble" /\ UNCHANGED <<Archive, chats>>
    BY <1>1 DEF AskInv, AnswerWhen, At
<1> DEFINE named == {n \in FirstHits(asks[a].hits) : Library[asks[a].hits[n]].call \in calls}
           sources == {[call |-> Library[asks[a].hits[n]].call,
                        start |-> Library[asks[a].hits[n]].start] : n \in named}
<1>3. \/ AskGoes(a, [asks[a] EXCEPT !.at = "period", !.for = "answer", !.hits = <<>>])
      \/ Answers(a, sources)
    BY DEF AnswerWhen
<1>4. asks[a].at \in Posed
    BY <1>1, <1>2 DEF Posed
<1>5. CASE Answers(a, sources)
  <2>1. \A n \in named : Library[asks[a].hits[n]] \in FragSet
    <3>1. asks[a].hits \in Seq(Ids)
        BY <1>1 DEF AskRecord
    <3>2. \A n \in named : n \in DOMAIN asks[a].hits
        BY DEF FirstHits
    <3>3. \A n \in named : asks[a].hits[n] \in Ids
        BY <3>1, <3>2
    <3>4. QED
        BY <3>3, LibraryIs DEF FragSet
  <2>2. sources \in SUBSET SourceSet
    <3> HIDE DEF named
    <3>1. QED
        BY <2>1 DEF SourceSet
  <2> HIDE DEF sources
  <2>3. QED
    BY <1>2, <1>4, <1>5, <2>2, AnswersKeep
<1>6. CASE AskGoes(a, [asks[a] EXCEPT !.at = "period", !.for = "answer", !.hits = <<>>])
  <2>1. PICK r : r = [b EXCEPT !.at = "period", !.for = "answer", !.hits = <<>>]
    OBVIOUS
  <2>2. /\ r.at = "period" /\ r.chat = b.chat /\ r.scope = b.scope /\ r.period = b.period
        /\ r.hits = <<>> /\ r.frags = b.frags /\ r.grounded = b.grounded
    BY <2>1 DEF AskRecord
  <2>3. <<>> \in Seq(Ids) /\ OfPeriod(<<>>, b.period)
    BY EmptySeq, NothingFound
  <2>4. r \in AskRecord
    BY <2>1, <2>3 DEF AskRecord, Stages
  <2>5. AskStands(r)
    BY <1>2, <2>2, <2>3, <2>4 DEF AskStands
  <2>6. AskGoes(a, r)
    BY <1>1, <1>6, <2>1, Zenon
  <2>7. QED
    BY <1>1, <1>2, <1>4, <2>2, <2>5, <2>6, AskMoves
<1>7. QED
    BY <1>3, <1>5, <1>6

(* The prompt and the answer *)
LEMMA AssembleKeeps ==
    ASSUME AskInv, NEW a \in Asks, Assemble(a)
    PROVE  AskInv'
<1>1. PICK b \in AskRecord : b = asks[a]
    BY DEF AskInv
<1>2. AskStands(b) /\ b.at = "assemble" /\ UNCHANGED <<Archive, chats>>
    BY <1>1 DEF AskInv, Assemble, At
<1>3. PICK ps \in Seq(AllPassages) :
          /\ ps = Passages(b.hits) /\ Len(ps) = Len(b.hits)
          /\ \A n \in 1..Len(ps) : ps[n] = Library[b.hits[n]]
    BY PassagesKnown DEF AskRecord
<1>4. \A n \in 1..Len(ps) : ps[n].call \in b.period
    BY <1>2, <1>3 DEF AskStands, OfPeriod
<1>5. PICK f : f = Assembled(Passages(b.hits), b.scope = NoScope)
    OBVIOUS
<1>6. Prompt(f, b.period)
  <2>1. Prompt(Assembled(ps, b.scope = NoScope), b.period)
    BY <1>4, TakenPrompt
  <2>2. QED
    BY <1>3, <1>5, <2>1, Zenon
<1>7. f \in Seq(FragSet)
    BY <1>6 DEF Prompt
<1>8. PICK r : r = [b EXCEPT !.at = "cards", !.frags = f]
    OBVIOUS
<1>9. /\ r.at = "cards" /\ r.chat = b.chat /\ r.scope = b.scope /\ r.period = b.period
      /\ r.hits = b.hits /\ r.frags = f /\ r.grounded = b.grounded
    BY <1>8 DEF AskRecord
<1>10. r \in AskRecord
    BY <1>7, <1>8 DEF AskRecord, Stages
<1>11. AskStands(r)
  <2>1. r.frags = Assembled(Passages(r.hits), r.scope = NoScope)
    BY <1>5, <1>9, Zenon
  <2>2. OfPeriod(r.hits, r.period) /\ ~r.grounded /\ r.chat \in Chats
    BY <1>2, <1>9 DEF AskStands
  <2>3. QED
    BY <1>6, <1>9, <1>10, <2>1, <2>2 DEF AskStands
<1>12. AskGoes(a, r)
    BY <1>1, <1>5, <1>8, Zenon DEF Assemble
<1>13. r.at \in Posed /\ asks[a].at \in Posed
    BY <1>1, <1>2, <1>9 DEF Posed
<1>14. QED
    BY <1>1, <1>2, <1>9, <1>11, <1>12, <1>13, AskMoves

LEMMA CardsKeep ==
    ASSUME AskInv, NEW a \in Asks, AddCards(a)
    PROVE  AskInv'
<1>1. PICK b \in AskRecord : b = asks[a]
    BY DEF AskInv
<1>2. AskStands(b) /\ b.at = "cards" /\ UNCHANGED <<Archive, chats>>
    BY <1>1 DEF AskInv, AddCards, At
<1>3. PICK n \in 0..MaxCards :
          LET frags == IF n = 0 THEN asks[a].frags
                       ELSE MakeRoom(asks[a].frags, n * CardTokens) \o [m \in 1 .. n |-> Card(m)]
          IN IF frags = <<>> THEN Answers(a, {})
             ELSE AskGoes(a, [asks[a] EXCEPT !.at = "generate", !.hits = <<>>, !.cards = n,
                                          !.frags = frags])
    BY DEF AddCards
<1>4. PICK g : g = IF n = 0 THEN asks[a].frags
                   ELSE MakeRoom(asks[a].frags, n * CardTokens) \o [m \in 1 .. n |-> Card(m)]
    OBVIOUS
<1>5. IF g = <<>> THEN Answers(a, {})
      ELSE AskGoes(a, [asks[a] EXCEPT !.at = "generate", !.hits = <<>>, !.cards = n,
                                   !.frags = g])
    BY <1>3, <1>4, Zenon
<1>6. n \in Nat
    BY AskConstants
<1>7. Prompt(g, b.period)
  <2>1. Prompt(b.frags, b.period)
    BY <1>2 DEF AskStands
  <2>2. CASE n = 0
    BY <1>1, <1>4, <2>1, <2>2
  <2>3. CASE n # 0
    <3>1. n \in 1..MaxCards
        BY <1>6, <2>3, AskConstants
    <3>2. Prompt(MakeRoom(b.frags, n * CardTokens) \o [m \in 1 .. n |-> Card(m)], b.period)
        BY <2>1, <3>1, CardsPrompt
    <3>3. QED
        BY <1>1, <1>4, <2>3, <3>2, Zenon
  <2>4. QED
    BY <2>2, <2>3
<1>8. asks[a].at \in Posed
    BY <1>1, <1>2 DEF Posed
<1>9. CASE g = <<>>
  <2>1. Answers(a, {}) /\ {} \in SUBSET SourceSet
    BY <1>5, <1>9, Zenon
  <2>2. QED
    BY <1>2, <1>8, <2>1, AnswersKeep
<1>10. CASE g # <<>>
  <2>1. PICK r : r = [b EXCEPT !.at = "generate", !.hits = <<>>, !.cards = n, !.frags = g]
    OBVIOUS
  <2>2. /\ r.at = "generate" /\ r.chat = b.chat /\ r.scope = b.scope /\ r.period = b.period
        /\ r.hits = <<>> /\ r.frags = g /\ r.grounded = b.grounded
    BY <2>1 DEF AskRecord
  <2>3. <<>> \in Seq(Ids) /\ OfPeriod(<<>>, b.period) /\ g \in Seq(FragSet)
    BY <1>7, EmptySeq, NothingFound DEF Prompt
  <2>4. r \in AskRecord
    BY <1>6, <2>1, <2>3 DEF AskRecord, Stages
  <2>5. AskStands(r)
    BY <1>2, <1>7, <1>10, <2>2, <2>3, <2>4 DEF AskStands
  <2>6. AskGoes(a, r)
    BY <1>1, <1>5, <1>10, <2>1, Zenon
  <2>7. QED
    BY <1>1, <1>2, <1>8, <2>2, <2>5, <2>6, AskMoves
<1>11. QED
    BY <1>9, <1>10

\* Whatever the model names: some of what it was shown is used.
LEMMA SourcesAre ==
    ASSUME NEW f \in Seq(FragSet), f # <<>>, NEW raw
    PROVE  LET sources == Sources(f, UsedFragments(raw, Len(f)))
           IN  sources \in SUBSET SourceSet /\ sources # {} /\ ShownIn(sources, f)
<1>1. PICK n \in Nat : n = Len(f) /\ DOMAIN f = 1..n
    OBVIOUS
<1>2. n # 0
    BY <1>1, EmptySeq
<1>3. PICK used : used = UsedFragments(raw, n)
    OBVIOUS
<1>4. \E v \in used : v \in 1..n
  <2> DEFINE named == {v \in Range(raw) : v \in 1..n}
  <2>1. used = IF named = {} THEN 1 .. Min({FallbackSources, n}) ELSE named
    BY <1>3 DEF UsedFragments
  <2>2. CASE named = {}
    <3>1. PICK k \in Nat \ {0} : k = FallbackSources
        BY AskConstants
    <3>2. Min({k, n}) \in {k, n}
        BY DEF Min
    <3>3. 1 \in 1 .. Min({k, n}) /\ 1 \in 1..n
        BY <1>2, <3>2
    <3>4. QED
        BY <2>1, <2>2, <3>1, <3>3
  <2>3. CASE named # {}
    BY <2>1, <2>3
  <2>4. QED
    BY <2>2, <2>3
<1>5. PICK sources : sources = Sources(f, UsedFragments(raw, Len(f)))
    OBVIOUS
<1>6. sources = {[call |-> f[v].call, start |-> f[v].start] : v \in used \cap 1..n}
    BY <1>1, <1>3, <1>5 DEF Sources
<1>7. sources # {}
    BY <1>4, <1>6
<1>8. \A v \in 1..n : f[v] \in FragSet
    BY <1>1
<1>9. sources \in SUBSET SourceSet
    BY <1>6, <1>8 DEF SourceSet
<1>10. ShownIn(sources, f)
    BY <1>1, <1>6 DEF ShownIn
<1>11. QED
    BY <1>5, <1>7, <1>9, <1>10

LEMMA GenerateKeeps ==
    ASSUME AskInv, NEW a \in Asks, Generate(a)
    PROVE  AskInv'
<1>1. PICK b \in AskRecord : b = asks[a]
    BY DEF AskInv
<1>2. AskStands(b) /\ b.at = "generate" /\ UNCHANGED <<Archive, chats>>
    BY <1>1 DEF AskInv, Generate, At
<1>3. PICK raw \in Named(Len(b.frags)) :
          AskGoes(a, [asks[a] EXCEPT !.at = "finish", !.grounded = TRUE,
                         !.sources = Sources(b.frags, UsedFragments(raw, Len(b.frags)))])
    BY <1>1 DEF Generate
<1>4. PICK s \in SUBSET SourceSet :
          /\ s = Sources(b.frags, UsedFragments(raw, Len(b.frags)))
          /\ s # {} /\ ShownIn(s, b.frags)
  <2>1. b.frags \in Seq(FragSet) /\ b.frags # <<>>
    BY <1>2 DEF AskStands, AskRecord
  <2>2. QED
    BY <2>1, SourcesAre
<1>5. PICK r : r = [b EXCEPT !.at = "finish", !.grounded = TRUE, !.sources = s]
    OBVIOUS
<1>6. /\ r.at = "finish" /\ r.chat = b.chat /\ r.scope = b.scope /\ r.period = b.period
      /\ r.hits = b.hits /\ r.frags = b.frags /\ r.grounded = TRUE /\ r.sources = s
    BY <1>5 DEF AskRecord
<1>7. r \in AskRecord
    BY <1>5 DEF AskRecord, Stages
<1>8. AskStands(r)
    BY <1>2, <1>4, <1>6, <1>7 DEF AskStands
<1>9. AskGoes(a, r)
    BY <1>1, <1>3, <1>4, <1>5, Zenon
<1>10. r.at \in Posed /\ asks[a].at \in Posed
    BY <1>1, <1>2, <1>6 DEF Posed
<1>11. QED
    BY <1>1, <1>2, <1>6, <1>8, <1>9, <1>10, AskMoves

(* The chats *)
\* A question joins a chat: one that is open, or a new one of a call without.
LEMMA Joins ==
    ASSUME AskInv, NEW a \in Asks, asks[a].at \in {"start", "create"}, NEW h \in Chats,
           NEW c \in AskCalls \cup {NoScope}, InChat(a, h, c), UNCHANGED <<live, readyCalls>>,
           \/ chats' = chats /\ chats[h].state = "open" /\ chats[h].call = c
           \/ /\ chats[h].state = "unborn" /\ chats' = [chats EXCEPT ![h] = ChatOf(c)]
              /\ c \in AskCalls => CallChats(c) = {}
    PROVE  AskInv'
<1>1. PICK b \in AskRecord : b = asks[a]
    BY DEF AskInv
<1>2. PICK r : r = [b EXCEPT !.at = "question", !.chat = h, !.scope = c]
    OBVIOUS
<1>3. AskStands(r) /\ r.at = "question" /\ r.chat = h /\ r.scope = c
  <2>1. AskStands(b) /\ b.at \in {"start", "create"}
    BY <1>1 DEF AskInv
  <2>2. /\ r.at = "question" /\ r.chat = h /\ r.scope = c /\ r.period = b.period
        /\ r.hits = b.hits /\ r.frags = b.frags /\ r.grounded = b.grounded
    BY <1>2 DEF AskRecord
  <2>3. r \in AskRecord
    BY <1>2 DEF AskRecord, Stages
  <2>4. AskStands(r)
    BY <2>1, <2>2, <2>3 DEF AskStands
  <2>5. QED
    BY <2>2, <2>4
<1>4. asks' = [asks EXCEPT ![a] = r]
    BY <1>1, <1>2, Zenon DEF InChat, AskGoes
<1>5. asks \in [Asks -> AskRecord] /\ chats \in [Chats -> ChatRecord]
    BY DEF AskInv
<1>6. /\ asks' \in [Asks -> AskRecord] /\ asks'[a] = r
      /\ \A g \in Asks : g # a => asks'[g] = asks[g]
  <2>1. r \in AskRecord
    BY <1>3 DEF AskStands
  <2>2. QED
    BY <1>4, <1>5, <2>1
<1>7. \A g \in Asks : AskStands(asks'[g])
    BY <1>3, <1>6 DEF AskInv
<1>8. /\ chats' \in [Chats -> ChatRecord] /\ chats'[h].state = "open" /\ chats'[h].call = c
      /\ Answered(chats'[h].messages)
      /\ \A g \in Chats : g # h => chats'[g] = chats[g]
  <2>1. CASE chats' = chats /\ chats[h].state = "open" /\ chats[h].call = c
    BY <1>5, <2>1 DEF AskInv, ChatsStand
  <2>2. CASE chats[h].state = "unborn" /\ chats' = [chats EXCEPT ![h] = ChatOf(c)]
    <3>1. PICK new : new = ChatOf(c)
        OBVIOUS
    <3>2. <<>> \in Messages /\ Answered(<<>>)
        BY EmptySeq DEF Messages, Answered
    <3>3. /\ new \in ChatRecord /\ new.state = "open" /\ new.call = c /\ new.messages = <<>>
        BY <3>1, <3>2 DEF ChatOf, ChatIs, ChatRecord
    <3>4. QED
        BY <1>5, <2>2, <3>1, <3>2, <3>3
  <2>3. QED
    BY <2>1, <2>2
<1>9. ASSUME NEW d \in AskCalls, NEW g \in Chats, NEW k \in Chats,
             chats'[g].state = "open", chats'[g].call = d,
             chats'[k].state = "open", chats'[k].call = d
      PROVE  g = k
  <2>1. \A i \in Chats : i # h /\ chats'[i].state = "open" /\ chats'[i].call = d
                            => i \in CallChats(d)
    BY <1>8 DEF CallChats, IsOpen
  <2>2. c = d => CallChats(d) = {} \/ h \in CallChats(d)
    BY DEF CallChats, IsOpen
  <2>3. \A i, j \in CallChats(d) : i = j
    BY DEF AskInv, ChatsStand
  <2>4. QED
    BY <1>8, <1>9, <2>1, <2>2, <2>3
<1>10. \A g \in Chats : Answered(chats'[g].messages)
    BY <1>8 DEF AskInv, ChatsStand
<1>11. ASSUME NEW i \in Asks, NEW g \in Chats, asks'[i].chat = g
       PROVE  /\ chats'[g].state # "unborn"
              /\ chats'[g].state = "open" =>
                     /\ chats'[g].call = asks'[i].scope
                     /\ asks'[i].at \in Posed => Asked(chats'[g].messages, i)
  <2>1. CASE i = a
    BY <1>3, <1>6, <1>8, <1>11, <2>1 DEF Posed
  <2>2. CASE i # a
    <3>1. asks[i].chat = g /\ asks'[i] = asks[i]
        BY <1>6, <1>11, <2>2
    <3>2. chats[g].state # "unborn"
        BY <3>1 DEF AskInv, ChatsStand
    <3>3. chats'[g] = chats[g]
        BY <1>8, <3>2
    <3>4. QED
        BY <3>1, <3>3 DEF AskInv, ChatsStand
  <2>3. QED
    BY <2>1, <2>2
<1>12. ChatsStand'
    BY <1>9, <1>10, <1>11 DEF ChatsStand, CallChats, IsOpen
<1>13. live' = live /\ readyCalls' = readyCalls
    OBVIOUS
<1>14. QED
    BY <1>6, <1>7, <1>8, <1>12, <1>13 DEF AskInv

LEMMA OpenKeeps ==
    ASSUME AskInv, NEW a \in Asks, OpenChat(a)
    PROVE  AskInv'
<1>1. PICK h \in Chats : IsOpen(h) /\ InChat(a, h, chats[h].call)
    BY DEF OpenChat
<1>2. asks[a].at = "start" /\ UNCHANGED <<live, readyCalls>> /\ chats' = chats
    BY DEF OpenChat, At, Archive
<1>3. PICK c \in AskCalls \cup {NoScope} : c = chats[h].call
    BY DEF AskInv, ChatRecord
<1>4. InChat(a, h, c) /\ chats[h].state = "open" /\ chats[h].call = c
    BY <1>1, <1>3 DEF IsOpen
<1>5. QED
    BY <1>2, <1>4, Joins

LEMMA NewKeeps ==
    ASSUME AskInv, NEW a \in Asks, NewGlobalChat(a)
    PROVE  AskInv'
<1>1. PICK h \in Chats : /\ chats[h].state = "unborn" /\ InChat(a, h, NoScope)
                         /\ chats' = [chats EXCEPT ![h] = ChatOf(NoScope)]
  <2>1. (CHOOSE g \in Unborn : TRUE) \in Unborn
    BY DEF NewGlobalChat
  <2>2. QED
    BY <2>1 DEF NewGlobalChat, Unborn
<1>2. asks[a].at = "start" /\ UNCHANGED <<live, readyCalls>> /\ NoScope \notin AskCalls
    BY AskAssumption DEF NewGlobalChat, At, Archive
<1>3. QED
    BY <1>1, <1>2, Joins

LEMMA LookKeeps ==
    ASSUME AskInv, NEW a \in Asks, LookForChat(a)
    PROVE  AskInv'
<1>1. PICK b \in AskRecord : b = asks[a] /\ AskStands(b) /\ b.at = "start"
    BY DEF AskInv, LookForChat, At
<1>2. UNCHANGED <<Archive, chats>>
    BY DEF LookForChat
<1>3. PICK c \in AskCalls :
          IF CallChats(c) = {}
          THEN AskGoes(a, [asks[a] EXCEPT !.at = "create", !.scope = c])
          ELSE InChat(a, CHOOSE h \in CallChats(c) : TRUE, c)
    BY DEF LookForChat
<1>4. CASE CallChats(c) = {}
  <2>1. PICK r : r = [b EXCEPT !.at = "create", !.scope = c]
    OBVIOUS
  <2>2. /\ r.at = "create" /\ r.chat = b.chat /\ r.period = b.period
        /\ r.hits = b.hits /\ r.frags = b.frags /\ r.grounded = b.grounded
    BY <2>1 DEF AskRecord
  <2>3. r \in AskRecord
    BY <2>1 DEF AskRecord, Stages
  <2>4. AskStands(r)
    BY <1>1, <2>2, <2>3 DEF AskStands
  <2>5. AskGoes(a, r)
    BY <1>1, <1>3, <1>4, <2>1, Zenon
  <2>6. r.chat = NoChat
    BY <1>1, <2>2 DEF AskStands
  <2>7. QED
    BY <1>2, <2>4, <2>5, <2>6, AskMoves
<1>5. CASE CallChats(c) # {}
  <2>1. PICK h \in CallChats(c) : InChat(a, h, c)
    BY <1>3, <1>5
  <2>2. h \in Chats /\ chats[h].state = "open" /\ chats[h].call = c
    BY DEF CallChats, IsOpen
  <2>3. UNCHANGED <<live, readyCalls>> /\ chats' = chats
    BY <1>2 DEF Archive
  <2>4. QED
    BY <1>1, <2>1, <2>2, <2>3, Joins
<1>6. QED
    BY <1>4, <1>5

LEMMA CreateKeeps ==
    ASSUME AskInv, NEW a \in Asks, CreateChat(a)
    PROVE  AskInv'
<1>1. asks[a].at = "create" /\ UNCHANGED <<live, readyCalls>>
    BY DEF CreateChat, At, Archive
<1>2. PICK c \in AskCalls \cup {NoScope} : c = asks[a].scope
    BY DEF AskInv, AskRecord
<1>3. CASE CallChats(c) # {}
  <2>1. PICK h \in CallChats(c) : InChat(a, h, c)
    BY <1>2, <1>3 DEF CreateChat
  <2>2. h \in Chats /\ chats[h].state = "open" /\ chats[h].call = c
    BY DEF CallChats, IsOpen
  <2>3. chats' = chats
    BY <1>2, <1>3 DEF CreateChat
  <2>4. QED
    BY <1>1, <2>1, <2>2, <2>3, Joins
<1>4. CASE CallChats(c) = {}
  <2>1. PICK h \in Chats : /\ chats[h].state = "unborn" /\ InChat(a, h, c)
                           /\ chats' = [chats EXCEPT ![h] = ChatOf(c)]
    <3>1. Unborn # {}
        BY <1>2, <1>4 DEF CreateChat
    <3>2. (CHOOSE g \in Unborn : TRUE) \in Unborn
        BY <3>1
    <3>3. QED
        BY <1>2, <1>4, <3>2 DEF CreateChat, Unborn
  <2>2. QED
    BY <1>1, <1>4, <2>1, Joins
<1>5. QED
    BY <1>3, <1>4

\* A message is written to the chat of a question: the question, or its answer,
\* after which it has no chat any more.
LEMMA Writes ==
    ASSUME AskInv, NEW a \in Asks, NEW h \in Chats, h = asks[a].chat,
           NEW who \in {"user", "assistant"}, Appended(a, who), UNCHANGED Archive,
           NEW r, AskStands(r), AskGoes(a, r),
           who = "assistant" => r.chat = NoChat /\ Asked(chats[h].messages, a),
           who = "user" => r.chat = h /\ r.scope = asks[a].scope
    PROVE  AskInv'
<1>1. /\ asks \in [Asks -> AskRecord] /\ chats \in [Chats -> ChatRecord]
      /\ live' = live /\ readyCalls' = readyCalls
    BY DEF AskInv, Archive
<1>2. PICK c \in ChatRecord : c = chats[h]
    BY <1>1
<1>3. PICK m \in Messages : m = c.messages /\ m = chats[h].messages
    BY <1>2 DEF ChatRecord
<1>4. PICK msg \in [by : {"user", "assistant"}, ask : Asks] :
          msg = Message(a, who) /\ msg.by = who /\ msg.ask = a
  <2>1. PICK msg : msg = [by |-> who, ask |-> a]
    OBVIOUS
  <2>2. msg \in [by : {"user", "assistant"}, ask : Asks] /\ msg.by = who /\ msg.ask = a
    BY <2>1
  <2>3. msg = Message(a, who)
    BY <2>1 DEF Message
  <2>4. QED
    BY <2>2, <2>3
<1>5. PICK n \in Nat : n = Len(m)
    BY DEF Messages
<1>6. PICK m2 : m2 = Append(m, msg)
    OBVIOUS
<1>7. /\ m2 \in Messages /\ Len(m2) = n + 1 /\ m2[n + 1] = msg
      /\ \A k \in 1..n : m2[k] = m[k]
  <2>1. PICK T : Messages = Seq(T) /\ msg \in T
    BY DEF Messages
  <2>2. QED
    BY <1>5, <1>6, <2>1, OneMore
<1>8. PICK d : d = [c EXCEPT !.messages = m2]
    OBVIOUS
<1>9. d \in ChatRecord /\ d.state = c.state /\ d.call = c.call /\ d.messages = m2
    BY <1>8, <1>7 DEF ChatRecord
<1>10. chats' = [chats EXCEPT ![h] = d]
  <2>1. chats' = [chats EXCEPT ![h].messages = Append(@, msg)]
    BY <1>4, Zenon DEF Appended
  <2>2. chats' = [chats EXCEPT ![h] = [chats[h] EXCEPT !.messages = Append(m, msg)]]
    BY <1>3, <2>1
  <2>3. QED
    BY <1>2, <1>8, <1>6, <2>2, Zenon
<1>11. /\ chats' \in [Chats -> ChatRecord] /\ chats'[h] = d
       /\ \A g \in Chats : g # h => chats'[g] = chats[g]
    BY <1>1, <1>9, <1>10
<1>12. /\ asks' \in [Asks -> AskRecord] /\ asks'[a] = r
       /\ \A b \in Asks : b # a => asks'[b] = asks[b]
    BY <1>1 DEF AskGoes, AskStands
<1>13. \A b \in Asks : AskStands(asks'[b])
    BY <1>12 DEF AskInv
<1>14. \A g \in Chats : chats'[g].state = chats[g].state /\ chats'[g].call = chats[g].call
    BY <1>2, <1>9, <1>11
<1>15. Answered(m2)
  <2>1. Answered(m)
    BY <1>3 DEF AskInv, ChatsStand
  <2>2. ASSUME NEW i \in 1..n + 1, m2[i].by = "assistant"
        PROVE  \E k \in 1..i - 1 : m2[k] = Message(m2[i].ask, "user")
    <3>1. CASE i \in 1..n
      <4>1. PICK k \in 1..i - 1 : m[k] = Message(m[i].ask, "user")
        BY <1>5, <1>7, <2>1, <2>2, <3>1 DEF Answered
      <4>2. k \in 1..n
        BY <3>1
      <4>3. QED
        BY <1>7, <3>1, <4>1, <4>2
    <3>2. CASE i = n + 1
      <4>1. who = "assistant" /\ m2[i].ask = a
        BY <1>4, <1>7, <2>2, <3>2
      <4>2. PICK k \in 1..n : m[k] = Message(a, "user")
        BY <1>3, <1>5, <4>1 DEF Asked
      <4>3. k \in 1..i - 1
        BY <3>2
      <4>4. QED
        BY <1>7, <4>1, <4>2, <4>3
    <3>3. i \in 1..n \/ i = n + 1
        OBVIOUS
    <3>4. QED
        BY <3>1, <3>2, <3>3
  <2>3. QED
    BY <1>7, <2>2 DEF Answered
<1>16. \A b : Asked(m, b) => Asked(m2, b)
  <2>1. \A k \in 1..n : k \in 1..n + 1
    OBVIOUS
  <2>2. QED
    BY <1>5, <1>7, <2>1 DEF Asked
<1>17. who = "user" => Asked(m2, a)
    BY <1>4, <1>5, <1>7 DEF Asked
<1>18. \A g \in Chats : Answered(chats'[g].messages)
    BY <1>9, <1>11, <1>15 DEF AskInv, ChatsStand
<1>19. ASSUME NEW b \in Asks, NEW g \in Chats, asks'[b].chat = g
       PROVE  /\ chats'[g].state # "unborn"
              /\ chats'[g].state = "open" =>
                     /\ chats'[g].call = asks'[b].scope
                     /\ asks'[b].at \in Posed => Asked(chats'[g].messages, b)
  <2>1. NoChat \notin Chats
    BY AskAssumption
  <2>2. asks[b].chat = g /\ asks'[b].scope = asks[b].scope
    BY <1>12, <1>19, <2>1
  <2>3. /\ chats[g].state # "unborn"
        /\ chats[g].state = "open" => chats[g].call = asks[b].scope
    BY <2>2 DEF AskInv, ChatsStand
  <2>4. ASSUME asks'[b].at \in Posed, chats[g].state = "open" PROVE Asked(chats'[g].messages, b)
    <3>1. CASE b = a
      <4>1. who = "user" /\ g = h
        BY <1>12, <1>19, <2>1, <3>1
      <4>2. QED
        BY <1>9, <1>11, <1>17, <3>1, <4>1
    <3>2. CASE b # a
      <4>1. Asked(chats[g].messages, b)
        BY <1>12, <2>2, <2>4, <3>2 DEF AskInv, ChatsStand
      <4>2. QED
        BY <1>3, <1>9, <1>11, <1>16, <4>1
    <3>3. QED
        BY <3>1, <3>2
  <2>5. QED
    BY <1>14, <2>2, <2>3, <2>4
<1>20. ChatsStand'
  <2>1. \A c2 \in AskCalls : \A g \in CallChats(c2)' : g \in CallChats(c2)
    BY <1>14 DEF CallChats, IsOpen
  <2>2. QED
    BY <1>18, <1>19, <2>1 DEF AskInv, ChatsStand
<1>21. QED
    BY <1>1, <1>11, <1>12, <1>13, <1>20 DEF AskInv

LEMMA QuestionKeeps ==
    ASSUME AskInv, NEW a \in Asks, AppendQuestion(a)
    PROVE  AskInv'
<1>1. PICK b \in AskRecord : b = asks[a] /\ AskStands(b) /\ b.at = "question"
    BY DEF AskInv, AppendQuestion, At
<1>2. PICK r : r = [b EXCEPT !.at = "route"]
    OBVIOUS
<1>3. /\ r.at = "route" /\ r.chat = b.chat /\ r.scope = b.scope /\ r.period = b.period
      /\ r.hits = b.hits /\ r.frags = b.frags /\ r.grounded = b.grounded
    BY <1>2 DEF AskRecord
<1>4. r \in AskRecord
    BY <1>2 DEF AskRecord, Stages
<1>5. AskStands(r)
    BY <1>1, <1>3, <1>4 DEF AskStands
<1>6. AskGoes(a, r)
    BY <1>1, <1>2, Zenon DEF AppendQuestion
<1>7. PICK h \in Chats : h = asks[a].chat
    BY <1>1 DEF AskStands
<1>8. Appended(a, "user") /\ UNCHANGED Archive
    BY DEF AppendQuestion
<1>9. r.chat = h /\ r.scope = asks[a].scope
    BY <1>1, <1>3, <1>7
<1>10. QED
    BY <1>5, <1>6, <1>7, <1>8, <1>9, Writes

LEMMA FinishKeeps ==
    ASSUME AskInv, NEW a \in Asks, Finish(a)
    PROVE  AskInv'
<1>1. PICK b \in AskRecord : b = asks[a] /\ AskStands(b) /\ b.at = "finish"
    BY DEF AskInv, Finish, At
<1>2. PICK r : r = Ended
    OBVIOUS
<1>3. AskStands(r) /\ r.chat = NoChat
    BY <1>2, BegunStands DEF Ended, Begun
<1>4. AskGoes(a, r)
    BY <1>2, Zenon DEF Finish
<1>5. PICK h \in Chats : h = asks[a].chat
    BY <1>1 DEF AskStands
<1>6. Appended(a, "assistant") /\ UNCHANGED Archive /\ chats[h].state = "open"
    BY <1>5 DEF Finish, IsOpen
<1>7. Asked(chats[h].messages, a)
    BY <1>1, <1>5, <1>6 DEF AskInv, ChatsStand, Posed
<1>8. QED
    BY <1>3, <1>4, <1>5, <1>6, <1>7, Writes

(* Meanwhile *)
LEMMA Deletes ==
    ASSUME AskInv, live' \subseteq live, readyCalls' \subseteq readyCalls, asks' = asks, NEW D,
           chats' = [h \in Chats |-> IF h \in D THEN ChatIs("deleted", NoScope) ELSE chats[h]]
    PROVE  AskInv'
<1>1. chats \in [Chats -> ChatRecord]
    BY DEF AskInv
<1>2. PICK gone \in ChatRecord :
          /\ gone = ChatIs("deleted", NoScope) /\ gone.state = "deleted"
          /\ Answered(gone.messages)
  <2>1. <<>> \in Messages /\ Answered(<<>>)
    BY EmptySeq DEF Messages, Answered
  <2>2. PICK none \in Messages : none = <<>> /\ Answered(none)
    BY <2>1
  <2>3. PICK gone : gone = [state |-> "deleted", call |-> NoScope, messages |-> none]
    OBVIOUS
  <2>4. gone \in ChatRecord /\ gone.state = "deleted" /\ gone.messages = none
    BY <2>3 DEF ChatRecord
  <2>5. gone = ChatIs("deleted", NoScope)
    BY <2>2, <2>3 DEF ChatIs
  <2>6. QED
    BY <2>2, <2>4, <2>5
<1>3. /\ chats' \in [Chats -> ChatRecord]
      /\ \A h \in Chats : chats'[h] = gone \/ chats'[h] = chats[h]
    BY <1>1, <1>2
<1>4. \A c \in AskCalls : \A g \in CallChats(c)' : g \in CallChats(c)
    BY <1>2, <1>3 DEF CallChats, IsOpen
<1>5. \A h \in Chats : Answered(chats'[h].messages)
    BY <1>2, <1>3 DEF AskInv, ChatsStand
<1>6. ChatsStand'
    BY <1>2, <1>3, <1>4, <1>5 DEF AskInv, ChatsStand
<1>7. QED
    BY <1>3, <1>6 DEF AskInv

LEMMA MeanwhileKeeps ==
    ASSUME AskInv,
           \/ \E c \in AskCalls : CallReprocessed(c) \/ CallDeleted(c)
           \/ \E h \in Chats : DeleteChat(h)
    PROVE  AskInv'
<1>1. ASSUME NEW c \in AskCalls, CallReprocessed(c) PROVE AskInv'
  <2>1. /\ live' \subseteq live /\ readyCalls' \subseteq readyCalls /\ asks' = asks
        /\ chats' = chats
    BY <1>1 DEF CallReprocessed, Without
  <2>2. QED
    BY <2>1 DEF AskInv, ChatsStand, CallChats, IsOpen
<1>2. ASSUME NEW c \in AskCalls, CallDeleted(c) PROVE AskInv'
  <2>1. live' \subseteq live /\ readyCalls' \subseteq readyCalls /\ asks' = asks
    BY <1>2 DEF CallDeleted, Without
  <2>2. PICK D : D = CallChats(c)
    OBVIOUS
  <2>3. chats' = [h \in Chats |-> IF h \in D THEN ChatIs("deleted", NoScope) ELSE chats[h]]
    BY <1>2, <2>2 DEF CallDeleted
  <2>4. QED
    BY <2>1, <2>3, Deletes
<1>3. ASSUME NEW h \in Chats, DeleteChat(h) PROVE AskInv'
  <2>1. /\ live' \subseteq live /\ readyCalls' \subseteq readyCalls /\ asks' = asks
        /\ chats' = [chats EXCEPT ![h] = ChatIs("deleted", NoScope)]
        /\ chats \in [Chats -> ChatRecord]
    BY <1>3 DEF DeleteChat, Archive, AskInv
  <2>2. chats' = [g \in Chats |-> IF g \in {h} THEN ChatIs("deleted", NoScope) ELSE chats[g]]
    BY <2>1
  <2>3. QED
    BY <2>1, <2>2, Deletes
<1>4. QED
    BY <1>1, <1>2, <1>3

LEMMA AskInvInit == AskInit => AskInv
<1> SUFFICES ASSUME AskInit PROVE AskInv
    OBVIOUS
<1>1. live \subseteq Ids /\ readyCalls \subseteq AskCalls
    BY DEF AskInit
<1>2. PICK b : b = Begun /\ AskStands(b) /\ b \in AskRecord /\ b.chat = NoChat
    BY BegunStands DEF AskStands, Begun
<1>3. asks \in [Asks -> AskRecord] /\ \A a \in Asks : asks[a] = b
    BY <1>2, Zenon DEF AskInit
<1>4. PICK h : \E first \in {ChatIs("unborn", NoScope)}
                          \cup {ChatOf(c) : c \in AskCalls \cup {NoScope}} :
          chats = [g \in Chats |-> IF g = h THEN first ELSE ChatIs("unborn", NoScope)]
    BY Zenon DEF AskInit
<1>5. PICK first \in {ChatIs("unborn", NoScope)}
                      \cup {ChatOf(c) : c \in AskCalls \cup {NoScope}} :
          chats = [g \in Chats |-> IF g = h THEN first ELSE ChatIs("unborn", NoScope)]
    BY <1>4
<1>6. PICK none \in Messages : none = <<>> /\ Answered(none)
  <2>1. <<>> \in Messages /\ Answered(<<>>)
    BY EmptySeq DEF Messages, Answered
  <2>2. QED
    BY <2>1
<1>7. \A state \in {"unborn", "open", "deleted"}, c \in AskCalls \cup {NoScope} :
          /\ ChatIs(state, c) \in ChatRecord /\ ChatIs(state, c).state = state
          /\ ChatIs(state, c).messages = none
    BY <1>6 DEF ChatIs, ChatRecord
<1>8. first \in ChatRecord /\ first.messages = none
    BY <1>7, <1>5 DEF ChatOf
<1>9. /\ chats \in [Chats -> ChatRecord]
      /\ \A g \in Chats : /\ chats[g].messages = none
                          /\ g # h => chats[g].state = "unborn"
    BY <1>7, <1>8, <1>5
<1>10. ChatsStand
  <2>1. \A c \in AskCalls : \A g \in CallChats(c) : g = h
    BY <1>9 DEF CallChats, IsOpen
  <2>2. \A a \in Asks, g \in Chats : asks[a].chat # g
    BY <1>2, <1>3, AskAssumption
  <2>3. QED
    BY <1>6, <1>9, <2>1, <2>2 DEF ChatsStand
<1>11. QED
    BY <1>1, <1>2, <1>3, <1>9, <1>10 DEF AskInv

LEMMA AskInvStep == AskInv /\ [AskNext]_askVars => AskInv'
<1> SUFFICES ASSUME AskInv, [AskNext]_askVars PROVE AskInv'
    OBVIOUS
<1>1. ASSUME NEW a \in Asks, AskGoesOn(a) PROVE AskInv'
  <2>1. CASE OpenChat(a)
    BY <2>1, OpenKeeps
  <2>2. CASE NewGlobalChat(a)
    BY <2>2, NewKeeps
  <2>3. CASE LookForChat(a)
    BY <2>3, LookKeeps
  <2>4. CASE CreateChat(a)
    BY <2>4, CreateKeeps
  <2>5. CASE AppendQuestion(a)
    BY <2>5, QuestionKeeps
  <2>6. CASE AskFails(a)
    BY <2>6, FailsKeeps
  <2>7. CASE AnswerDirectly(a)
    BY <2>7, DirectlyKeeps
  <2>8. CASE Summarize(a)
    BY <2>8, SummarizeKeeps
  <2>9. CASE AskWhen(a)
    BY <2>9, WhenKeeps
  <2>10. CASE NoRoute(a)
    BY <2>10, NoRouteKeeps
  <2>11. CASE FilterPeriod(a)
    BY <2>11, PeriodKeeps
  <2>12. CASE SearchWords(a)
    BY <2>12, WordsKeep
  <2>13. CASE SearchBoth(a)
    BY <2>13, BothKeep
  <2>14. CASE FetchMissing(a)
    BY <2>14, FetchKeeps
  <2>15. CASE AnswerWhen(a)
    BY <2>15, WhenAnswered
  <2>16. CASE Assemble(a)
    BY <2>16, AssembleKeeps
  <2>17. CASE AddCards(a)
    BY <2>17, CardsKeep
  <2>18. CASE Generate(a)
    BY <2>18, GenerateKeeps
  <2>19. CASE Finish(a)
    BY <2>19, FinishKeeps
  <2>20. QED
    BY <1>1, <2>1, <2>2, <2>3, <2>4, <2>5, <2>6, <2>7, <2>8, <2>9, <2>10, <2>11, <2>12,
       <2>13, <2>14, <2>15, <2>16, <2>17, <2>18, <2>19 DEF AskGoesOn
<1>2. CASE UNCHANGED askVars
  <2>1. live' = live /\ readyCalls' = readyCalls /\ chats' = chats /\ asks' = asks
    BY <1>2 DEF askVars
  <2>2. QED
    BY <2>1 DEF AskInv, ChatsStand, CallChats, IsOpen
<1>3. QED
    BY <1>1, <1>2, MeanwhileKeeps DEF AskNext

(* What the invariant says of every question *)
LEMMA ChatsAreKept == AskInv => ChatsKept
<1> SUFFICES ASSUME AskInv PROVE ChatsKept
    OBVIOUS
<1>1. ASSUME NEW c \in AskCalls PROVE Cardinality(CallChats(c)) <= 1
  <2>1. CASE CallChats(c) = {}
    <3>1. Cardinality({}) <= 1
        BY FS_EmptySet
    <3>2. QED
        BY <2>1, <3>1, Zenon
  <2>2. CASE CallChats(c) # {}
    <3>1. PICK h : h \in CallChats(c)
        BY <2>2
    <3>2. CallChats(c) = {h}
        BY <3>1 DEF AskInv, ChatsStand
    <3>3. Cardinality({h}) = 1
        BY FS_Singleton
    <3>4. Cardinality({h}) <= 1
        BY <3>3
    <3>5. QED
        BY <3>2, <3>4, Zenon
  <2>3. QED
    BY <2>1, <2>2
<1>2. ASSUME NEW a \in Asks, NEW h \in Chats, IsOpen(h), asks[a].chat = h
      PROVE  chats[h].call = asks[a].scope
    BY <1>2 DEF AskInv, ChatsStand, IsOpen
<1>3. ASSUME NEW h \in Chats
      PROVE  \A n \in DOMAIN chats[h].messages : chats[h].messages[n].by = "assistant" =>
                 \E k \in 1 .. n - 1 :
                     chats[h].messages[k] = Message(chats[h].messages[n].ask, "user")
  <2>1. PICK m \in Messages : m = chats[h].messages
    BY DEF AskInv, ChatRecord
  <2>2. Answered(m) /\ DOMAIN m = 1..Len(m)
    BY <2>1 DEF AskInv, ChatsStand, Messages
  <2>3. QED
    BY <2>1, <2>2 DEF Answered
<1>4. QED
    BY <1>1, <1>2, <1>3 DEF ChatsKept

LEMMA FusionIsFair == AskInv => FusionFair
<1> SUFFICES ASSUME AskInv, NEW a \in Asks, At(a, "fetch"),
                    NEW f \in Fused(asks[a].bm, asks[a].near),
                    NEW n \in DOMAIN f, NEW m \in DOMAIN f, n # m,
                    Place(f[n], asks[a].bm) <= Place(f[m], asks[a].bm),
                    Place(f[n], asks[a].near) <= Place(f[m], asks[a].near)
             PROVE  n < m
    BY Zenon DEF FusionFair
<1>1. PICK bm, near : /\ bm = asks[a].bm /\ near = asks[a].near
                      /\ IsList(bm) /\ IsList(near)
    BY DEF AskInv, AskStands, At
<1>2. QED
    BY <1>1, FusedFair

LEMMA PromptIsSound ==
    ASSUME AskInv, NEW a \in Asks
    PROVE  PromptSound(a) /\ NothingLeftOut(a) /\ SourcesShown(a)
<1>1. PICK r \in AskRecord : r = asks[a] /\ AskStands(r)
    BY DEF AskInv
<1>2. PICK f \in Seq(FragSet), hits \in Seq(Ids) : f = r.frags /\ hits = r.hits
    BY DEF AskRecord
<1>3. PICK n \in Nat : n = Len(f) /\ DOMAIN f = 1..n
    BY <1>2
<1> DEFINE found == {i \in DOMAIN f : f[i].kind # "contact"}
<1>4. Prompt(f, r.period)
    BY <1>1, <1>2 DEF AskStands
<1>5. ASSUME r.at = "cards"
      PROVE  /\ \A i \in 1..n : f[i].kind # "contact"
             /\ r.scope = NoScope => \A c : Cardinality(OfCall(f, c)) <= CallCap
             /\ \A i \in 1..Len(hits) : Excused(Library[hits[i]], f, r.scope = NoScope)
  <2>1. PICK ps \in Seq(AllPassages) :
            /\ ps = Passages(hits) /\ Len(ps) = Len(hits)
            /\ \A i \in 1..Len(ps) : ps[i] = Library[hits[i]]
    BY <1>2, PassagesKnown
  <2>2. f = Assembled(ps, r.scope = NoScope)
    BY <1>1, <1>2, <1>5, <2>1 DEF AskStands
  <2>3. Taken(f, ps, Len(ps), r.scope = NoScope)
    BY <2>1, <2>2, AssembledIs, Zenon
  <2>4. f \in Seq(AllPassages)
    BY <2>3 DEF Taken
  <2>5. \A i \in 1..n : f[i] \in AllPassages /\ f[i] \in FragSet
    BY <1>3, <2>4 DEF FragSet
  <2>6. \A i \in 1..n : f[i].kind # "contact"
    BY <2>5, FragIs
  <2>7. QED
    BY <2>1, <2>3, <2>6 DEF Taken
<1>6. PromptSound(a)
  <2>1. Total(f) <= TokenBudget \/ found = {}
    BY <1>3, <1>4 DEF Prompt
  <2>2. \A i, j \in found : i < j =>
            f[i].text # f[j].text /\ (f[i].kind = "transcript" => ~StartsWithin(f[j], f[i]))
    BY <1>3, <1>4 DEF Prompt
  <2>3. \A i \in found : f[i].call \in r.period
    BY <1>3, <1>4 DEF Prompt
  <2>4. ASSUME hits # <<>>, r.scope = NoScope, NEW c \in AskCalls
        PROVE  Cardinality({i \in found : f[i].call = c}) <= CallCap
    <3>1. r.at = "cards" \/ f = <<>>
        BY <1>1, <1>2, <2>4 DEF AskStands
    <3>2. CASE r.at = "cards"
      <4>1. {i \in found : f[i].call = c} = OfCall(f, c)
        BY <1>3, <1>5, <3>2 DEF OfCall
      <4>2. Cardinality(OfCall(f, c)) <= CallCap
        BY <1>5, <2>4, <3>2
      <4>3. QED
        BY <4>1, <4>2, Zenon
    <3>3. CASE f = <<>>
      <4>1. {i \in found : f[i].call = c} = {}
        <5>1. n = 0
            BY <1>3, <3>3, EmptySeq
        <5>2. QED
            BY <1>3, <5>1
      <4>2. Cardinality({}) <= CallCap
        <5>1. PICK k \in Nat : k = CallCap
            BY AskConstants
        <5>2. Cardinality({}) = 0 /\ 0 <= k
            BY FS_EmptySet
        <5>3. QED
            BY <5>1, <5>2
      <4>3. QED
        BY <4>1, <4>2, Zenon
    <3>4. QED
        BY <3>1, <3>2, <3>3
  <2>5. asks[a].frags = f /\ asks[a].hits = hits /\ asks[a].scope = r.scope
        /\ asks[a].period = r.period
    BY <1>1, <1>2
  <2>6. QED
    BY <2>1, <2>2, <2>3, <2>4, <2>5 DEF PromptSound, found
<1>7. NothingLeftOut(a)
  <2>1. SUFFICES ASSUME At(a, "cards"), NEW i \in DOMAIN hits
        PROVE  LET h == Library[hits[i]] IN
               \/ \E k \in DOMAIN f : f[k].text = h.text \/ StartsWithin(h, f[k])
               \/ /\ r.scope = NoScope
                  /\ Cardinality({k \in DOMAIN f : f[k].call = h.call}) >= CallCap
               \/ Total(f) + h.tokens > TokenBudget
    BY <1>1, <1>2, Zenon DEF NothingLeftOut
  <2>2. i \in 1..Len(hits) /\ r.at = "cards"
    BY <1>1, <2>1 DEF At
  <2>3. Excused(Library[hits[i]], f, r.scope = NoScope)
    BY <1>5, <2>2
  <2>4. QED
    BY <1>3, <2>3 DEF Excused, OfCall
<1>8. SourcesShown(a)
  <2>1. asks[a].grounded => asks[a].sources # {} /\ ShownIn(asks[a].sources, f)
    BY <1>1, <1>2 DEF AskStands
  <2>2. asks[a].frags = f
    BY <1>1, <1>2
  <2>3. QED
    BY <1>3, <2>1, <2>2 DEF SourcesShown, ShownIn
<1>9. QED
    BY <1>6, <1>7, <1>8

\* For any calls, any numbers of questions and chats, any limits and budgets, and
\* whatever is found, gone by then, or named by the model: a call keeps one thread and
\* an answer its question; the fused order is fair; the prompt is sound and leaves
\* nothing out without a reason; an answer of the model names what it was shown; and
\* the windows of a transcript cover it (assistant/mod.rs ask_core_with, fusion.rs,
\* budget.rs assemble, passages.rs).
THEOREM AnswerGroundedHolds == AskSpec => []AnswerGrounded
<1>1. AskInv => AnswerGrounded
    BY CoverHolds, ChatsAreKept, FusionIsFair, PromptIsSound DEF AnswerGrounded
<1>2. QED
    BY <1>1, AskInvInit, AskInvStep, PTL DEF AskSpec
=============================================================================
