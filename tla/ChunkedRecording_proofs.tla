---------------------- MODULE ChunkedRecording_proofs ----------------------
(***************************************************************************)
(* Every safety property of ChunkedRecording that the runs check, for any  *)
(* number of chunks.  The argument is one fact: from the tick that sets    *)
(* rotate_pending to the answer that resets it, at most one rotation is    *)
(* on its way (a command, an event, a message to the orchestrator), and   *)
(* the chunk the two sides disagree on is the one it opens.                *)
(***************************************************************************)
EXTENDS ChunkedRecording, SequenceTheorems, FiniteSetTheorems, TLAPS

\* Sequences
Has(s, x) == \E i \in DOMAIN s : s[i] = x
Once(s, x) == \A i, j \in DOMAIN s : s[i] = x /\ s[j] = x => i = j

EventSet == Terminals \cup {"rotated", "rotate_error"}

\* The rotation on its way: as a command, as an event nobody has read, or
\* handed to the orchestrator.
CmdOut == cmds \in {<<idx + 1>>, <<idx + 1, StopCmd>>}
EvtOut == Has(events, "rotated")
Landed == EvtOut \/ rotq > 0
\* The last chunk the sidecar has opened, as the orchestrator will count it.
Hi == IF Landed THEN idx + 1 ELSE idx
\* The stop command is written; the sidecar has said that it stopped.
StopIn == cmds \in {<<StopCmd>>, <<idx + 1, StopCmd>>}
StopSaid == terminal = "stopped" \/ Has(events, "stopped")

\* The stdin of the sidecar holds a rotation at most, and the stop comes last.
Commands == cmds \in {<<>>, <<idx + 1>>, <<StopCmd>>, <<idx + 1, StopCmd>>}

\* One rotation at a time, in one place, and only while rotate_pending is set.
OneOut ==
    /\ Once(events, "rotated")
    /\ CmdOut => ~Landed
    /\ EvtOut => rotq = 0
    /\ rotq <= 1
    /\ ~pending \/ orch = "rotating" => ~CmdOut /\ ~Landed
    /\ orch = "rotating" => pending
    /\ orch = "rotating" \/ CmdOut \/ Landed => idx < MaxChunk

\* The chunks on disk are those both sides count, and the microphone leg
\* writes none that the orchestrator takes for closed.
Agreed ==
    /\ orch \in {"loop", "rotating", "sweep"} \/ CmdOut => files \subseteq 0..Hi
    /\ (orch \in {"loop", "rotating", "sweep"} \/ CmdOut) /\ outcome # "discarded" => files = 0..Hi
    /\ outcome # "discarded" => files = 0..idx \/ files = 0..(idx + 1)
    /\ mic # NoFile => mic >= Hi

\* The stop: the session goes first, then the command, then the answer, and
\* the pipeline waits for both the answer and the orchestrator.
StopOrder ==
    /\ session <=> stopPc = "idle"
    /\ StopSaid => cmds = <<>> /\ mic = NoFile
    /\ StopSaid \/ StopIn => stopPc \notin {"idle", "signal", "write"}
    /\ stopPc \in {"join", "final", "engine", "finalrun", "pipeline"} => terminal = "stopped"
    /\ stopPc \in {"final", "engine", "finalrun", "pipeline"} => orch = "done"
    /\ outcome # "none" => stopPc = "end"

\* run_chunk is only ever started on closed chunks, the open one after the stop.
RunsBehind ==
    \A k \in Chunks : run[k] # "none" =>
        k < idx \/ (k = idx /\ orch = "done" /\ terminal = "stopped")

\* Every chunk the orchestrator counts has a row before its drain lets go of
\* it, and the assembly calls complete only what covers all rows.
Gathered ==
    /\ drained <= idx
    /\ orch = "done" => drained = idx
    /\ \A k \in Chunks : k < idx => run[k] # "none"
    /\ \A k \in Chunks : k < drained => run[k] \notin {"none", "insert", "claim"}
    /\ outcome # "discarded" =>
         \A k \in Chunks : run[k] \notin {"none", "insert"} => row[k] # "none"
    /\ stopPc \in {"engine", "finalrun", "pipeline"} => row[idx] # "none"
    /\ outcome = "ready" => orch = "done" /\ terminal = "stopped" /\ 0..idx \subseteq transcript

\* After a stop that met no rotation on its way there never is one again.
QuietStop ==
    /\ stopSent => ~session
    /\ session /\ terminal = "none" => orch \in {"loop", "rotating"}
    /\ quiet /\ ~session /\ terminal # "error" =>
         /\ ~CmdOut /\ ~EvtOut
         /\ orch \in {"drain", "done"} => rotq = 0 /\ (outcome # "discarded" => files = 0..idx)

\* The inductive invariant.
Ind == /\ TypeOK /\ Commands /\ OneOut /\ Agreed /\ StopOrder /\ RunsBehind
       /\ Gathered /\ QuietStop
-----------------------------------------------------------------------------
\* The elements of the tail of a sequence, by index.
LEMMA AfterTail ==
    ASSUME NEW T, NEW s \in Seq(T), s # <<>>
    PROVE  /\ Head(s) \in T
           /\ Head(s) = s[1]
           /\ 1 \in DOMAIN s
           /\ Tail(s) \in Seq(T)
           /\ Len(Tail(s)) = Len(s) - 1
           /\ \A i \in DOMAIN Tail(s) : i + 1 \in DOMAIN s /\ i + 1 # 1 /\ Tail(s)[i] = s[i + 1]
           /\ \A i \in DOMAIN s : i = 1 \/ (i - 1 \in DOMAIN Tail(s) /\ Tail(s)[i - 1] = s[i])
<1>1. Len(s) \in Nat \ {0} /\ DOMAIN s = 1..Len(s)
    BY EmptySeq, LenProperties
<1>2. /\ Head(s) \in T
      /\ Tail(s) \in Seq(T)
      /\ Len(Tail(s)) = Len(s) - 1
      /\ \A i \in 1 .. Len(Tail(s)) : Tail(s)[i] = s[i+1]
    BY HeadTailProperties
<1>3. DOMAIN Tail(s) = 1..Len(Tail(s))
    BY <1>2, LenProperties
<1>4. Head(s) = s[1]
    OBVIOUS
<1>5. \A i \in DOMAIN s : i = 1 \/ (i - 1 \in DOMAIN Tail(s) /\ Tail(s)[i - 1] = s[i])
  <2> SUFFICES ASSUME NEW i \in 1..Len(s), i # 1
               PROVE  i - 1 \in 1..Len(Tail(s)) /\ Tail(s)[i - 1] = s[i]
    BY <1>1, <1>3
  <2>1. i - 1 \in 1..Len(Tail(s)) /\ (i - 1) + 1 = i
    BY <1>1, <1>2
  <2>2. QED
    BY <2>1, <1>2
<1>6. \A i \in DOMAIN Tail(s) : i + 1 \in DOMAIN s /\ i + 1 # 1
    BY <1>1, <1>2, <1>3
<1>7. QED
    BY <1>1, <1>2, <1>3, <1>4, <1>5, <1>6

\* The elements of a sequence with one more at its end, by index.
LEMMA AfterOne ==
    ASSUME NEW T, NEW s \in Seq(T), NEW e \in T
    PROVE  LET t == s \o <<e>> IN
           /\ t = Append(s, e)
           /\ t \in Seq(T)
           /\ Len(t) = Len(s) + 1
           /\ t[Len(s) + 1] = e
           /\ DOMAIN t = DOMAIN s \cup {Len(s) + 1}
           /\ \A i \in DOMAIN s : t[i] = s[i] /\ i # Len(s) + 1
<1>1. s \o <<e>> = Append(s, e)
    BY AppendIsConcat
<1>2. Len(s) \in Nat /\ DOMAIN s = 1..Len(s)
    BY LenProperties
<1>3. /\ Append(s, e) \in Seq(T)
      /\ Len(Append(s, e)) = Len(s) + 1
      /\ \A i \in 1.. Len(s) : Append(s, e)[i] = s[i]
      /\ Append(s, e)[Len(s) + 1] = e
    BY AppendProperties
<1>4. DOMAIN Append(s, e) = 1..(Len(s) + 1)
    BY <1>3, LenProperties
<1>5. DOMAIN Append(s, e) = DOMAIN s \cup {Len(s) + 1}
    BY <1>2, <1>4
<1>6. \A i \in DOMAIN s : i # Len(s) + 1
    BY <1>2
<1>7. QED
    BY <1>1, <1>2, <1>3, <1>5, <1>6

\* Occurrences in a sequence and in its tail.
LEMMA HasTail ==
    ASSUME NEW T, NEW s \in Seq(T), s # <<>>
    PROVE  /\ Head(s) \in T
           /\ Tail(s) \in Seq(T)
           /\ \A x : Has(s, x) <=> x = Head(s) \/ Has(Tail(s), x)
           /\ \A x : Once(s, x) => Once(Tail(s), x) /\ (x = Head(s) => ~Has(Tail(s), x))
<1>1. Head(s) \in T /\ Tail(s) \in Seq(T)
    BY AfterTail
<1>2. ASSUME NEW x PROVE Has(s, x) <=> x = Head(s) \/ Has(Tail(s), x)
  <2>1. ASSUME NEW i \in DOMAIN s, s[i] = x PROVE x = Head(s) \/ Has(Tail(s), x)
    BY <2>1, AfterTail DEF Has
  <2>2. x = Head(s) => Has(s, x)
    BY AfterTail DEF Has
  <2>3. ASSUME NEW i \in DOMAIN Tail(s), Tail(s)[i] = x PROVE Has(s, x)
    BY <2>3, AfterTail DEF Has
  <2>4. QED
    BY <2>1, <2>2, <2>3 DEF Has
<1>3. ASSUME NEW x, Once(s, x) PROVE Once(Tail(s), x)
  <2> SUFFICES ASSUME NEW i \in DOMAIN Tail(s), NEW j \in DOMAIN Tail(s),
                      Tail(s)[i] = x, Tail(s)[j] = x
               PROVE  i = j
    BY DEF Once
  <2>1. i + 1 = j + 1
    BY AfterTail, <1>3 DEF Once
  <2>2. i \in Nat /\ j \in Nat
    BY <1>1, LenProperties
  <2>3. QED
    BY <2>1, <2>2
<1>4. ASSUME NEW x, Once(s, x), x = Head(s) PROVE ~Has(Tail(s), x)
    BY AfterTail, <1>4 DEF Once, Has
<1>5. QED
    BY <1>1, <1>2, <1>3, <1>4

\* Occurrences in a sequence with one more element.
LEMMA HasMore ==
    ASSUME NEW T, NEW s \in Seq(T), NEW e \in T
    PROVE  /\ s \o <<e>> \in Seq(T)
           /\ \A x : Has(s \o <<e>>, x) <=> x = e \/ Has(s, x)
           /\ \A x : Once(s, x) /\ (x = e => ~Has(s, x)) => Once(s \o <<e>>, x)
<1> DEFINE t == s \o <<e>>
           n == Len(s) + 1
<1>1. /\ t \in Seq(T)
      /\ t[n] = e
      /\ DOMAIN t = DOMAIN s \cup {n}
      /\ \A i \in DOMAIN s : t[i] = s[i] /\ i # n
    BY AfterOne
<1> HIDE DEF t, n
<1>2. ASSUME NEW x PROVE Has(t, x) <=> x = e \/ Has(s, x)
    BY <1>1 DEF Has
<1>3. ASSUME NEW x, Once(s, x), x = e => ~Has(s, x) PROVE Once(t, x)
    BY <1>1, <1>3 DEF Has, Once
<1>4. QED
    BY <1>1, <1>2, <1>3 DEF t

\* Two elements put together one after the other.
LEMMA Pair ==
    ASSUME NEW T, NEW d \in T, NEW e \in T
    PROVE  /\ Append(<<d>>, e) = <<d, e>>
           /\ <<d>> \o <<e>> = <<d, e>>
<1> DEFINE s == Append(<<d>>, e)
<1>1. s \in Seq(T) /\ Len(s) = 2 /\ s[1] = d /\ s[2] = e
    BY AppendProperties
<1>2. <<d>> \o <<e>> = s
    BY AppendIsConcat
<1> HIDE DEF s
<1>3. s = <<d, e>>
    BY <1>1
<1>4. QED
    BY <1>2, <1>3 DEF s

\* Occurrences in a sequence with two more elements.
LEMMA HasTwoMore ==
    ASSUME NEW T, NEW s \in Seq(T), NEW d \in T, NEW e \in T
    PROVE  /\ s \o <<d, e>> \in Seq(T)
           /\ \A x : Has(s \o <<d, e>>, x) <=> x = d \/ x = e \/ Has(s, x)
           /\ \A x : Once(s, x) /\ (x = d => x # e) /\ (x \in {d, e} => ~Has(s, x))
                    => Once(s \o <<d, e>>, x)
<1> DEFINE t == s \o <<d>>
<1>1. <<d>> \in Seq(T) /\ <<e>> \in Seq(T)
    OBVIOUS
<1>2. <<d, e>> = <<d>> \o <<e>>
    BY Pair
<1>3. s \o <<d, e>> = t \o <<e>>
    BY <1>1, <1>2, ConcatAssociative
<1>4. /\ t \in Seq(T)
      /\ \A x : Has(t, x) <=> x = d \/ Has(s, x)
      /\ \A x : Once(s, x) /\ (x = d => ~Has(s, x)) => Once(t, x)
    BY HasMore
<1> HIDE DEF t
<1>5. /\ t \o <<e>> \in Seq(T)
      /\ \A x : Has(t \o <<e>>, x) <=> x = e \/ Has(t, x)
      /\ \A x : Once(t, x) /\ (x = e => ~Has(t, x)) => Once(t \o <<e>>, x)
    BY <1>4, HasMore
<1> DEFINE u == t \o <<e>>
<1>6. u = s \o <<d, e>>
    BY <1>3
<1> HIDE DEF u
<1>7. /\ u \in Seq(T)
      /\ \A x : Has(u, x) <=> x = d \/ x = e \/ Has(s, x)
      /\ \A x : Once(s, x) /\ (x = d => x # e) /\ (x \in {d, e} => ~Has(s, x)) => Once(u, x)
    BY <1>4, <1>5 DEF u
<1>8. QED
    BY <1>6, <1>7

-----------------------------------------------------------------------------
\* The sidecar prints one event.
LEMMA Emitted ==
    ASSUME TypeOK, NEW e \in EventSet, Emit(<<e>>)
    PROVE  /\ events' \in Seq(EventSet)
           /\ EvtOut' <=> EvtOut \/ e = "rotated"
           /\ Has(events, "stopped")' <=> Has(events, "stopped") \/ e = "stopped"
           /\ Once(events, "rotated") /\ (e = "rotated" => ~EvtOut) => Once(events, "rotated")'
<1>1. events \in Seq(EventSet)
    BY DEF TypeOK, EventSet
<1>2. QED
    BY <1>1, HasMore DEF Emit, EvtOut

\* The sidecar reports its system leg, then the rotation.
LEMMA EmittedTwo ==
    ASSUME TypeOK, Emit(<<"rotate_error", "rotated">>)
    PROVE  /\ events' \in Seq(EventSet)
           /\ EvtOut'
           /\ Has(events, "stopped")' <=> Has(events, "stopped")
           /\ Once(events, "rotated") /\ ~EvtOut => Once(events, "rotated")'
<1>1. events \in Seq(EventSet)
    BY DEF TypeOK, EventSet
<1>2. "rotate_error" \in EventSet /\ "rotated" \in EventSet
    BY DEF EventSet
<1>3. QED
    BY <1>1, <1>2, HasTwoMore DEF Emit, EvtOut

\* The sidecar answers the one rotation it was told to make.
LEMMA Rotated ==
    ASSUME TypeOK, Commands, OneOut, StopOrder, SidecarRotate
    PROVE  /\ CmdOut
           /\ cmds' \in {<<>>, <<StopCmd>>}
           /\ cmds' = <<StopCmd>> <=> StopIn
           /\ events' \in Seq(EventSet)
           /\ Once(events, "rotated")'
           /\ StopSaid' <=> StopSaid
           /\ \/ EvtOut' /\ mic' = idx + 1 /\ files' = files \cup {idx + 1}
              \/ ~EvtOut' /\ mic' \in {mic, NoFile} /\ files' = files
           /\ UNCHANGED <<alive, terminal, rotq, session, orchVars, stopSent, run, row, stopPc,
                          callVars>>
<1>1. /\ CmdOut
      /\ Head(cmds) = idx + 1
      /\ cmds' \in {<<>>, <<StopCmd>>}
      /\ cmds' = <<StopCmd>> <=> StopIn
  <2>1. idx + 1 # StopCmd /\ cmds # <<>> /\ Head(cmds) # StopCmd /\ cmds' = Tail(cmds)
    BY DEF TypeOK, Chunks, StopCmd, SidecarRotate
  <2>2. CASE cmds = <<idx + 1>>
    BY <2>1, <2>2 DEF CmdOut, StopIn
  <2>3. CASE cmds = <<idx + 1, StopCmd>>
    BY <2>1, <2>3 DEF CmdOut, StopIn
  <2>4. cmds # <<StopCmd>>
    BY <2>1
  <2>5. QED
    BY <2>1, <2>2, <2>3, <2>4 DEF Commands
<1>2. ~EvtOut
    BY <1>1 DEF OneOut, Landed
<1>3. UNCHANGED <<alive, terminal, rotq, session, orchVars, stopSent, run, row, stopPc, callVars>>
    BY DEF SidecarRotate
<1>4. CASE RotateOk(idx + 1)
  <2>1. mic' = idx + 1 /\ files' = files \cup {idx + 1}
    BY <1>4 DEF RotateOk
  <2>2. CASE Emit(<<"rotated">>)
    BY <1>1, <1>2, <1>3, <2>1, <2>2, Emitted DEF EventSet, OneOut, StopSaid
  <2>3. CASE Emit(<<"rotate_error", "rotated">>)
    BY <1>1, <1>2, <1>3, <2>1, <2>3, EmittedTwo DEF OneOut, StopSaid
  <2>4. QED
    BY <1>4, <2>2, <2>3 DEF RotateOk
<1>5. CASE RotateFails
    BY <1>1, <1>2, <1>3, <1>5, Emitted DEF RotateFails, EventSet, OneOut, StopSaid
<1>6. QED
    BY <1>1, <1>4, <1>5 DEF SidecarRotate

\* The sidecar stops: nothing was left for it to do.
LEMMA SaidStop ==
    ASSUME TypeOK, Commands, OneOut, StopOrder, SidecarStop
    PROVE  /\ StopIn /\ ~CmdOut /\ cmds' = <<>> /\ mic' = NoFile
           /\ events' \in Seq(EventSet)
           /\ EvtOut' <=> EvtOut
           /\ Once(events, "rotated")'
           /\ UNCHANGED <<alive, files, terminal, rotq, session, orchVars, stopSent, run, row,
                          stopPc, callVars>>
<1>1. PICK e \in Terminals : Emit(<<e>>)
    BY DEF SidecarStop
<1>2. cmds = <<StopCmd>> /\ idx + 1 # StopCmd
    BY DEF SidecarStop, Commands, StopCmd, TypeOK, Chunks
<1>3. StopIn /\ ~CmdOut /\ cmds' = <<>> /\ mic' = NoFile
    BY <1>2 DEF SidecarStop, StopIn, CmdOut
<1>4. e \in EventSet /\ e # "rotated"
    BY DEF EventSet, Terminals
<1>5. QED
    BY <1>1, <1>3, <1>4, Emitted DEF OneOut, SidecarStop

\* The death of the sidecar takes its commands along, not its events.
LEMMA Died ==
    ASSUME TypeOK, OneOut, SidecarDies
    PROVE  /\ cmds' = <<>> /\ mic' = NoFile /\ alive' = FALSE
           /\ events' \in Seq(EventSet)
           /\ EvtOut' <=> EvtOut
           /\ StopSaid' <=> StopSaid
           /\ Once(events, "rotated")'
           /\ UNCHANGED <<files, terminal, rotq, session, orchVars, stopSent, run, row, stopPc,
                          callVars>>
<1>1. Emit(<<"error">>) /\ "error" \in EventSet
    BY DEF SidecarDies, EventSet, Terminals
<1>2. QED
    BY <1>1, Emitted DEF OneOut, SidecarDies, StopSaid

\* The dispatcher hands a rotation on, once, as long as somebody listens.
LEMMA Dispatched ==
    ASSUME TypeOK, OneOut, Dispatch
    PROVE  /\ events' \in Seq(EventSet)
           /\ Once(events, "rotated")'
           /\ StopSaid' <=> StopSaid
           /\ rotq' \in Nat /\ rotq' <= 1
           /\ EvtOut' => rotq' = 0
           /\ Landed' => Landed
           /\ orch # "done" => (Landed' <=> Landed)
           /\ terminal' \in Terminals \cup {"none"}
           /\ terminal = "none"
           /\ UNCHANGED <<sidecarVars, session, orchVars, stopSent, run, row, stopPc, callVars>>
<1> DEFINE e == Head(events)
<1>1. events \in Seq(EventSet) /\ events # <<>> /\ terminal = "none"
    BY DEF TypeOK, EventSet, Dispatch
<1>2. /\ e \in EventSet
      /\ events' \in Seq(EventSet)
      /\ EvtOut <=> e = "rotated" \/ EvtOut'
      /\ Has(events, "stopped") <=> e = "stopped" \/ Has(events, "stopped")'
      /\ Once(events, "rotated")'
      /\ e = "rotated" => ~EvtOut'
    BY <1>1, HasTail DEF Dispatch, EvtOut, OneOut
<1>3. /\ rotq' = IF e = "rotated" /\ orch # "done" THEN rotq + 1 ELSE rotq
      /\ terminal' = IF e \in Terminals THEN e ELSE terminal
      /\ UNCHANGED <<sidecarVars, session, orchVars, stopSent, run, row, stopPc, callVars>>
    BY DEF Dispatch
<1> HIDE DEF e
<1>4. rotq \in Nat /\ rotq <= 1 /\ (EvtOut => rotq = 0)
    BY DEF TypeOK, OneOut
<1>5. /\ rotq' \in Nat /\ rotq' <= 1
      /\ EvtOut' => rotq' = 0
      /\ Landed' => Landed
      /\ orch # "done" => (Landed' <=> Landed)
    BY <1>2, <1>3, <1>4 DEF Landed
<1>6. StopSaid' <=> StopSaid
    BY <1>1, <1>2, <1>3 DEF StopSaid, Terminals
<1>7. QED
    BY <1>1, <1>2, <1>3, <1>5, <1>6

-----------------------------------------------------------------------------
\* Every step preserves the types: idx stays in range as no rotation is asked
\* for beyond the bound.
LEMMA TypeNext ==
    ASSUME TypeOK, Commands, OneOut, StopOrder, [Next]_vars, ChunkAssumption
    PROVE  TypeOK'
<1> USE DEF sidecarVars, orchVars, callVars
<1>1. CASE SidecarRotate
  <2>1. idx + 1 \in Chunks
    BY <1>1, Rotated DEF TypeOK, OneOut, ChunkAssumption, Chunks
  <2>2. cmds' \in Seq(Chunks)
    <3>1. cmds' \in {<<>>, <<StopCmd>>}
      BY <1>1, Rotated
    <3>2. StopCmd \in Chunks
      BY DEF StopCmd, ChunkAssumption, Chunks
    <3>3. <<>> \in Seq(Chunks) /\ <<StopCmd>> \in Seq(Chunks)
      BY <3>2
    <3>4. QED
      BY <3>1, <3>3
  <2>3. /\ mic' \in {idx + 1, mic, NoFile}
        /\ files' \in {files, files \cup {idx + 1}}
        /\ events' \in Seq(EventSet)
        /\ UNCHANGED <<alive, terminal, rotq, session, orchVars, stopSent, run, row, stopPc,
                       callVars>>
    BY <1>1, Rotated
  <2>4. QED
    BY <2>1, <2>2, <2>3 DEF TypeOK, EventSet
<1>2. CASE SidecarStop
  <2>1. /\ cmds' = <<>> /\ mic' = NoFile
        /\ events' \in Seq(EventSet)
        /\ UNCHANGED <<alive, files, terminal, rotq, session, orchVars, stopSent, run, row,
                       stopPc, callVars>>
    BY <1>2, SaidStop
  <2>2. QED
    BY <2>1 DEF TypeOK, EventSet
<1>3. CASE SidecarDies
  <2>1. /\ cmds' = <<>> /\ mic' = NoFile /\ alive' \in BOOLEAN
        /\ events' \in Seq(EventSet)
        /\ UNCHANGED <<files, terminal, rotq, session, orchVars, stopSent, run, row,
                       stopPc, callVars>>
    BY <1>3, Died
  <2>2. QED
    BY <2>1 DEF TypeOK, EventSet
<1>4. CASE Dispatch
  <2>1. /\ events' \in Seq(EventSet)
        /\ rotq' \in Nat
        /\ terminal' \in Terminals \cup {"none"}
        /\ UNCHANGED <<sidecarVars, session, orchVars, stopSent, run, row, stopPc, callVars>>
    BY <1>4, Dispatched
  <2>2. QED
    BY <2>1 DEF TypeOK, EventSet
<1>5. ASSUME ApplyRotated PROVE idx' \in Chunks /\ rotq' \in Nat /\ run' \in [Chunks -> RunPcs]
  <2>1. idx < MaxChunk
    BY <1>5 DEF ApplyRotated, OneOut, Landed
  <2>2. QED
    BY <1>5, <2>1 DEF ApplyRotated, ChunkAssumption, Chunks, TypeOK, RunPcs
<1>6. CASE OrchRotated
  <2>1. /\ idx' \in Chunks /\ rotq' \in Nat /\ run' \in [Chunks -> RunPcs] /\ pending' = FALSE
        /\ UNCHANGED <<sidecarVars, events, terminal, session, orch, drained, stopSent, row,
                       stopPc, callVars>>
    BY <1>5, <1>6 DEF OrchRotated
  <2>2. QED
    BY <2>1 DEF TypeOK
<1>7. CASE Tick
    BY <1>7 DEF Tick, TypeOK, OrchPcs
<1>8. CASE WriteRotate
  <2>1. idx + 1 \in Chunks
    BY <1>8 DEF WriteRotate, OneOut, ChunkAssumption, Chunks, TypeOK
  <2>2. Append(cmds, idx + 1) \in Seq(Chunks)
    BY <2>1, AppendProperties DEF TypeOK
  <2>3. QED
    BY <1>8, <2>2 DEF WriteRotate, TypeOK, OrchPcs
<1>9. CASE OrchBreaks
    BY <1>9 DEF OrchBreaks, TypeOK, OrchPcs
<1>10. CASE Sweep
    BY <1>5, <1>10 DEF Sweep, TypeOK, OrchPcs
<1>11. CASE Drain
    BY <1>11 DEF Drain, ChunkAssumption, Chunks, TypeOK, OrchPcs
<1>12. ASSUME NEW k \in Chunks, RunChunk(k) PROVE TypeOK'
  <2>1. PICK pc \in RunPcs, status \in RowStatus : Runs(k, pc, status)
    BY <1>12 DEF RunChunk, InsertChunk, ClaimChunk, ChunkTranscribed, ChunkFails, RunPcs,
       RowStatus, TypeOK
  <2>2. QED
    BY <2>1 DEF Runs, TypeOK
<1>13. CASE TakeSession
    BY <1>13 DEF TakeSession, StopGoes, TypeOK, StopPcs
<1>14. CASE Stop
  <2>1. Append(cmds, StopCmd) \in Seq(Chunks)
    BY AppendProperties DEF TypeOK, StopCmd, Chunks, ChunkAssumption
  <2>2. CASE SignalOrchestrator \/ Stopped \/ StopFails
    BY <2>2 DEF SignalOrchestrator, Stopped, StopFails, StopGoes, TypeOK, StopPcs
  <2>3. CASE WriteStop
    BY <2>1, <2>3 DEF WriteStop, TypeOK, StopPcs
  <2>4. CASE DiscardShort
    BY <2>4 DEF DiscardShort, TypeOK, StopPcs, RowStatus
  <2>5. QED
    BY <1>14, <2>2, <2>3, <2>4 DEF Stop
<1>15. CASE Finalize
  <2>1. CASE JoinOrchestrator \/ FinalRan
    BY <2>1 DEF JoinOrchestrator, FinalRan, StopGoes, TypeOK, StopPcs
  <2>2. CASE PlanFinal
    BY <2>2 DEF PlanFinal, StopGoes, TypeOK, StopPcs, RowStatus
  <2>3. CASE FinalEngine
    BY <2>3 DEF FinalEngine, TypeOK, StopPcs, RunPcs
  <2>4. CASE Assemble
    BY <2>4 DEF Assemble, StopGoes, TypeOK, StopPcs
  <2>5. QED
    BY <1>15, <2>1, <2>2, <2>3, <2>4 DEF Finalize
<1>16. CASE UNCHANGED vars
    BY <1>16 DEF vars, TypeOK
<1>17. QED
    BY <1>1, <1>2, <1>3, <1>4, <1>6, <1>7, <1>8, <1>9, <1>10, <1>11, <1>12, <1>13, <1>14,
       <1>15, <1>16 DEF Next, Sidecar, Orchestrator

-----------------------------------------------------------------------------
\* What the other processes do leaves the rotation alone.
LEMMA Aside ==
    ASSUME \/ \E k \in Chunks : RunChunk(k)
           \/ TakeSession \/ SignalOrchestrator \/ Stopped \/ StopFails \/ Finalize
           \/ UNCHANGED vars
    PROVE  UNCHANGED <<alive, mic, files, cmds, events, terminal, rotq, orch, idx, pending>>
<1> USE DEF sidecarVars, orchVars, callVars, StopGoes
<1>1. CASE \E k \in Chunks : RunChunk(k)
    BY <1>1 DEF RunChunk, InsertChunk, ClaimChunk, ChunkTranscribed, ChunkFails, Runs
<1>2. CASE TakeSession \/ SignalOrchestrator \/ Stopped \/ StopFails
    BY <1>2 DEF TakeSession, SignalOrchestrator, Stopped, StopFails
<1>3. CASE Finalize
    BY <1>3 DEF Finalize, JoinOrchestrator, PlanFinal, FinalEngine, FinalRan, Assemble
<1>4. QED
    BY <1>1, <1>2, <1>3 DEF vars

\* A rotation is asked for only when nothing else is on its way.
LEMMA WroteRotate ==
    ASSUME TypeOK, Commands, OneOut, StopOrder, WriteRotate, session, alive
    PROVE  /\ ~StopSaid
           /\ cmds' = <<idx + 1>>
           /\ CmdOut' /\ ~StopIn'
           /\ UNCHANGED pending
<1>1. /\ cmds' = Append(cmds, idx + 1) /\ UNCHANGED <<idx, pending>> /\ orch = "rotating"
      /\ idx + 1 # StopCmd
    BY DEF WriteRotate, TypeOK, Chunks, StopCmd
<1>2. ~CmdOut /\ ~StopIn /\ ~StopSaid
    BY <1>1 DEF OneOut, StopOrder
<1>3. cmds = <<>>
    BY <1>2 DEF Commands, CmdOut, StopIn
<1>4. cmds' = <<idx + 1>>
    BY <1>1, <1>3
<1>5. CmdOut'
    BY <1>1, <1>4 DEF CmdOut
<1>6. <<idx + 1>> # <<StopCmd>> /\ <<idx + 1>> # <<idx + 1, StopCmd>>
    BY <1>1
<1>7. ~StopIn'
    BY <1>1, <1>4, <1>6 DEF StopIn
<1>8. QED
    BY <1>1, <1>2, <1>4, <1>5, <1>7

\* The stop command goes behind the rotation, if there is one.
LEMMA WroteStop ==
    ASSUME TypeOK, Commands, StopOrder, WriteStop, alive, ChunkAssumption
    PROVE  /\ ~StopSaid
           /\ Commands'
           /\ CmdOut' <=> CmdOut
           /\ StopIn'
<1>1. /\ cmds' = Append(cmds, StopCmd) /\ idx' = idx /\ idx + 1 # StopCmd
      /\ idx + 1 \in Nat /\ StopCmd \in Nat
      /\ ~StopIn /\ ~StopSaid
    BY DEF WriteStop, StopOrder, TypeOK, Chunks, StopCmd, orchVars, ChunkAssumption
<1>2. CASE cmds = <<>>
  <2>1. cmds' = <<StopCmd>> /\ ~CmdOut
    BY <1>1, <1>2 DEF CmdOut
  <2>2. QED
    BY <1>1, <2>1 DEF Commands, CmdOut, StopIn
<1>3. CASE cmds = <<idx + 1>>
  <2>1. cmds' = <<idx + 1, StopCmd>> /\ CmdOut
    BY <1>1, <1>3, Pair DEF CmdOut
  <2>2. QED
    BY <1>1, <2>1 DEF Commands, CmdOut, StopIn
<1>4. QED
    BY <1>1, <1>2, <1>3 DEF Commands, StopIn

\* Every step preserves Commands.
LEMMA CommandsNext ==
    ASSUME TypeOK, Commands, OneOut, StopOrder, [Next]_vars, ChunkAssumption
    PROVE  Commands'
<1> USE DEF Commands
<1>1. CASE SidecarRotate
    BY <1>1, Rotated DEF orchVars
<1>2. CASE SidecarStop
    BY <1>2, SaidStop
<1>3. CASE SidecarDies
    BY <1>3, Died
<1>4. CASE Dispatch \/ Tick \/ OrchBreaks \/ Drain
    BY <1>4 DEF Dispatch, Tick, OrchBreaks, Drain, sidecarVars, orchVars
<1>5. CASE OrchRotated \/ Sweep
  <2>1. CASE ApplyRotated
    <3>1. ~CmdOut /\ cmds' = cmds
      BY <1>5, <2>1 DEF ApplyRotated, OneOut, Landed, OrchRotated, Sweep, sidecarVars
    <3>2. QED
      BY <3>1 DEF CmdOut
  <2>2. QED
    BY <1>5, <2>1 DEF OrchRotated, Sweep, sidecarVars
<1>6. CASE WriteRotate
  <2>1. CASE session /\ alive
    BY <1>6, <2>1, WroteRotate DEF WriteRotate
  <2>2. QED
    BY <1>6, <2>1 DEF WriteRotate
<1>7. CASE WriteStop
  <2>1. CASE alive
    BY <1>7, <2>1, WroteStop
  <2>2. QED
    BY <1>7, <2>1 DEF WriteStop, orchVars
<1>8. CASE DiscardShort
    BY <1>8 DEF DiscardShort, orchVars
<1>9. QED
    BY <1>1, <1>2, <1>3, <1>4, <1>5, <1>6, <1>7, <1>8, Aside
       DEF Next, Sidecar, Orchestrator, Stop

\* Every step preserves OneOut.
LEMMA OneOutNext ==
    ASSUME TypeOK, Commands, OneOut, StopOrder, [Next]_vars, ChunkAssumption
    PROVE  OneOut'
<1>1. CASE SidecarRotate
  <2>1. /\ CmdOut /\ ~CmdOut' /\ Once(events, "rotated")'
        /\ UNCHANGED <<rotq, orch, idx, pending>>
    <3>1. idx + 1 # StopCmd
      BY DEF TypeOK, Chunks, StopCmd
    <3>2. QED
      BY <1>1, <3>1, Rotated DEF orchVars, CmdOut
  <2>2. rotq = 0
    BY <2>1 DEF OneOut, Landed, TypeOK
  <2>3. QED
    BY <2>1, <2>2 DEF OneOut, Landed
<1>2. CASE SidecarStop \/ SidecarDies
  <2>1. /\ cmds' = <<>> /\ (EvtOut' <=> EvtOut) /\ Once(events, "rotated")'
        /\ UNCHANGED <<rotq, orch, idx, pending>>
    <3>1. CASE SidecarStop
      BY <3>1, SaidStop DEF orchVars
    <3>2. CASE SidecarDies
      BY <3>2, Died DEF orchVars
    <3>3. QED
      BY <1>2, <3>1, <3>2
  <2>2. ~CmdOut'
    BY <2>1 DEF CmdOut
  <2>3. QED
    BY <2>1, <2>2 DEF OneOut, Landed
<1>3. CASE Dispatch
  <2>1. /\ Once(events, "rotated")'
        /\ rotq' <= 1
        /\ EvtOut' => rotq' = 0
        /\ Landed' => Landed
        /\ UNCHANGED <<cmds, orch, idx, pending>>
    BY <1>3, Dispatched DEF orchVars, sidecarVars
  <2>2. QED
    BY <2>1 DEF OneOut, CmdOut
<1>4. CASE OrchRotated \/ Sweep
  <2>1. CASE ApplyRotated
    <3>1. /\ rotq = 1 /\ rotq' = 0 /\ ~EvtOut /\ ~CmdOut
          /\ orch # "rotating" /\ UNCHANGED <<orch, cmds, events>>
      BY <1>4, <2>1 DEF ApplyRotated, OneOut, Landed, OrchRotated, Sweep, sidecarVars, TypeOK
    <3>2. ~CmdOut' /\ ~EvtOut' /\ ~Landed'
      <4>1. cmds \in {<<>>, <<StopCmd>>} /\ idx' + 1 # StopCmd
        BY <3>1, <2>1 DEF Commands, CmdOut, ApplyRotated, TypeOK, Chunks, StopCmd
      <4>2. QED
        BY <3>1, <4>1 DEF CmdOut, EvtOut, Landed
    <3>3. QED
      BY <3>1, <3>2 DEF OneOut
  <2>2. CASE orch = "sweep" /\ orch' = "drain" /\ UNCHANGED <<rotq, idx, cmds, events, pending>>
    BY <2>2 DEF OneOut, CmdOut, Landed, EvtOut
  <2>3. QED
    BY <1>4, <2>1, <2>2 DEF OrchRotated, Sweep, sidecarVars
<1>5. CASE Tick
  <2>1. /\ orch' = "rotating" /\ pending' = TRUE /\ ~pending /\ idx < MaxChunk
        /\ UNCHANGED <<cmds, events, rotq, idx>>
    BY <1>5 DEF Tick, sidecarVars
  <2>2. QED
    BY <2>1 DEF OneOut, CmdOut, Landed, EvtOut
<1>6. CASE WriteRotate
  <2>1. /\ orch = "rotating" /\ orch' = "loop" /\ UNCHANGED <<events, rotq, idx>>
    BY <1>6 DEF WriteRotate
  <2>2. CASE session /\ alive
    BY <1>6, <2>1, <2>2, WroteRotate DEF OneOut, Landed, EvtOut
  <2>3. CASE pending' = FALSE /\ UNCHANGED cmds
    BY <2>1, <2>3 DEF OneOut, CmdOut, Landed, EvtOut
  <2>4. QED
    BY <1>6, <2>2, <2>3 DEF WriteRotate
<1>7. CASE OrchBreaks \/ Drain
  <2>1. orch' # "rotating" /\ orch # "rotating" /\ UNCHANGED <<cmds, events, rotq, idx, pending>>
    BY <1>7 DEF OrchBreaks, Drain, sidecarVars
  <2>2. QED
    BY <2>1 DEF OneOut, CmdOut, Landed, EvtOut
<1>8. CASE WriteStop
  <2>1. UNCHANGED <<orch, events, rotq, idx, pending>>
    BY <1>8 DEF WriteStop, orchVars
  <2>2. CASE alive
    BY <1>8, <2>1, <2>2, WroteStop DEF OneOut, Landed, EvtOut
  <2>3. CASE ~alive
    BY <1>8, <2>1, <2>3 DEF WriteStop, OneOut, CmdOut, Landed, EvtOut
  <2>4. QED
    BY <2>2, <2>3
<1>9. CASE UNCHANGED <<orch, cmds, events, rotq, idx, pending>>
    BY <1>9 DEF OneOut, CmdOut, Landed, EvtOut
<1>10. CASE DiscardShort
    BY <1>9, <1>10 DEF DiscardShort, orchVars
<1>11. QED
    BY <1>1, <1>2, <1>3, <1>4, <1>5, <1>6, <1>7, <1>8, <1>9, <1>10, Aside
       DEF Next, Sidecar, Orchestrator, Stop
\* A discarded call stays discarded.
LEMMA OutcomeStays ==
    ASSUME StopOrder, [Next]_vars, outcome = "discarded"
    PROVE  outcome' = outcome
<1>1. stopPc = "end"
    BY DEF StopOrder
<1> USE DEF sidecarVars, orchVars, callVars, StopGoes
<1>2. CASE Sidecar \/ SidecarDies \/ Dispatch \/ Orchestrator \/ Tick
    BY <1>2 DEF Sidecar, SidecarRotate, SidecarStop, SidecarDies, Dispatch, Orchestrator,
       OrchRotated, WriteRotate, OrchBreaks, Sweep, Drain, Tick
<1>3. CASE \E k \in Chunks : RunChunk(k)
    BY <1>3 DEF RunChunk, InsertChunk, ClaimChunk, ChunkTranscribed, ChunkFails, Runs
<1>4. CASE Stop \/ TakeSession
    BY <1>1, <1>4 DEF Stop, TakeSession, SignalOrchestrator, WriteStop, Stopped, DiscardShort,
       StopFails
<1>5. CASE Finalize
    BY <1>1, <1>5 DEF Finalize, JoinOrchestrator, PlanFinal, FinalEngine, FinalRan, Assemble
<1>6. QED
    BY <1>2, <1>3, <1>4, <1>5 DEF Next, vars

\* Every step preserves Agreed.
LEMMA AgreedNext ==
    ASSUME TypeOK, Commands, OneOut, StopOrder, Agreed, [Next]_vars, ChunkAssumption, OneOut'
    PROVE  Agreed'
<1> DEFINE live == orch \in {"loop", "rotating", "sweep"}
<1>1. /\ idx \in Nat /\ mic \in Nat \cup {NoFile} /\ rotq \in Nat
      /\ outcome' # "discarded" => outcome # "discarded"
    BY OutcomeStays DEF TypeOK, Chunks, ChunkAssumption
<1>2. CASE SidecarRotate
  <2>1. /\ CmdOut /\ ~CmdOut' /\ ~Landed /\ rotq' = 0 /\ UNCHANGED <<idx, orch>>
    <3>1. /\ CmdOut /\ cmds' \in {<<>>, <<StopCmd>>} /\ UNCHANGED <<rotq, idx, orch>>
      BY <1>2, Rotated DEF orchVars
    <3>2. idx + 1 # StopCmd
      BY <1>1 DEF StopCmd
    <3>3. QED
      BY <1>1, <3>1, <3>2 DEF OneOut, CmdOut, Landed
  <2>2. Hi = idx /\ files \subseteq 0..idx /\ (outcome # "discarded" => files = 0..idx)
    BY <2>1 DEF Agreed, Hi
  <2>3. CASE EvtOut' /\ mic' = idx + 1 /\ files' = files \cup {idx + 1}
    <3>1. Hi' = idx + 1 /\ 0..idx + 1 = (0..idx) \cup {idx + 1}
      BY <1>1, <2>1, <2>3 DEF Hi, Landed
    <3>2. QED
      BY <1>1, <2>1, <2>2, <2>3, <3>1 DEF Agreed
  <2>4. CASE ~EvtOut' /\ mic' \in {mic, NoFile} /\ files' = files
    <3>1. Hi' = idx
      BY <2>1, <2>4 DEF Hi, Landed
    <3>2. QED
      BY <1>1, <2>1, <2>2, <2>4, <3>1 DEF Agreed
  <2>5. QED
    BY <1>2, <2>3, <2>4, Rotated
<1>3. ASSUME mic' = NoFile, ~CmdOut', Landed' <=> Landed, UNCHANGED <<idx, orch, files>>
      PROVE  Agreed'
    BY <1>1, <1>3 DEF Agreed, Hi
<1>4. CASE SidecarStop
    BY <1>3, <1>4, SaidStop DEF orchVars, Landed, CmdOut
<1>5. CASE SidecarDies
    BY <1>3, <1>5, Died DEF orchVars, Landed, CmdOut
<1>6. CASE Dispatch
  <2>1. /\ Landed' => Landed
        /\ orch # "done" => (Landed' <=> Landed)
        /\ UNCHANGED <<idx, orch, cmds, files, mic>>
    BY <1>6, Dispatched DEF orchVars, sidecarVars
  <2>2. CmdOut' <=> CmdOut
    BY <2>1 DEF CmdOut
  <2>3. CmdOut => ~Landed
    BY DEF OneOut
  <2>4. live \/ CmdOut => Hi' = Hi
    BY <2>1, <2>3 DEF Hi
  <2>5. Hi' <= Hi /\ Hi' \in Nat /\ Hi \in Nat
    BY <1>1, <2>1 DEF Hi
  <2>6. QED
    BY <1>1, <2>1, <2>2, <2>4, <2>5 DEF Agreed
<1>7. CASE OrchRotated \/ Sweep
  <2>1. CASE ApplyRotated
    <3>1. /\ rotq = 1 /\ rotq' = 0 /\ idx' = idx + 1 /\ live /\ ~EvtOut /\ ~CmdOut
          /\ UNCHANGED <<orch, cmds, files, mic, events>>
      BY <1>7, <2>1 DEF ApplyRotated, OneOut, Landed, OrchRotated, Sweep, sidecarVars, TypeOK
    <3>2. Hi = idx + 1 /\ Hi' = idx + 1
      BY <1>1, <3>1 DEF Hi, Landed, EvtOut
    <3>3. QED
      BY <1>1, <3>1, <3>2 DEF Agreed
  <2>2. CASE orch = "sweep" /\ orch' = "drain" /\ UNCHANGED <<rotq, idx, cmds, events, files, mic>>
    BY <1>1, <2>2 DEF Agreed, CmdOut, Landed, EvtOut, Hi
  <2>3. QED
    BY <1>7, <2>1, <2>2 DEF OrchRotated, Sweep, sidecarVars
<1>8. CASE Tick \/ OrchBreaks \/ Drain
  <2>1. /\ UNCHANGED <<rotq, idx, cmds, events, files, mic>>
        /\ live \/ orch' \in {"drain", "done"}
    BY <1>8 DEF Tick, OrchBreaks, Drain, sidecarVars
  <2>2. QED
    BY <1>1, <2>1 DEF Agreed, CmdOut, Landed, EvtOut, Hi
<1>9. CASE WriteRotate
  <2>1. live /\ UNCHANGED <<rotq, idx, events, files, mic>>
    BY <1>9 DEF WriteRotate
  <2>2. QED
    BY <1>1, <2>1 DEF Agreed, Landed, EvtOut, Hi
<1>10. ASSUME UNCHANGED <<rotq, idx, orch, events, files, mic>>, CmdOut' <=> CmdOut
       PROVE  Agreed'
    BY <1>1, <1>10 DEF Agreed, Landed, EvtOut, Hi
<1>11. CASE WriteStop
  <2>1. UNCHANGED <<rotq, idx, orch, events, files, mic>>
    BY <1>11 DEF WriteStop, orchVars
  <2>2. CASE alive
    BY <1>10, <1>11, <2>1, <2>2, WroteStop
  <2>3. CASE ~alive
    BY <1>10, <1>11, <2>1, <2>3 DEF WriteStop, CmdOut
  <2>4. QED
    BY <2>2, <2>3
<1>12. CASE DiscardShort
  <2>1. files' = {} /\ outcome' = "discarded" /\ UNCHANGED <<rotq, idx, orch, events, cmds, mic>>
    BY <1>12 DEF DiscardShort, orchVars
  <2>2. QED
    BY <1>1, <2>1 DEF Agreed, Landed, EvtOut, Hi
<1>13. CASE UNCHANGED <<rotq, idx, orch, events, files, mic, cmds>>
    BY <1>10, <1>13 DEF CmdOut
<1>14. QED
    BY <1>2, <1>4, <1>5, <1>6, <1>7, <1>8, <1>9, <1>11, <1>12, <1>13, Aside
       DEF Next, Sidecar, Orchestrator, Stop
\* Every step preserves StopOrder.
LEMMA StopOrderNext ==
    ASSUME TypeOK, Commands, OneOut, StopOrder, [Next]_vars, ChunkAssumption
    PROVE  StopOrder'
<1>1. idx + 1 # StopCmd /\ idx + 1 \in Nat
    BY DEF TypeOK, Chunks, StopCmd, ChunkAssumption
<1>2. ASSUME StopSaid' => StopSaid /\ UNCHANGED cmds, mic' \in {mic, NoFile}, StopIn' => StopIn,
             UNCHANGED <<session, stopPc, outcome, terminal>>, orch = "done" => orch' = "done"
      PROVE  StopOrder'
    BY <1>2 DEF StopOrder
<1>3. CASE SidecarRotate
  <2>1. /\ CmdOut /\ (StopIn' => StopIn) /\ (StopSaid' <=> StopSaid)
        /\ UNCHANGED <<session, stopPc, outcome, terminal, orch>>
    <3>1. /\ cmds' \in {<<>>, <<StopCmd>>} /\ (cmds' = <<StopCmd>> <=> StopIn) /\ CmdOut
          /\ StopSaid' <=> StopSaid
          /\ UNCHANGED <<session, stopPc, outcome, terminal, orch, idx>>
      BY <1>3, Rotated DEF orchVars, callVars
    <3>2. <<>> # <<StopCmd>> /\ <<>> # <<idx + 1, StopCmd>>
      OBVIOUS
    <3>3. QED
      BY <3>1, <3>2 DEF StopIn
  <2>2. cmds # <<>>
    BY <2>1 DEF CmdOut
  <2>3. ~StopSaid
    BY <2>2 DEF StopOrder
  <2>4. QED
    BY <2>1, <2>3 DEF StopOrder
<1>4. CASE SidecarStop
  <2>1. /\ StopIn /\ cmds' = <<>> /\ mic' = NoFile
        /\ UNCHANGED <<session, stopPc, outcome, terminal, orch>>
    BY <1>4, SaidStop DEF orchVars, callVars
  <2>2. ~StopIn'
    BY <2>1 DEF StopIn
  <2>3. QED
    BY <2>1, <2>2 DEF StopOrder
<1>5. CASE SidecarDies
  <2>1. /\ cmds' = <<>> /\ mic' = NoFile /\ (StopSaid' <=> StopSaid)
        /\ UNCHANGED <<session, stopPc, outcome, terminal, orch>>
    BY <1>5, Died DEF orchVars, callVars
  <2>2. ~StopIn'
    BY <2>1 DEF StopIn
  <2>3. QED
    BY <2>1, <2>2 DEF StopOrder
<1>6. CASE Dispatch
  <2>1. /\ StopSaid' <=> StopSaid
        /\ terminal = "none"
        /\ UNCHANGED <<cmds, mic, idx, session, stopPc, outcome, orch>>
    BY <1>6, Dispatched DEF orchVars, callVars, sidecarVars
  <2>2. StopIn' <=> StopIn
    BY <2>1 DEF StopIn
  <2>3. QED
    BY <2>1, <2>2 DEF StopOrder
<1>7. CASE OrchRotated \/ Sweep
  <2>1. /\ UNCHANGED <<cmds, mic, events, terminal, session, stopPc, outcome>>
        /\ orch # "done"
        /\ ApplyRotated \/ idx' = idx
    BY <1>7 DEF OrchRotated, Sweep, sidecarVars, callVars
  <2>2. StopIn' => StopIn
    <3>1. CASE ApplyRotated
      <4>1. ~CmdOut
        BY <3>1 DEF ApplyRotated, OneOut, Landed
      <4>2. cmds \in {<<>>, <<StopCmd>>}
        BY <4>1 DEF Commands, CmdOut
      <4>3. QED
        BY <2>1, <4>2 DEF StopIn
    <3>2. QED
      BY <2>1, <3>1 DEF StopIn
  <2>3. QED
    BY <1>2, <2>1, <2>2 DEF StopSaid
<1>8. CASE Tick \/ OrchBreaks \/ Drain
  <2>1. /\ UNCHANGED <<cmds, idx, mic, events, terminal, session, stopPc, outcome>>
        /\ orch # "done"
    BY <1>8 DEF Tick, OrchBreaks, Drain, sidecarVars, callVars
  <2>2. QED
    BY <1>2, <2>1 DEF StopSaid, StopIn
<1>9. CASE WriteRotate
  <2>1. /\ UNCHANGED <<idx, mic, events, terminal, session, stopPc, outcome>>
        /\ orch # "done"
    BY <1>9 DEF WriteRotate, callVars
  <2>2. CASE session /\ alive
    <3>1. ~StopSaid /\ ~StopIn'
      BY <1>9, <2>2, WroteRotate
    <3>2. QED
      BY <1>2, <2>1, <3>1 DEF StopSaid
  <2>3. CASE UNCHANGED cmds
    BY <1>2, <2>1, <2>3 DEF StopSaid, StopIn
  <2>4. QED
    BY <1>9, <2>2, <2>3 DEF WriteRotate
<1>10. CASE \E k \in Chunks : RunChunk(k)
  <2>1. UNCHANGED <<cmds, idx, mic, events, terminal, session, stopPc, outcome, orch>>
    BY <1>10 DEF RunChunk, InsertChunk, ClaimChunk, ChunkTranscribed, ChunkFails, Runs,
       sidecarVars, orchVars, callVars
  <2>2. QED
    BY <1>2, <2>1 DEF StopSaid, StopIn
<1>11. CASE WriteStop
  <2>1. /\ UNCHANGED <<idx, mic, events, terminal, session, orch>>
        /\ stopPc = "write" /\ ~StopSaid /\ ~session
        /\ outcome' # outcome => stopPc' = "end"
        /\ stopPc' \in {"wait", "end"} /\ (outcome # "none" => stopPc = "end")
    BY <1>11 DEF WriteStop, StopOrder, orchVars
  <2>2. ~StopSaid'
    BY <2>1 DEF StopSaid
  <2>3. QED
    BY <2>1, <2>2 DEF StopOrder
<1>12. ASSUME UNCHANGED <<cmds, idx, mic, events, terminal, orch>>,
              stopPc' # "idle", ~session',
              stopPc \in {"idle", "signal"} \/ stopPc' \notin {"idle", "signal", "write"},
              stopPc' \in {"join", "final", "engine", "finalrun", "pipeline"} => terminal = "stopped",
              stopPc' \in {"final", "engine", "finalrun", "pipeline"} => orch = "done",
              outcome' # "none" => stopPc' = "end"
       PROVE  StopOrder'
  <2>1. (StopSaid' <=> StopSaid) /\ (StopIn' <=> StopIn)
    BY <1>12 DEF StopSaid, StopIn
  <2>2. QED
    BY <1>12, <2>1 DEF StopOrder
<1>13. CASE TakeSession \/ SignalOrchestrator \/ Stopped \/ DiscardShort \/ StopFails
  <2>1. UNCHANGED <<cmds, idx, mic, events, terminal, orch>>
    BY <1>13 DEF TakeSession, SignalOrchestrator, Stopped, DiscardShort, StopFails, StopGoes,
       sidecarVars, orchVars
  <2>2. ~session'
    BY <1>13 DEF TakeSession, SignalOrchestrator, Stopped, DiscardShort, StopFails, StopOrder
  <2>3. \/ stopPc = "idle" /\ stopPc' = "signal" /\ outcome' = outcome
        \/ stopPc = "signal" /\ stopPc' = "write" /\ outcome' = outcome
        \/ stopPc = "wait" /\ stopPc' = "join" /\ terminal = "stopped" /\ outcome' = outcome
        \/ stopPc = "wait" /\ stopPc' = "end"
    BY <1>13 DEF TakeSession, SignalOrchestrator, Stopped, DiscardShort, StopFails, StopGoes,
       callVars
  <2>4. outcome # "none" => stopPc = "end"
    BY DEF StopOrder
  <2>5. QED
    BY <1>12, <2>1, <2>2, <2>3, <2>4
<1>14. CASE Finalize
  <2>1. UNCHANGED <<cmds, idx, mic, events, terminal, orch, session>>
    BY <1>14 DEF Finalize, JoinOrchestrator, PlanFinal, FinalEngine, FinalRan, Assemble, StopGoes,
       sidecarVars, orchVars
  <2>2. /\ stopPc \in {"join", "final", "engine", "finalrun", "pipeline"}
        /\ stopPc = "join" => orch = "done"
        /\ \/ stopPc' \in {"final", "engine", "finalrun", "pipeline"} /\ outcome' = outcome
           \/ stopPc' = "end"
    BY <1>14 DEF Finalize, JoinOrchestrator, PlanFinal, FinalEngine, FinalRan, Assemble, StopGoes,
       callVars
  <2>3. ~session' /\ terminal = "stopped" /\ orch = "done" /\ outcome = "none"
    BY <2>1, <2>2 DEF StopOrder
  <2>4. QED
    BY <1>12, <2>1, <2>2, <2>3
<1>15. CASE UNCHANGED vars
    BY <1>2, <1>15 DEF vars, StopSaid, StopIn
<1>16. QED
    BY <1>3, <1>4, <1>5, <1>6, <1>7, <1>8, <1>9, <1>10, <1>11, <1>13, <1>14, <1>15
       DEF Next, Sidecar, Orchestrator, Stop

\* Every step preserves RunsBehind.
LEMMA RunsBehindNext ==
    ASSUME TypeOK, StopOrder, RunsBehind, [Next]_vars, ChunkAssumption
    PROVE  RunsBehind'
<1> USE DEF sidecarVars, orchVars, callVars, StopGoes
<1>1. ASSUME UNCHANGED <<run, idx, orch>>, terminal \in {"none", terminal'}
      PROVE  RunsBehind'
    BY <1>1 DEF RunsBehind
<1>2. CASE Sidecar \/ SidecarDies
    BY <1>1, <1>2 DEF Sidecar, SidecarRotate, SidecarStop, SidecarDies
<1>3. CASE Dispatch
    BY <1>1, <1>3 DEF Dispatch
<1>4. CASE OrchRotated \/ Sweep
  <2>1. terminal' = terminal /\ orch # "done" /\ idx \in Nat /\ Chunks \subseteq Nat
    BY <1>4 DEF OrchRotated, Sweep, TypeOK, Chunks, ChunkAssumption
  <2>2. CASE ApplyRotated
    BY <2>1, <2>2 DEF ApplyRotated, RunsBehind, TypeOK
  <2>3. CASE UNCHANGED <<run, idx>>
    BY <2>1, <2>3 DEF RunsBehind
  <2>4. QED
    BY <1>4, <2>2, <2>3 DEF OrchRotated, Sweep
<1>5. CASE Tick \/ WriteRotate \/ OrchBreaks \/ Drain
  <2>1. UNCHANGED <<run, idx, terminal>> /\ orch # "done"
    BY <1>5 DEF Tick, WriteRotate, OrchBreaks, Drain
  <2>2. QED
    BY <2>1 DEF RunsBehind
<1>6. ASSUME NEW k \in Chunks, RunChunk(k) PROVE RunsBehind'
  <2>1. PICK pc \in RunPcs : run' = [run EXCEPT ![k] = pc]
    BY <1>6 DEF RunChunk, InsertChunk, ClaimChunk, ChunkTranscribed, ChunkFails, Runs, RunPcs
  <2>2. run[k] # "none" /\ UNCHANGED <<idx, orch, terminal>>
    BY <1>6 DEF RunChunk, InsertChunk, ClaimChunk, ChunkTranscribed, ChunkFails, Runs
  <2>3. QED
    BY <2>1, <2>2 DEF RunsBehind, TypeOK
<1>7. CASE TakeSession \/ Stop
    BY <1>1, <1>7 DEF TakeSession, Stop, SignalOrchestrator, WriteStop, Stopped, DiscardShort,
       StopFails
<1>8. CASE FinalEngine
  <2>1. /\ terminal = "stopped" /\ orch = "done" /\ UNCHANGED <<idx, orch, terminal>>
        /\ run' \in {run, [run EXCEPT ![idx] = "claim"]}
    BY <1>8 DEF FinalEngine, StopOrder
  <2>2. QED
    BY <2>1 DEF RunsBehind, TypeOK
<1>9. CASE JoinOrchestrator \/ PlanFinal \/ FinalRan \/ Assemble
    BY <1>1, <1>9 DEF JoinOrchestrator, PlanFinal, FinalRan, Assemble
<1>10. QED
    BY <1>1, <1>2, <1>3, <1>4, <1>5, <1>6, <1>7, <1>8, <1>9
       DEF Next, Orchestrator, Finalize, vars
\* Every step preserves Gathered.
LEMMA GatheredNext ==
    ASSUME TypeOK, OneOut, Agreed, StopOrder, Gathered, [Next]_vars, ChunkAssumption
    PROVE  Gathered'
<1> USE DEF sidecarVars, orchVars, callVars, StopGoes
<1>1. /\ idx \in Nat /\ drained \in Nat /\ idx \in Chunks /\ Chunks \subseteq Nat
      /\ run \in [Chunks -> RunPcs] /\ row \in [Chunks -> RowStatus]
      /\ outcome' # "discarded" => outcome # "discarded"
    BY OutcomeStays DEF TypeOK, Chunks, ChunkAssumption
<1>2. ASSUME UNCHANGED <<drained, idx, orch, run, row, transcript>>,
             terminal = "none" \/ terminal' = terminal,
             outcome' = "ready" => outcome = "ready",
             stopPc' \in {"engine", "finalrun", "pipeline"} =>
                stopPc \in {"engine", "finalrun", "pipeline"}
      PROVE  Gathered'
    BY <1>1, <1>2 DEF Gathered
<1>3. CASE Sidecar \/ SidecarDies \/ Dispatch
    BY <1>2, <1>3 DEF Sidecar, SidecarRotate, SidecarStop, SidecarDies, Dispatch
<1>4. CASE OrchRotated \/ Sweep
  <2>1. /\ UNCHANGED <<drained, row, transcript, stopPc, terminal, outcome>> /\ orch # "done"
        /\ orch' # "done"
    BY <1>4 DEF OrchRotated, Sweep
  <2>2. stopPc \notin {"engine", "finalrun", "pipeline"} /\ outcome # "ready"
    BY <2>1 DEF StopOrder, Gathered
  <2>3. CASE ApplyRotated
    <3>1. run' = [run EXCEPT ![idx] = "insert"] /\ idx' = idx + 1
      BY <2>3 DEF ApplyRotated
    <3>2. \A k \in Chunks : run'[k] = IF k = idx THEN "insert" ELSE run[k]
      BY <1>1, <3>1
    <3>3. QED
      BY <1>1, <2>1, <2>2, <3>1, <3>2 DEF Gathered
  <2>4. CASE UNCHANGED <<run, idx>>
    BY <1>1, <2>1, <2>2, <2>4 DEF Gathered
  <2>5. QED
    BY <1>4, <2>3, <2>4 DEF OrchRotated, Sweep
<1>5. CASE Tick \/ WriteRotate \/ OrchBreaks
  <2>1. /\ UNCHANGED <<drained, idx, run, row, transcript, stopPc, terminal, outcome>>
        /\ orch # "done" /\ orch' # "done"
    BY <1>5 DEF Tick, WriteRotate, OrchBreaks
  <2>2. QED
    BY <1>1, <2>1 DEF Gathered
<1>6. CASE Drain
  <2>1. /\ UNCHANGED <<idx, run, row, transcript, stopPc, terminal, outcome>>
        /\ orch = "drain"
        /\ \/ drained < idx /\ run[drained] \notin {"insert", "claim"} /\ drained' = drained + 1
              /\ UNCHANGED orch
           \/ drained = idx /\ UNCHANGED drained
    BY <1>6 DEF Drain
  <2>2. CASE UNCHANGED drained
    BY <1>1, <2>1, <2>2 DEF Gathered
  <2>3. CASE drained < idx /\ run[drained] \notin {"insert", "claim"} /\ drained' = drained + 1
             /\ UNCHANGED orch
    <3>1. run[drained] # "none"
      BY <1>1, <2>3 DEF Gathered, TypeOK
    <3>2. QED
      BY <1>1, <2>1, <2>3, <3>1 DEF Gathered
  <2>4. QED
    BY <2>1, <2>2, <2>3
<1>7. ASSUME NEW k \in Chunks, RunChunk(k) PROVE Gathered'
  <2>1. PICK pc \in RunPcs, status \in RowStatus :
           /\ run' = [run EXCEPT ![k] = pc]
           /\ row' = [row EXCEPT ![k] = status]
           /\ UNCHANGED <<drained, idx, orch, transcript, stopPc, terminal, outcome>>
           /\ run[k] # "none"
           /\ pc \notin {"none", "insert"}
           /\ run[k] \notin {"insert", "claim"} => pc # "claim"
           /\ status # "none" \/ (status = row[k] /\ run[k] # "insert")
    <3>1. row[k] \in RowStatus
      BY <1>1
    <3>2. CASE InsertChunk(k)
      BY <3>1, <3>2 DEF InsertChunk, Runs, RunPcs, RowStatus
    <3>3. CASE ClaimChunk(k)
      BY <3>1, <3>3 DEF ClaimChunk, Runs, RunPcs, RowStatus
    <3>4. CASE ChunkTranscribed(k) \/ ChunkFails(k)
      BY <3>1, <3>4 DEF ChunkTranscribed, ChunkFails, Runs, RunPcs, RowStatus
    <3>5. QED
      BY <1>7, <3>2, <3>3, <3>4 DEF RunChunk
  <2>2. /\ \A j \in Chunks : run'[j] = IF j = k THEN pc ELSE run[j]
        /\ \A j \in Chunks : row'[j] = IF j = k THEN status ELSE row[j]
    BY <1>1, <2>1
  <2>3. \A j \in Chunks : row[j] # "none" => row'[j] # "none"
    BY <2>1, <2>2
  <2>4. outcome # "discarded" => \A j \in Chunks : run'[j] \notin {"none", "insert"} => row'[j] # "none"
    BY <2>1, <2>2 DEF Gathered
  <2>5. \A j \in Chunks : j < drained => run'[j] \notin {"none", "insert", "claim"}
    BY <2>1, <2>2 DEF Gathered
  <2>6. \A j \in Chunks : j < idx => run'[j] # "none"
    BY <2>1, <2>2 DEF Gathered
  <2>7. QED
    BY <1>1, <2>1, <2>3, <2>4, <2>5, <2>6 DEF Gathered
<1>8. CASE TakeSession \/ SignalOrchestrator \/ WriteStop \/ Stopped \/ StopFails
    BY <1>2, <1>8 DEF TakeSession, SignalOrchestrator, WriteStop, Stopped, StopFails
<1>9. CASE DiscardShort
  <2>1. /\ outcome' = "discarded" /\ stopPc' = "end"
        /\ UNCHANGED <<drained, idx, orch, run, transcript, terminal>>
    BY <1>9 DEF DiscardShort
  <2>2. QED
    BY <1>1, <2>1 DEF Gathered
<1>10. CASE JoinOrchestrator \/ FinalRan
    BY <1>2, <1>10 DEF JoinOrchestrator, FinalRan
<1>11. CASE PlanFinal
  <2>1. outcome = "none" /\ idx \in files
    BY <1>1, <1>11 DEF PlanFinal, StopOrder, Agreed
  <2>2. /\ row' \in {row, [row EXCEPT ![idx] = "pending"]}
        /\ row'[idx] # "none"
        /\ UNCHANGED <<drained, idx, orch, run, transcript, terminal, outcome>>
    BY <1>1, <1>11, <2>1 DEF PlanFinal
  <2>3. \A k \in Chunks : row[k] # "none" => row'[k] # "none"
    BY <1>1, <2>2
  <2>4. QED
    BY <1>1, <2>2, <2>3 DEF Gathered
<1>12. CASE FinalEngine
  <2>1. /\ stopPc = "engine" /\ orch = "done"
        /\ run' \in {run, [run EXCEPT ![idx] = "claim"]}
        /\ UNCHANGED <<drained, idx, orch, row, transcript, terminal, outcome>>
    BY <1>12 DEF FinalEngine, StopOrder
  <2>2. row[idx] # "none" /\ drained = idx
    BY <2>1 DEF Gathered
  <2>3. \A k \in Chunks : k # idx => run'[k] = run[k]
    BY <1>1, <2>1
  <2>4. QED
    BY <1>1, <2>1, <2>2, <2>3 DEF Gathered
<1>13. CASE Assemble
  <2> DEFINE done == {k \in Chunks : row[k] = "done"}
             rows == {k \in Chunks : row[k] # "none"}
  <2>1. /\ stopPc = "pipeline" /\ transcript' = done /\ stopPc' = "end"
        /\ outcome' = "ready" => done = rows
        /\ UNCHANGED <<drained, idx, orch, run, row, terminal>>
    BY <1>13 DEF Assemble
  <2>2. /\ outcome = "none" /\ orch = "done" /\ terminal = "stopped"
        /\ drained = idx /\ row[idx] # "none"
    BY <2>1 DEF StopOrder, Gathered
  <2>3. \A k \in 0..idx : k \in Chunks /\ row[k] # "none"
    <3> SUFFICES ASSUME NEW k \in 0..idx PROVE k \in Chunks /\ row[k] # "none"
      OBVIOUS
    <3>1. k \in Chunks
      BY <1>1 DEF Chunks, ChunkAssumption
    <3>2. CASE k < idx
      BY <2>2, <3>1, <3>2 DEF Gathered
    <3>3. CASE k = idx
      BY <2>2, <3>1, <3>3
    <3>4. QED
      BY <1>1, <3>1, <3>2, <3>3
  <2>4. 0..idx \subseteq rows
    BY <2>3
  <2>5. outcome' = "ready" => 0..idx' \subseteq transcript'
    BY <2>1, <2>4
  <2> HIDE DEF done, rows
  <2>6. QED
    BY <1>1, <2>1, <2>2, <2>5 DEF Gathered
<1>14. CASE UNCHANGED vars
    BY <1>2, <1>14 DEF vars
<1>15. QED
    BY <1>3, <1>4, <1>5, <1>6, <1>7, <1>8, <1>9, <1>10, <1>11, <1>12, <1>13, <1>14
       DEF Next, Orchestrator, Stop, Finalize

\* Every step preserves QuietStop.
LEMMA QuietStopNext ==
    ASSUME TypeOK, Commands, OneOut, Agreed, StopOrder, QuietStop, [Next]_vars, ChunkAssumption
    PROVE  QuietStop'
<1> USE DEF sidecarVars, orchVars, callVars, StopGoes
<1> DEFINE still == quiet /\ ~session /\ terminal # "error"
<1>1. /\ idx \in Nat /\ rotq \in Nat /\ idx + 1 # StopCmd
      /\ outcome' # "discarded" => outcome # "discarded"
    BY OutcomeStays DEF TypeOK, Chunks, ChunkAssumption, StopCmd
<1>2. CASE SidecarRotate
  <2>1. CmdOut /\ UNCHANGED <<stopSent, session, terminal, orch, quiet>>
    BY <1>2, Rotated
  <2>2. ~still
    BY <2>1 DEF QuietStop
  <2>3. QED
    BY <2>1, <2>2 DEF QuietStop
<1>3. ASSUME ~CmdOut', EvtOut' <=> EvtOut,
             UNCHANGED <<stopSent, session, terminal, orch, quiet, rotq, files, idx>>
      PROVE  QuietStop'
    BY <1>1, <1>3 DEF QuietStop
<1>4. CASE SidecarStop
    BY <1>3, <1>4, SaidStop DEF CmdOut
<1>5. CASE SidecarDies
    BY <1>3, <1>5, Died DEF CmdOut
<1>6. CASE Dispatch
  <2>1. /\ UNCHANGED <<cmds, idx, files, stopSent, session, orch, quiet, outcome>>
        /\ terminal = "none"
        /\ Landed' => Landed
        /\ EvtOut' => EvtOut \/ rotq > 0
        /\ rotq' \in Nat
    BY <1>6, Dispatched DEF Landed
  <2>2. ~EvtOut => ~EvtOut' /\ rotq' = rotq
    <3>1. events \in Seq(EventSet) /\ events # <<>>
      BY <1>6 DEF Dispatch, TypeOK, EventSet
    <3>2. EvtOut <=> Head(events) = "rotated" \/ Has(Tail(events), "rotated")
      BY <3>1, HasTail DEF EvtOut
    <3>3. QED
      BY <1>6, <3>2 DEF Dispatch, EvtOut
  <2>3. CmdOut' <=> CmdOut
    BY <2>1 DEF CmdOut
  <2>4. still' => still
    BY <2>1
  <2>5. QED
    BY <2>1, <2>2, <2>3, <2>4 DEF QuietStop
<1>7. CASE OrchRotated \/ Sweep
  <2>1. /\ UNCHANGED <<cmds, events, files, stopSent, session, terminal, quiet, outcome>>
        /\ EvtOut' <=> EvtOut
    BY <1>7 DEF OrchRotated, Sweep, EvtOut
  <2>2. CASE ApplyRotated
    <3>1. orch' = orch /\ orch \in {"loop", "sweep"} /\ ~CmdOut /\ idx' + 1 # StopCmd
      BY <1>1, <1>7, <2>2 DEF OrchRotated, Sweep, ApplyRotated, OneOut, Landed, StopCmd
    <3>2. cmds \in {<<>>, <<StopCmd>>}
      BY <3>1 DEF Commands, CmdOut
    <3>3. ~CmdOut'
      BY <2>1, <3>1, <3>2 DEF CmdOut
    <3>4. QED
      BY <2>1, <3>1, <3>3 DEF QuietStop
  <2>3. CASE orch = "sweep" /\ orch' = "drain" /\ rotq = 0 /\ UNCHANGED <<rotq, idx>>
    <3>1. CmdOut' <=> CmdOut
      BY <2>1, <2>3 DEF CmdOut
    <3>2. ~EvtOut /\ outcome # "discarded" => files = 0..idx
      BY <2>3 DEF Agreed, Hi, Landed
    <3>3. QED
      BY <1>1, <2>1, <2>3, <3>1, <3>2 DEF QuietStop
  <2>4. QED
    BY <1>7, <2>2, <2>3 DEF OrchRotated, Sweep
<1>8. CASE Tick \/ OrchBreaks \/ Drain
  <2>1. /\ UNCHANGED <<cmds, events, files, stopSent, session, terminal, quiet, outcome, rotq, idx>>
        /\ CmdOut' <=> CmdOut
        /\ EvtOut' <=> EvtOut
    BY <1>8 DEF Tick, OrchBreaks, Drain, EvtOut, CmdOut
  <2>2. \/ orch = "loop" /\ orch' = "rotating"
        \/ orch = "loop" /\ orch' = "sweep" /\ (stopSent \/ terminal # "none")
        \/ orch = "drain" /\ orch' \in {"drain", "done"}
    BY <1>8 DEF Tick, OrchBreaks, Drain
  <2>3. QED
    BY <2>1, <2>2 DEF QuietStop
<1>9. CASE WriteRotate
  <2>1. /\ UNCHANGED <<events, files, stopSent, session, terminal, quiet, outcome, rotq, idx>>
        /\ EvtOut' <=> EvtOut
        /\ orch' = "loop"
    BY <1>9 DEF WriteRotate, EvtOut
  <2>2. CASE session
    BY <2>1, <2>2 DEF QuietStop
  <2>3. CASE ~session
    <3>1. CmdOut' <=> CmdOut
      BY <1>9, <2>3 DEF WriteRotate, CmdOut
    <3>2. QED
      BY <2>1, <2>3, <3>1 DEF QuietStop
  <2>4. QED
    BY <2>2, <2>3
<1>10. ASSUME \/ UNCHANGED <<stopSent, session>>
              \/ stopSent' /\ UNCHANGED session /\ ~session,
              CmdOut' <=> CmdOut, EvtOut' <=> EvtOut,
              UNCHANGED <<terminal, orch, quiet, rotq, idx>>,
              UNCHANGED files \/ outcome' = "discarded"
       PROVE  QuietStop'
    BY <1>1, <1>10 DEF QuietStop
<1>11. CASE \E k \in Chunks : RunChunk(k)
    BY <1>10, <1>11 DEF RunChunk, InsertChunk, ClaimChunk, ChunkTranscribed, ChunkFails, Runs,
       CmdOut, EvtOut
<1>12. CASE TakeSession
  <2>1. /\ UNCHANGED <<cmds, events, files, stopSent, terminal, orch, outcome, rotq, idx>>
        /\ session /\ ~session' /\ (quiet' <=> ~RotationInFlight)
    BY <1>12 DEF TakeSession, StopOrder
  <2>2. (CmdOut' <=> CmdOut) /\ (EvtOut' <=> EvtOut)
    BY <2>1 DEF CmdOut, EvtOut
  <2>3. CmdOut \/ EvtOut => RotationInFlight
    <3>1. ASSUME CmdOut PROVE \E i \in DOMAIN cmds : cmds[i] # StopCmd
      <4>1. CASE cmds = <<idx + 1>>
        BY <1>1, <4>1
      <4>2. CASE cmds = <<idx + 1, StopCmd>>
        BY <1>1, <4>2
      <4>3. QED
        BY <3>1, <4>1, <4>2 DEF CmdOut
    <3>2. QED
      BY <3>1 DEF RotationInFlight, EvtOut, Has
  <2>4. terminal # "error" => terminal = "none"
    <3>1. terminal # "stopped"
      BY <2>1 DEF StopOrder, StopSaid
    <3>2. QED
      BY <3>1 DEF TypeOK, Terminals
  <2>5. stopSent' => ~session'
    BY <2>1
  <2>6. QED
    BY <2>1, <2>2, <2>3, <2>4, <2>5 DEF QuietStop
<1>13. CASE SignalOrchestrator
  <2>1. ~session
    BY <1>13 DEF SignalOrchestrator, StopOrder
  <2>2. QED
    BY <1>10, <1>13, <2>1 DEF SignalOrchestrator, CmdOut, EvtOut
<1>14. CASE WriteStop
  <2>1. UNCHANGED <<stopSent, session, terminal, orch, quiet, rotq, idx, events, files>>
    BY <1>14 DEF WriteStop
  <2>2. CmdOut' <=> CmdOut
    <3>1. CASE alive
      BY <1>14, <3>1, WroteStop
    <3>2. CASE ~alive
      BY <1>14, <2>1, <3>2 DEF WriteStop, CmdOut
    <3>3. QED
      BY <3>1, <3>2
  <2>3. QED
    BY <1>10, <2>1, <2>2 DEF EvtOut
<1>15. CASE Stopped \/ DiscardShort \/ StopFails
    BY <1>10, <1>15 DEF Stopped, DiscardShort, StopFails, CmdOut, EvtOut
<1>16. CASE Finalize
    BY <1>10, <1>16 DEF Finalize, JoinOrchestrator, PlanFinal, FinalEngine, FinalRan, Assemble,
       CmdOut, EvtOut
<1>17. CASE UNCHANGED vars
    BY <1>10, <1>17 DEF vars, CmdOut, EvtOut
<1>18. QED
    BY <1>2, <1>4, <1>5, <1>6, <1>7, <1>8, <1>9, <1>11, <1>12, <1>13, <1>14, <1>15, <1>16, <1>17
       DEF Next, Sidecar, Orchestrator, Stop

-----------------------------------------------------------------------------
\* The invariant holds when the recording starts.
LEMMA IndInit == ASSUME Init, ChunkAssumption PROVE Ind
<1>1. TypeOK
  <2>1. 0 \in Chunks /\ cmds = <<>> /\ events = <<>>
    BY DEF Init, Chunks, ChunkAssumption
  <2>2. QED
    BY <2>1 DEF Init, TypeOK, OrchPcs, RunPcs, RowStatus, StopPcs
<1>2. ~EvtOut /\ ~Landed /\ ~StopSaid /\ Once(events, "rotated") /\ Hi = 0
    BY DEF Init, EvtOut, Landed, StopSaid, Has, Once, Hi
<1>3. cmds = <<>> /\ ~CmdOut /\ ~StopIn
    BY DEF Init, CmdOut, StopIn
<1>4. Commands /\ OneOut /\ StopOrder /\ RunsBehind
    BY <1>2, <1>3 DEF Init, Commands, OneOut, StopOrder, RunsBehind
<1>5. Agreed
  <2>1. idx = 0 /\ mic = 0 /\ files = {0} /\ 0..0 = {0}
    BY DEF Init
  <2>2. QED
    BY <1>2, <2>1 DEF Agreed
<1>6. Gathered
  <2>1. \A k \in Chunks : k \in Nat
    BY DEF Chunks, ChunkAssumption
  <2>2. QED
    BY <2>1 DEF Init, Gathered
<1>7. QuietStop
    BY DEF Init, QuietStop
<1>8. QED
    BY <1>1, <1>4, <1>5, <1>6, <1>7 DEF Ind

\* Every step preserves the invariant.
LEMMA IndNext == ASSUME Ind, [Next]_vars, ChunkAssumption PROVE Ind'
<1>1. OneOut'
    BY OneOutNext DEF Ind
<1>2. QED
    BY <1>1, TypeNext, CommandsNext, AgreedNext, StopOrderNext, RunsBehindNext, GatheredNext,
       QuietStopNext DEF Ind

\* The invariant holds in every behaviour, for any MaxChunk.
THEOREM IndHolds == Spec => []Ind
<1>1. Init => Ind
    BY IndInit, ChunkAssumption
<1>2. Ind /\ [Next]_vars => Ind'
    BY IndNext, ChunkAssumption
<1>3. QED
    BY <1>1, <1>2, PTL DEF Spec

\* Every variable keeps its type; chunk_idx never runs past the last chunk.
THEOREM TypeCorrect == Spec => []TypeOK
<1>1. Ind => TypeOK
    BY DEF Ind
<1>2. QED
    BY <1>1, IndHolds, PTL

\* A rotate command never names a chunk that already holds audio, so the
\* writer that truncates what it opens destroys nothing.
THEOREM NoReopenHolds == Spec => []NoReopen
<1>1. ASSUME Ind PROVE NoReopen
  <2>1. idx \in Nat
    BY <1>1, ChunkAssumption DEF Ind, TypeOK, Chunks
  <2>2. CASE CmdOut
    <3>1. files \subseteq 0..idx
      BY <1>1, <2>2 DEF Ind, Agreed, OneOut, Hi
    <3>2. ASSUME NEW i \in DOMAIN cmds, cmds[i] # StopCmd PROVE cmds[i] = idx + 1
      BY <2>2, <3>2 DEF CmdOut
    <3>3. QED
      BY <2>1, <3>1, <3>2 DEF NoReopen
  <2>3. CASE ~CmdOut
    BY <1>1, <2>3 DEF Ind, Commands, CmdOut, NoReopen
  <2>4. QED
    BY <2>2, <2>3
<1>2. QED
    BY <1>1, IndHolds, PTL

\* run_chunk hands no file to the engine that the sidecar still writes, the
\* final chunk included.
THEOREM TranscribesClosedHolds == Spec => []TranscribesClosed
<1>1. ASSUME Ind PROVE TranscribesClosed
  <2> SUFFICES ASSUME NEW k \in Chunks, run[k] = "stt" PROVE mic # k
    BY DEF TranscribesClosed
  <2>1. k \in Nat /\ idx \in Nat /\ NoFile \notin Nat
    BY <1>1, ChunkAssumption DEF Ind, TypeOK, Chunks
  <2>2. CASE k < idx
    <3>1. mic # NoFile => mic >= idx
      BY <1>1, <2>1 DEF Ind, Agreed, Hi, TypeOK, Chunks
    <3>2. QED
      BY <2>1, <2>2, <3>1
  <2>3. CASE terminal = "stopped"
    BY <1>1, <2>1, <2>3 DEF Ind, StopOrder, StopSaid
  <2>4. QED
    BY <1>1, <2>2, <2>3 DEF Ind, RunsBehind
<1>2. QED
    BY <1>1, IndHolds, PTL

\* The orchestrator's chunk_idx, once it has read what is on its way, is the
\* last chunk the sidecar opened, although no event carries a number.
THEOREM IndicesAgreeHold == Spec => []IndicesAgree
<1>1. ASSUME Ind PROVE IndicesAgree
  <2> DEFINE unread == {i \in DOMAIN events : events[i] = "rotated"}
  <2> SUFFICES ASSUME orch \in {"loop", "rotating", "sweep"}, outcome # "discarded"
               PROVE  /\ idx + rotq + Cardinality(unread) = Cardinality(files) - 1
                      /\ files = 0 .. Cardinality(files) - 1
    BY DEF IndicesAgree
  <2>1. /\ idx \in Nat /\ rotq \in 0..1
        /\ files = 0..Hi /\ Hi \in Nat
    BY <1>1, ChunkAssumption DEF Ind, TypeOK, Chunks, OneOut, Agreed, Hi
  <2>2. Cardinality(files) = Hi + 1
    BY <2>1, FS_Interval
  <2>3. CASE EvtOut
    <3>1. PICK i : unread = {i}
      BY <1>1, <2>3 DEF Ind, OneOut, EvtOut, Has, Once
    <3>2. Cardinality(unread) = 1
      BY <3>1, FS_Singleton
    <3>3. rotq = 0 /\ Hi = idx + 1
      BY <1>1, <2>3 DEF Ind, OneOut, Hi, Landed
    <3>4. QED
      BY <2>1, <2>2, <3>2, <3>3
  <2>4. CASE ~EvtOut
    <3>1. unread = {}
      BY <2>4 DEF EvtOut, Has
    <3>2. Cardinality(unread) = 0
      BY <3>1, FS_EmptySet
    <3>3. Hi = idx + rotq
      BY <2>1, <2>4 DEF Hi, Landed
    <3>4. QED
      BY <2>1, <2>2, <3>2, <3>3
  <2>5. QED
    BY <2>3, <2>4
<1>2. QED
    BY <1>1, IndHolds, PTL

\* A transcript that claims to be complete covers all chunks but, at most, the
\* one opened last.
THEOREM LosesAtMostTheTailHolds == Spec => []LosesAtMostTheTail
<1>1. ASSUME Ind, outcome = "ready" PROVE 0 .. Cardinality(files) - 2 \subseteq transcript
  <2>1. idx \in Nat
    BY <1>1, ChunkAssumption DEF Ind, TypeOK, Chunks
  <2>2. 0..idx \subseteq transcript
    BY <1>1 DEF Ind, Gathered
  <2>3. PICK n \in {idx, idx + 1} : files = 0..n
    BY <1>1 DEF Ind, Agreed
  <2>4. n \in Nat
    BY <2>1
  <2>5. Cardinality(0..n) = n + 1
    BY <2>4, FS_Interval
  <2>6. QED
    BY <2>1, <2>2, <2>3, <2>4, <2>5
<1>2. Ind => LosesAtMostTheTail
    BY <1>1 DEF LosesAtMostTheTail
<1>3. QED
    BY <1>2, IndHolds, PTL

\* After a stop that met no rotation on its way, a transcript that claims to be
\* complete covers all recorded audio: what the sweep at the stop is for.
THEOREM TailIsKeptHolds == Spec => []TailIsKept
<1>1. ASSUME Ind, outcome = "ready", quiet PROVE files \subseteq transcript
  <2>1. 0..idx \subseteq transcript /\ orch = "done" /\ terminal = "stopped"
    BY <1>1 DEF Ind, Gathered
  <2>2. ~session
    BY <1>1 DEF Ind, StopOrder
  <2>3. files = 0..idx
    BY <1>1, <2>1, <2>2 DEF Ind, QuietStop
  <2>4. QED
    BY <2>1, <2>3
<1>2. Ind => TailIsKept
    BY <1>1 DEF TailIsKept
<1>3. QED
    BY <1>2, IndHolds, PTL
=============================================================================
