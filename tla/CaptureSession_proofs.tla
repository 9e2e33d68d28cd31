------------------------ MODULE CaptureSession_proofs ------------------------
(* Machine-checked invariants of CaptureSession, for any recordings,        *)
(* commands and lengths of the clock.                                       *)
EXTENDS CaptureSession, TLAPS

(***************************************************************************)
(* Type correctness.  The lengths stay on the clock because every one of   *)
(* them is bounded by the time that has passed: what was captured, what    *)
(* was paused, and what a silent tail may take off it.                     *)
(***************************************************************************)
CmdOps == {"none", "start", "stop", "auto", "pause", "resume"}
CmdPcs == {"idle", "audio", "spawnorch", "enter", "takeorch", "takewatch", "device", "row",
           "write", "pauserow"}
Commands ==
    [op : CmdOps, at : CmdPcs, rec : Recs \cup {Nobody}, held : Recs \cup {Nobody},
     cut : Times \cup {Nobody}, voice : Times]

\* The type invariant, one variable at a time.
Shape ==
    /\ session \in Recs \cup {Nobody} /\ lock \in Cmds \cup {Nobody}
    /\ row \in [Recs -> {"none", "recording", "processing", "failed", "deleted"}]
    /\ pausedAt \in [Recs -> Times \cup {Nobody}]
    /\ trimAt \in [Recs -> Times \cup {Nobody}]
    /\ live \in [Recs -> Times \cup {Nobody}]
    /\ pausedTotal \in [Recs -> Times]
    /\ seconds \in [Recs -> Times]
    /\ wav \in [Recs -> Times]
    /\ voiced \in [Recs -> Times]
    /\ since \in [Recs -> Times]
    /\ startedAt \in [Recs -> Times]
    /\ device \in [Recs -> {"off", "on", "paused", "dead"}]
    /\ orchSlot \in Recs \cup {Nobody} /\ watchSlot \in Recs \cup {Nobody}
    /\ cmd \in [Cmds -> Commands]
    /\ waits \in [Recs -> Recs \cup {Nobody}]
    /\ now \in Times
    /\ issued \in 0..MaxIssued /\ overlapped \in BOOLEAN /\ fault \in {"none", "device", "write"}

LEMMA ShapeIsType == CaptureTypeOK <=> Shape
BY DEF CaptureTypeOK, Shape, Commands, CmdOps, CmdPcs

Busy(r) == cmd[r].at # "idle"

\* A command that is under way has a recording, except an automatic stop that
\* has not looked yet; the start that holds the session's mutex is the one
\* that waits for its sidecar.
HasRec(r) ==
    cmd[r].at \notin {"idle", "enter"} => cmd[r].rec \in Recs /\ row[cmd[r].rec] # "none"

CmdInv ==
    /\ \A r \in Cmds : ~Busy(r) => cmd[r] = NoCmd
    /\ \A r \in Cmds : HasRec(r)
    /\ \A r \in Cmds : lock = r <=> At(r, "audio")

TimeInv ==
    \A c \in Recs :
       /\ startedAt[c] <= now /\ since[c] <= now /\ wav[c] <= now
       /\ pausedAt[c] = Nobody => pausedTotal[c] <= now
       /\ pausedAt[c] # Nobody => pausedTotal[c] <= pausedAt[c] /\ pausedAt[c] <= now
       /\ device[c] = "on" => startedAt[c] <= since[c] /\ now - since[c] <= wav[c]

LEMMA NothingIsACommand == ASSUME CaptureAssumption PROVE NoCmd \in Commands /\ 0 \in Times
BY DEF CaptureAssumption, Commands, CmdOps, CmdPcs, NoCmd, Times

LEMMA CaptureTypeInit == ASSUME CaptureAssumption, CaptureInit PROVE Shape
<1>1. cmd \in [Cmds -> Commands]
    BY NothingIsACommand DEF CaptureInit
<1>2. issued \in 0..MaxIssued
    BY DEF CaptureAssumption, CaptureInit
<1>3. QED
    BY <1>1, <1>2, NothingIsACommand DEF CaptureInit, Shape

\* Every length that a command computes is on the clock.
LEMMA OnTheClock ==
    ASSUME CaptureAssumption, Shape, TimeInv, NEW c \in Recs
    PROVE  /\ Elapsed(c) \in Times
           /\ PausedTicks(c) \in Times /\ PausedTicks(c) <= now
           /\ \A a, b \in Times : Minus(a, b) \in Times /\ Least(a, b) \in Times
BY DEF CaptureAssumption, Shape, TimeInv, Elapsed, PausedTicks, Minus, Least, Times

LEMMA ClockIsNat ==
    ASSUME CaptureAssumption PROVE \A t \in Times : t \in Nat /\ t # Nobody
BY DEF CaptureAssumption, Times

\* How a command moves.
LEMMA CmdMoves ==
    ASSUME Shape, NEW r \in Cmds, NEW pc \in CmdPcs, Go(r, pc)
    PROVE  /\ cmd' \in [Cmds -> Commands]
           /\ cmd'[r].at = pc /\ cmd'[r].op = cmd[r].op /\ cmd'[r].rec = cmd[r].rec
           /\ cmd'[r].held = cmd[r].held /\ cmd'[r].cut = cmd[r].cut
           /\ cmd'[r].voice = cmd[r].voice
           /\ \A q \in Cmds \ {r} : cmd'[q] = cmd[q]
BY DEF Shape, Go, Commands

LEMMA CmdEnds ==
    ASSUME CaptureAssumption, Shape, NEW r \in Cmds, Ends(r)
    PROVE  /\ cmd' \in [Cmds -> Commands]
           /\ cmd'[r] = NoCmd /\ cmd'[r].at = "idle"
           /\ \A q \in Cmds \ {r} : cmd'[q] = cmd[q]
BY DEF CaptureAssumption, Shape, Ends, Commands, CmdOps, CmdPcs, NoCmd, Times

\* ... when it takes something on the way,
LEMMA CmdTakesSession ==
    ASSUME cmd \in [Cmds -> Commands], NEW r \in Cmds, NEW x \in Recs \cup {Nobody},
           cmd' = [cmd EXCEPT ![r].at = "takeorch", ![r].rec = x]
    PROVE  /\ cmd' \in [Cmds -> Commands]
           /\ \A q \in Cmds \ {r} : cmd'[q] = cmd[q]
           /\ cmd'[r].at = "takeorch" /\ cmd'[r].rec = x
           /\ cmd'[r].cut = cmd[r].cut /\ cmd'[r].voice = cmd[r].voice
BY ZenonT(40) DEF Commands, CmdPcs

LEMMA CmdTakesHandles ==
    ASSUME cmd \in [Cmds -> Commands], NEW r \in Cmds, NEW x \in Recs \cup {Nobody},
           cmd' = [cmd EXCEPT ![r].at = "takewatch", ![r].held = x]
    PROVE  /\ cmd' \in [Cmds -> Commands]
           /\ \A q \in Cmds \ {r} : cmd'[q] = cmd[q]
           /\ cmd'[r].at = "takewatch" /\ cmd'[r].held = x
           /\ cmd'[r].op = cmd[r].op /\ cmd'[r].rec = cmd[r].rec
           /\ cmd'[r].cut = cmd[r].cut /\ cmd'[r].voice = cmd[r].voice
BY DEF Commands, CmdPcs

\* ... and when it begins.
LEMMA CmdBegins ==
    ASSUME CaptureAssumption, cmd \in [Cmds -> Commands], NEW r \in Cmds, NEW x \in Commands,
           cmd' = [cmd EXCEPT ![r] = x]
    PROVE  /\ cmd' \in [Cmds -> Commands] /\ cmd'[r] = x
           /\ \A q \in Cmds \ {r} : cmd'[q] = cmd[q]
OBVIOUS

LEMMA Counts ==
    ASSUME CaptureAssumption, Shape, NEW r \in Cmds, Begins(r)
    PROVE  issued' \in 0..MaxIssued /\ overlapped' \in BOOLEAN
<1>1. issued' \in 0..MaxIssued
    BY DEF Begins, Shape, CaptureAssumption
<1>2. overlapped' \in BOOLEAN
    BY Zenon DEF Begins
<1>3. QED
    BY <1>1, <1>2

LEMMA StartTypes ==
    ASSUME CaptureAssumption, Shape, TimeInv, CmdInv, NEW r \in Cmds,
           \/ \E c \in Recs : StartInsert(r, c)
           \/ StartDirFails(r) \/ StartOk(r) \/ StartFails(r) \/ SpawnOrchestrator(r)
    PROVE  Shape'
<1> USE DEF rowVars, slotVars, timeVars, countVars, endVars
<1>1. CASE \E c \in Recs : StartInsert(r, c)
  <2> PICK c \in Recs : StartInsert(r, c)
    BY <1>1
  <2>1. cmd' \in [Cmds -> Commands]
    BY NothingIsACommand DEF StartInsert, Shape, Commands, CmdOps, CmdPcs, NoCmd
  <2>2. issued' \in 0..MaxIssued /\ overlapped' \in BOOLEAN
    BY Counts DEF StartInsert
  <2>3. QED
    BY <2>1, <2>2 DEF StartInsert, Shape
<1>2. CASE StartDirFails(r)
    BY <1>2, CmdEnds DEF StartDirFails, Fault, Shape
<1>3. CASE StartOk(r)
  <2>1. cmd' \in [Cmds -> Commands]
    BY <1>3, CmdEnds, CmdMoves DEF StartOk, CmdPcs
  <2>2. cmd[r].rec \in Recs
    BY <1>3 DEF StartOk, At, CmdInv, HasRec
  <2>3. QED
    BY <1>3, <2>1, <2>2 DEF StartOk, Shape
<1>4. CASE StartFails(r)
  <2>1. cmd[r].rec \in Recs
    BY <1>4 DEF StartFails, At, CmdInv, HasRec
  <2>2. QED
    BY <1>4, <2>1, CmdEnds DEF StartFails, Fault, Shape
<1>5. CASE SpawnOrchestrator(r)
  <2>1. cmd[r].rec \in Recs
    BY <1>5 DEF SpawnOrchestrator, At, CmdInv, HasRec
  <2>2. QED
    BY <1>5, <2>1, CmdEnds DEF SpawnOrchestrator, Shape
<1>6. QED
    BY <1>1, <1>2, <1>3, <1>4, <1>5

LEMMA StopTypes ==
    ASSUME CaptureAssumption, Shape, TimeInv, CmdInv, NEW r \in Cmds,
           \/ \E c \in Recs : Decide(r, c)
           \/ AutoStopVain(r) \/ TakeSession(r) \/ TakeOrchestrator(r) \/ StopWatch(r)
           \/ StopDevice(r) \/ StopDeviceFails(r)
    PROVE  Shape'
<1> USE DEF rowVars, slotVars, timeVars, countVars, endVars
<1>1. CASE \E c \in Recs : Decide(r, c)
  <2> PICK c \in Recs : Decide(r, c)
    BY <1>1
  <2>1. PICK t \in since[c]..now :
          cmd' = [cmd EXCEPT ![r] = [NoCmd EXCEPT !.op = "auto", !.at = "enter",
                                                  !.cut = t - startedAt[c],
                                                  !.voice = wav[c] - (now - t)]]
    BY DEF Decide
  <2>2. t - startedAt[c] \in Times /\ wav[c] - (now - t) \in Times
    <3>1. /\ startedAt[c] <= since[c] /\ now - since[c] <= wav[c] /\ wav[c] <= now
      BY DEF Decide, TimeInv
    <3>2. startedAt[c] \in Times /\ since[c] \in Times /\ wav[c] \in Times /\ now \in Times
      BY DEF Shape
    <3>3. QED
      BY <3>1, <3>2 DEF Times, CaptureAssumption
  <2>3. cmd' \in [Cmds -> Commands]
    BY <2>1, <2>2, NothingIsACommand DEF Shape, Commands, CmdOps, CmdPcs, NoCmd
  <2>4. issued' \in 0..MaxIssued /\ overlapped' \in BOOLEAN
    BY Counts DEF Decide
  <2>5. QED
    BY <2>3, <2>4 DEF Decide, Shape
<1>2. CASE AutoStopVain(r)
    BY <1>2, CmdEnds DEF AutoStopVain, Shape
<1>3. CASE TakeSession(r)
  <2>1. cmd' \in [Cmds -> Commands]
    <3>1. [NoCmd EXCEPT !.op = "stop", !.at = "takeorch", !.rec = session] \in Commands
      BY NothingIsACommand DEF Shape, Commands, CmdOps, CmdPcs, NoCmd
    <3>2. QED
      BY <1>3, <3>1, CmdBegins, CmdTakesSession DEF TakeSession, Stopping, Shape
  <2>2. issued' \in 0..MaxIssued /\ overlapped' \in BOOLEAN
    BY <1>3, Counts DEF TakeSession, Stopping, Shape
  <2>3. QED
    BY <1>3, <2>1, <2>2 DEF TakeSession, Shape
<1>4. CASE TakeOrchestrator(r)
  <2>1. cmd' \in [Cmds -> Commands]
    BY <1>4, CmdTakesHandles DEF TakeOrchestrator, Shape
  <2>2. QED
    BY <1>4, <2>1 DEF TakeOrchestrator, Shape
<1>5. CASE StopWatch(r)
  <2>1. cmd' \in [Cmds -> Commands]
    BY <1>5, CmdMoves DEF StopWatch, CmdPcs
  <2>2. QED
    BY <1>5, <2>1 DEF StopWatch, Shape
<1>6. CASE StopDevice(r)
  <2>1. cmd' \in [Cmds -> Commands] /\ cmd[r].rec \in Recs
    BY <1>6, CmdMoves DEF StopDevice, CmdPcs, CmdInv, HasRec, At
  <2>2. QED
    BY <1>6, <2>1, NothingIsACommand DEF StopDevice, DeviceEnds, Shape
<1>7. CASE StopDeviceFails(r)
  <2>1. cmd' \in [Cmds -> Commands] /\ cmd[r].rec \in Recs
    BY <1>7, CmdEnds DEF StopDeviceFails, CmdInv, HasRec, At
  <2>2. fault' \in {"none", "device", "write"}
    BY <1>7 DEF StopDeviceFails, Breaks, Fault, Shape
  <2>3. QED
    BY <1>7, <2>1, <2>2, NothingIsACommand DEF StopDeviceFails, DeviceEnds, Shape
<1>8. QED
    BY <1>1, <1>2, <1>3, <1>4, <1>5, <1>6, <1>7

LEMMA RowTypes ==
    ASSUME CaptureAssumption, Shape, TimeInv, CmdInv, NEW r \in Cmds,
           DiscardTap(r) \/ Finish(r) \/ FinishFails(r)
    PROVE  Shape'
<1> USE DEF rowVars, slotVars, timeVars, countVars, endVars
<1>1. cmd' \in [Cmds -> Commands] /\ cmd[r].rec \in Recs
    BY CmdEnds DEF DiscardTap, Finish, FinishFails, CmdInv, HasRec, At
<1>2. fault' \in {"none", "device", "write"}
    BY DEF DiscardTap, Finish, FinishFails, Fault, Shape
<1>3. CASE DiscardTap(r)
    BY <1>1, <1>2, <1>3, NothingIsACommand DEF DiscardTap, Shape
<1>4. CASE Finish(r)
  <2>1. cmd[r] \in Commands
    BY DEF Shape
  <2>2. EffectiveTicks(r) \in Times /\ PausedTicks(cmd[r].rec) \in Times
    BY <1>1, <2>1, OnTheClock DEF EffectiveTicks, Commands
  <2>3. cmd[r].voice \in Times /\ cmd[r].cut \in Times \cup {Nobody}
          /\ cmd[r].held \in Recs \cup {Nobody}
    BY <2>1 DEF Commands
  <2>4. trimAt' \in [Recs -> Times \cup {Nobody}]
    BY <1>1, <1>4, <2>3 DEF Finish, Shape
  <2>5. QED
    BY <1>1, <1>2, <1>4, <2>2, <2>3, <2>4 DEF Finish, Shape
<1>5. CASE FinishFails(r)
    BY <1>1, <1>2, <1>5 DEF FinishFails, Shape
<1>6. QED
    BY <1>3, <1>4, <1>5

LEMMA PauseTypes ==
    ASSUME CaptureAssumption, Shape, TimeInv, CmdInv, NEW r \in Cmds,
           \/ PauseRead(r, "pause") \/ PauseRead(r, "resume")
           \/ PauseDevice(r) \/ PauseRefused(r) \/ PauseRow(r) \/ ResumeRow(r)
    PROVE  Shape'
<1> USE DEF rowVars, slotVars, timeVars, countVars, endVars
<1>1. CASE PauseRead(r, "pause") \/ PauseRead(r, "resume")
  <2>1. cmd' \in [Cmds -> Commands]
    <3>1. /\ [NoCmd EXCEPT !.op = "pause", !.at = "write", !.rec = session] \in Commands
          /\ [NoCmd EXCEPT !.op = "resume", !.at = "write", !.rec = session] \in Commands
      BY NothingIsACommand DEF Shape, Commands, CmdOps, CmdPcs, NoCmd
    <3>2. QED
      BY <1>1, <3>1, CmdBegins DEF PauseRead, Shape
  <2>2. issued' \in 0..MaxIssued /\ overlapped' \in BOOLEAN
    BY <1>1, Counts DEF PauseRead
  <2>3. QED
    BY <1>1, <2>1, <2>2 DEF PauseRead, Shape
<1>2. CASE PauseDevice(r)
  <2>1. cmd' \in [Cmds -> Commands]
    BY <1>2, CmdMoves DEF PauseDevice, CmdPcs
  <2>2. QED
    BY <1>2, <2>1 DEF PauseDevice, Shape
<1>3. CASE PauseRefused(r)
    BY <1>3, CmdEnds DEF PauseRefused, Breaks, Fault, Shape
<1>4. CASE PauseRow(r) \/ ResumeRow(r)
  <2>1. cmd' \in [Cmds -> Commands] /\ cmd[r].rec \in Recs
    BY <1>4, CmdEnds DEF PauseRow, ResumeRow, CmdInv, HasRec, At
  <2>2. PausedTicks(cmd[r].rec) \in Times
    BY <2>1, OnTheClock
  <2>3. QED
    BY <1>4, <2>1, <2>2 DEF PauseRow, ResumeRow, Fault, Shape
<1>5. QED
    BY <1>1, <1>2, <1>3, <1>4

LEMMA OtherTypes ==
    ASSUME CaptureAssumption, Shape, TimeInv,
           \/ \E c \in Recs : TrimTail(c) \/ DeviceDies(c) \/ LiveRead(c) \/ LiveWrite(c)
           \/ Tick \/ UNCHANGED captureVars
    PROVE  Shape'
<1> USE DEF rowVars, slotVars, timeVars, countVars, endVars
<1>1. ASSUME NEW c \in Recs, TrimTail(c) PROVE Shape'
    BY <1>1 DEF TrimTail, Shape
<1>2. ASSUME NEW c \in Recs, DeviceDies(c) PROVE Shape'
    BY <1>2, NothingIsACommand DEF DeviceDies, DeviceEnds, Fault, Shape
<1>3. ASSUME NEW c \in Recs, LiveRead(c) PROVE Shape'
  <2>1. Minus(Elapsed(c), pausedTotal[c]) \in Times
    BY OnTheClock DEF Shape
  <2>2. overlapped' \in BOOLEAN
    BY <1>3 DEF LiveRead
  <2>3. QED
    BY <1>3, <2>1, <2>2 DEF LiveRead, Shape
<1>4. ASSUME NEW c \in Recs, LiveWrite(c) PROVE Shape'
    BY <1>4 DEF LiveWrite, Shape
<1>5. CASE Tick
  <2>1. now' \in Times /\ \A c \in Recs : wav[c] + 1 \in Times
    BY <1>5 DEF Tick, Shape, TimeInv, Times, CaptureAssumption
  <2>2. wav' \in [Recs -> Times]
    BY <1>5, <2>1 DEF Tick, Shape
  <2>3. QED
    BY <1>5, <2>1, <2>2 DEF Tick, Shape
<1>6. CASE UNCHANGED captureVars
    BY <1>6 DEF captureVars, Shape
<1>7. QED
    BY <1>1, <1>2, <1>3, <1>4, <1>5, <1>6

LEMMA CaptureTypeNext ==
    ASSUME CaptureAssumption, Shape, TimeInv, CmdInv, [CaptureNext]_captureVars
    PROVE  Shape'
BY StartTypes, StopTypes, RowTypes, PauseTypes, OtherTypes DEF CaptureNext, Handle
-----------------------------------------------------------------------------
(***************************************************************************)
(* What a step does to the commands, said once for the invariants below.   *)
(***************************************************************************)

\* One command begins, moves or ends; the others are where they were.
OneMoves(r) == cmd' \in [Cmds -> Commands] /\ \A q \in Cmds \ {r} : cmd'[q] = cmd[q]

LEMMA StartInsertOnCmd ==
    ASSUME CaptureAssumption, Shape, NEW r \in Cmds, NEW c \in Recs, StartInsert(r, c)
    PROVE  /\ OneMoves(r) /\ cmd[r] = NoCmd /\ cmd[r].at = "idle"
           /\ cmd'[r].at = "audio" /\ cmd'[r].rec = c /\ cmd'[r].cut = Nobody
<1> DEFINE m == [NoCmd EXCEPT !.op = "start", !.at = "audio", !.rec = c]
<1>1. m \in Commands
    BY NothingIsACommand DEF Commands, CmdOps, CmdPcs, NoCmd
<1>2. cmd' = [cmd EXCEPT ![r] = m] /\ cmd \in [Cmds -> Commands]
    BY DEF StartInsert, Shape
<1>3. OneMoves(r) /\ cmd'[r] = m
    BY <1>1, <1>2, CmdBegins DEF OneMoves
<1>4. m.at = "audio" /\ m.rec = c /\ m.cut = Nobody
    BY DEF NoCmd
<1>5. cmd[r] = NoCmd /\ cmd[r].at = "idle"
    BY DEF StartInsert, Begins, NoCmd
<1>6. QED
    BY <1>3, <1>4, <1>5

LEMMA DecideOnCmd ==
    ASSUME CaptureAssumption, Shape, TimeInv, NEW r \in Cmds, NEW c \in Recs, Decide(r, c)
    PROVE  /\ OneMoves(r) /\ cmd[r] = NoCmd /\ cmd[r].at = "idle"
           /\ cmd'[r].at = "enter" /\ cmd'[r].rec = Nobody
           /\ \E t \in since[c]..now :
                 /\ cmd'[r].cut = t - startedAt[c] /\ cmd'[r].voice = wav[c] - (now - t)
                 /\ cmd'[r].cut \in Times /\ cmd'[r].voice \in Times
<1>1. PICK t \in since[c]..now :
         cmd' = [cmd EXCEPT ![r] = [NoCmd EXCEPT !.op = "auto", !.at = "enter",
                                                 !.cut = t - startedAt[c],
                                                 !.voice = wav[c] - (now - t)]]
    BY DEF Decide
<1>2. t - startedAt[c] \in Times /\ wav[c] - (now - t) \in Times
  <2>1. /\ startedAt[c] <= since[c] /\ now - since[c] <= wav[c] /\ wav[c] <= now
    BY DEF Decide, TimeInv
  <2>2. startedAt[c] \in Times /\ since[c] \in Times /\ wav[c] \in Times /\ now \in Times
    BY DEF Shape
  <2>3. QED
    BY <2>1, <2>2 DEF Times, CaptureAssumption
<1> DEFINE m == [NoCmd EXCEPT !.op = "auto", !.at = "enter", !.cut = t - startedAt[c],
                              !.voice = wav[c] - (now - t)]
<1>3. m \in Commands
    BY <1>2, NothingIsACommand DEF Commands, CmdOps, CmdPcs, NoCmd
<1>4. OneMoves(r) /\ cmd'[r] = m
    BY <1>1, <1>3, CmdBegins DEF Shape, OneMoves
<1>5. /\ m.at = "enter" /\ m.rec = Nobody /\ m.cut = t - startedAt[c]
      /\ m.voice = wav[c] - (now - t)
    BY DEF NoCmd
<1>6. cmd[r] = NoCmd /\ cmd[r].at = "idle"
    BY DEF Decide, Begins, NoCmd
<1>7. QED
    BY <1>2, <1>4, <1>5, <1>6

LEMMA TakeSessionOnCmd ==
    ASSUME CaptureAssumption, Shape, NEW r \in Cmds, TakeSession(r)
    PROVE  /\ OneMoves(r) /\ session \in Recs
           /\ cmd'[r].at = "takeorch" /\ cmd'[r].rec = session
           /\ \/ cmd[r] = NoCmd /\ cmd[r].at = "idle" /\ cmd'[r].cut = Nobody /\ Begins(r)
              \/ /\ cmd[r].at = "enter" /\ cmd'[r].cut = cmd[r].cut
                 /\ cmd'[r].voice = cmd[r].voice /\ UNCHANGED countVars
<1>0. session \in Recs
    BY DEF TakeSession, Shape
<1>1. CASE Begins(r) /\ cmd' = [cmd EXCEPT ![r] = [NoCmd EXCEPT !.op = "stop",
                                          !.at = "takeorch", !.rec = session]]
  <2> DEFINE m == [NoCmd EXCEPT !.op = "stop", !.at = "takeorch", !.rec = session]
  <2>1. m \in Commands
    BY NothingIsACommand DEF Shape, Commands, CmdOps, CmdPcs, NoCmd
  <2>2. OneMoves(r) /\ cmd'[r] = m
    BY <1>1, <2>1, CmdBegins DEF Shape, OneMoves
  <2>3. m.at = "takeorch" /\ m.rec = session /\ m.cut = Nobody
    BY DEF NoCmd
  <2>4. cmd[r] = NoCmd /\ cmd[r].at = "idle"
    BY <1>1 DEF Begins, NoCmd
  <2>5. QED
    BY <1>0, <1>1, <2>2, <2>3, <2>4
<1>2. CASE /\ At(r, "enter") /\ UNCHANGED countVars
           /\ cmd' = [cmd EXCEPT ![r].at = "takeorch", ![r].rec = session]
  <2>1. cmd \in [Cmds -> Commands] /\ session \in Recs \cup {Nobody}
    BY DEF Shape
  <2>2. /\ OneMoves(r) /\ cmd'[r].at = "takeorch" /\ cmd'[r].rec = session
        /\ cmd'[r].cut = cmd[r].cut /\ cmd'[r].voice = cmd[r].voice
    BY <1>2, <2>1, CmdTakesSession DEF OneMoves
  <2>3. QED
    BY <1>0, <1>2, <2>2 DEF At
<1>3. QED
    BY <1>1, <1>2 DEF TakeSession, Stopping

LEMMA PauseReadOnCmd ==
    ASSUME CaptureAssumption, Shape, NEW r \in Cmds, NEW o \in {"pause", "resume"},
           PauseRead(r, o)
    PROVE  /\ OneMoves(r) /\ cmd[r] = NoCmd /\ cmd[r].at = "idle" /\ session \in Recs
           /\ cmd'[r].at = "write" /\ cmd'[r].op = o /\ cmd'[r].rec = session
           /\ cmd'[r].cut = Nobody
<1> DEFINE m == [NoCmd EXCEPT !.op = o, !.at = "write", !.rec = session]
<1>1. m \in Commands
    BY NothingIsACommand DEF Shape, Commands, CmdOps, CmdPcs, NoCmd
<1>2. OneMoves(r) /\ cmd'[r] = m
    BY <1>1, CmdBegins DEF PauseRead, Shape, OneMoves
<1>3. m.at = "write" /\ m.op = o /\ m.rec = session /\ m.cut = Nobody
    BY DEF NoCmd
<1>4. cmd[r] = NoCmd /\ cmd[r].at = "idle" /\ session \in Recs
    BY DEF PauseRead, Begins, NoCmd, Shape
<1>5. QED
    BY <1>2, <1>3, <1>4

\* The rest of a command's steps: where they lead from where.
HandlePcs(from, to) ==
    \/ from = "audio" /\ to \in {"spawnorch", "idle"}
    \/ from \in {"spawnorch", "enter"} /\ to = "idle"
    \/ from = "takeorch" /\ to = "takewatch"
    \/ from = "takewatch" /\ to = "device"
    \/ from = "device" /\ to \in {"row", "idle"}
    \/ from = "row" /\ to = "idle"
    \/ from = "write" /\ to \in {"pauserow", "idle"}
    \/ from = "pauserow" /\ to = "idle"

LEMMA HandleOnCmd ==
    ASSUME CaptureAssumption, Shape, NEW r \in Cmds, Handle(r)
    PROVE  /\ OneMoves(r) /\ HandlePcs(cmd[r].at, cmd'[r].at)
           /\ \/ cmd'[r] = NoCmd /\ cmd'[r].at = "idle"
              \/ /\ cmd'[r].at # "idle"
                 /\ cmd'[r].op = cmd[r].op /\ cmd'[r].rec = cmd[r].rec
                 /\ cmd'[r].cut = cmd[r].cut /\ cmd'[r].voice = cmd[r].voice
                 /\ cmd'[r].held = cmd[r].held \/ (TakeOrchestrator(r) /\ cmd'[r].held = orchSlot)
<1> USE DEF At, HandlePcs, OneMoves
<1>1. CASE StartDirFails(r) \/ StartFails(r) \/ SpawnOrchestrator(r) \/ AutoStopVain(r)
              \/ StopDeviceFails(r)
    BY <1>1, CmdEnds DEF StartDirFails, StartFails, SpawnOrchestrator, AutoStopVain,
       StopDeviceFails
<1>2. CASE DiscardTap(r) \/ Finish(r) \/ FinishFails(r)
    BY <1>2, CmdEnds DEF DiscardTap, Finish, FinishFails
<1>3. CASE PauseRefused(r) \/ PauseRow(r) \/ ResumeRow(r)
    BY <1>3, CmdEnds DEF PauseRefused, PauseRow, ResumeRow
<1>4. CASE StartOk(r)
    BY <1>4, CmdEnds, CmdMoves DEF StartOk, CmdPcs
<1>5. CASE TakeOrchestrator(r)
  <2>1. cmd \in [Cmds -> Commands] /\ orchSlot \in Recs \cup {Nobody}
    BY DEF Shape
  <2>2. /\ cmd' = [cmd EXCEPT ![r].at = "takewatch", ![r].held = orchSlot]
        /\ cmd[r].at = "takeorch"
    BY <1>5 DEF TakeOrchestrator
  <2>3. /\ OneMoves(r) /\ cmd'[r].at = "takewatch" /\ cmd'[r].held = orchSlot
        /\ cmd'[r].op = cmd[r].op /\ cmd'[r].rec = cmd[r].rec
        /\ cmd'[r].cut = cmd[r].cut /\ cmd'[r].voice = cmd[r].voice
    BY <2>1, <2>2, CmdTakesHandles
  <2>4. QED
    BY <1>5, <2>2, <2>3
<1>6. CASE StopWatch(r)
    BY <1>6, CmdMoves DEF StopWatch, CmdPcs
<1>7. CASE StopDevice(r)
    BY <1>7, CmdMoves DEF StopDevice, CmdPcs
<1>8. CASE PauseDevice(r)
    BY <1>8, CmdMoves DEF PauseDevice, CmdPcs
<1>9. QED
    BY <1>1, <1>2, <1>3, <1>4, <1>5, <1>6, <1>7, <1>8 DEF Handle

\* A row that was inserted stays, if only as deleted.
LEMMA RowsStay ==
    ASSUME Shape, CmdInv, [CaptureNext]_captureVars
    PROVE  \A c \in Recs : row[c] # "none" => row'[c] # "none"
<1> USE DEF Shape, rowVars
<1>1. ASSUME NEW r \in Cmds, Handle(r)
      PROVE  \A c \in Recs : row[c] # "none" => row'[c] # "none"
    BY <1>1 DEF Handle, StartDirFails, StartOk, StartFails, SpawnOrchestrator, AutoStopVain,
       TakeOrchestrator, StopWatch, StopDevice, StopDeviceFails, DiscardTap, Finish,
       FinishFails, PauseDevice, PauseRefused, PauseRow, ResumeRow
<1>2. ASSUME NEW r \in Cmds, NEW c \in Recs, StartInsert(r, c) \/ Decide(r, c)
      PROVE  \A d \in Recs : row[d] # "none" => row'[d] # "none"
    BY <1>2 DEF StartInsert, Decide
<1>3. ASSUME NEW r \in Cmds,
             TakeSession(r) \/ PauseRead(r, "pause") \/ PauseRead(r, "resume")
      PROVE  row' = row
    BY <1>3 DEF TakeSession, PauseRead
<1>4. ASSUME NEW c \in Recs, TrimTail(c) \/ DeviceDies(c) \/ LiveRead(c) \/ LiveWrite(c)
      PROVE  row' = row
    BY <1>4 DEF TrimTail, DeviceDies, LiveRead, LiveWrite
<1>5. CASE Tick \/ UNCHANGED captureVars
    BY <1>5 DEF Tick, captureVars
<1>6. QED
    BY <1>1, <1>2, <1>3, <1>4, <1>5 DEF CaptureNext

LEMMA CmdInvInit == ASSUME CaptureAssumption, CaptureInit PROVE CmdInv
BY DEF CaptureAssumption, CaptureInit, CmdInv, HasRec, Busy, At, NoCmd

\* Whoever stands where it stood keeps what CmdInv says of it.
LEMMA OthersKeepCmd ==
    ASSUME Shape, CmdInv, NEW r \in Cmds, OneMoves(r),
           \A c \in Recs : row[c] # "none" => row'[c] # "none",
           cmd'[r].at = "idle" => cmd'[r] = NoCmd, HasRec(r)',
           \A q \in Cmds \ {r} : lock' = q <=> lock = q,
           lock' = r <=> cmd'[r].at = "audio"
    PROVE  CmdInv'
<1>1. ASSUME NEW q \in Cmds PROVE (~Busy(q))' => cmd'[q] = NoCmd
    BY DEF CmdInv, Busy, OneMoves
<1>2. ASSUME NEW q \in Cmds PROVE HasRec(q)'
    BY DEF CmdInv, HasRec, OneMoves
<1>3. ASSUME NEW q \in Cmds PROVE lock' = q <=> At(q, "audio")'
    BY DEF CmdInv, At, OneMoves
<1>4. QED
    BY <1>1, <1>2, <1>3 DEF CmdInv

LEMMA CmdInvNext ==
    ASSUME CaptureAssumption, Shape, TimeInv, CmdInv, [CaptureNext]_captureVars,
           session # Nobody => row[session] = "recording"
    PROVE  CmdInv'
<1>0. /\ \A c \in Recs : row[c] # "none" => row'[c] # "none"
      /\ Nobody \notin Cmds
    BY RowsStay DEF CaptureAssumption
<1> USE DEF At
<1>1. ASSUME NEW r \in Cmds, NEW c \in Recs, StartInsert(r, c) PROVE CmdInv'
  <2>1. lock = Nobody /\ lock' = r /\ row'[c] # "none"
    BY <1>1 DEF StartInsert, Unlocked, Shape
  <2>2. HasRec(r)'
    BY <1>1, <2>1, StartInsertOnCmd DEF HasRec
  <2>3. QED
    BY <1>0, <1>1, <2>1, <2>2, StartInsertOnCmd, OthersKeepCmd
<1>2. ASSUME NEW r \in Cmds, Handle(r) PROVE CmdInv'
  <2>1. /\ OneMoves(r) /\ HandlePcs(cmd[r].at, cmd'[r].at)
        /\ cmd'[r].at = "idle" => cmd'[r] = NoCmd
        /\ cmd'[r].at # "idle" => cmd'[r].rec = cmd[r].rec
    BY <1>2, HandleOnCmd
  <2>2. HasRec(r)'
    BY <1>0, <2>1 DEF CmdInv, HasRec, HandlePcs
  <2>3. CASE cmd[r].at = "audio"
    <3>1. lock' = Nobody
      BY <1>2, <2>3 DEF Handle, StartDirFails, StartOk, StartFails,
         SpawnOrchestrator, AutoStopVain, TakeOrchestrator, StopWatch, StopDevice,
         StopDeviceFails, DiscardTap, Finish, FinishFails, PauseDevice, PauseRefused,
         PauseRow, ResumeRow
    <3>2. lock = r /\ cmd'[r].at # "audio"
      BY <2>1, <2>3 DEF CmdInv, HandlePcs
    <3>3. QED
      BY <1>0, <2>1, <2>2, <3>1, <3>2, OthersKeepCmd
  <2>4. CASE cmd[r].at # "audio"
    <3>1. lock' = lock
      BY <1>2, <2>4 DEF Handle, StartDirFails, StartOk, StartFails,
         SpawnOrchestrator, AutoStopVain, TakeOrchestrator, StopWatch, StopDevice,
         StopDeviceFails, DiscardTap, Finish, FinishFails, PauseDevice, PauseRefused,
         PauseRow, ResumeRow
    <3>2. lock # r /\ cmd'[r].at # "audio"
      BY <2>1, <2>4 DEF CmdInv, HandlePcs
    <3>3. QED
      BY <1>0, <2>1, <2>2, <3>1, <3>2, OthersKeepCmd
  <2>5. QED
    BY <2>3, <2>4
<1>3. ASSUME NEW r \in Cmds, NEW c \in Recs, Decide(r, c) PROVE CmdInv'
  <2>1. lock' = lock /\ cmd'[r].at = "enter" /\ OneMoves(r) /\ cmd[r].at = "idle"
    BY <1>3, DecideOnCmd DEF Decide
  <2>2. HasRec(r)' /\ lock # r
    BY <2>1 DEF HasRec, CmdInv
  <2>3. QED
    BY <1>0, <2>1, <2>2, OthersKeepCmd
<1>4. ASSUME NEW r \in Cmds,
             TakeSession(r) \/ PauseRead(r, "pause") \/ PauseRead(r, "resume")
      PROVE  CmdInv'
  <2>1. /\ OneMoves(r) /\ session \in Recs /\ cmd'[r].rec = session
        /\ cmd'[r].at \in {"takeorch", "write"} /\ cmd[r].at \in {"idle", "enter"}
    BY <1>4, TakeSessionOnCmd, PauseReadOnCmd
  <2>2. lock' = lock /\ row' = row /\ session # Nobody
    BY <1>4 DEF TakeSession, PauseRead, rowVars
  <2>3. HasRec(r)' /\ lock # r
    BY <2>1, <2>2 DEF HasRec, CmdInv
  <2>4. QED
    BY <1>0, <2>1, <2>2, <2>3, OthersKeepCmd
<1>5. ASSUME UNCHANGED <<cmd, lock>> PROVE CmdInv'
    BY <1>0, <1>5 DEF CmdInv, HasRec, Busy
<1>6. ASSUME \/ \E c \in Recs : TrimTail(c) \/ DeviceDies(c) \/ LiveRead(c) \/ LiveWrite(c)
             \/ Tick \/ UNCHANGED captureVars
      PROVE  UNCHANGED <<cmd, lock>>
    BY <1>6 DEF TrimTail, DeviceDies, LiveRead, LiveWrite, Tick, captureVars
<1>7. QED
    BY <1>1, <1>2, <1>3, <1>4, <1>5, <1>6 DEF CaptureNext
-----------------------------------------------------------------------------
(***************************************************************************)
(* Who holds a recording.  A recording that is not over is held once: by   *)
(* the start that waits for its sidecar, by the session, or by the one     *)
(* stop that took it from there.  A sidecar records only while the session *)
(* or that stop has it.                                                    *)
(***************************************************************************)
StopPcs == {"takeorch", "takewatch", "device", "row"}
Stops(r) == cmd[r].at \in StopPcs
Holds(r) == At(r, "audio") \/ Stops(r)
Undone(c) == device[c] \in {"on", "paused", "dead"}

Own(r) ==
    /\ session # cmd[r].rec /\ row[cmd[r].rec] = "recording"
    /\ At(r, "audio") => session = Nobody
    /\ IF cmd[r].at \in {"audio", "row"} THEN device[cmd[r].rec] = "off"
       ELSE Undone(cmd[r].rec)

OneHolds == \A q, r \in Cmds : Holds(q) /\ Holds(r) /\ cmd[q].rec = cmd[r].rec => q = r

SessionHolds == session # Nobody => row[session] = "recording" /\ Undone(session)

AliveIsHeld ==
    \A c \in Recs : Alive(c) => session = c \/ \E r \in Cmds : Stops(r) /\ cmd[r].rec = c

HoldInv ==
    /\ \A r \in Cmds : Holds(r) => Own(r)
    /\ OneHolds /\ SessionHolds /\ AliveIsHeld
    /\ \A c \in Recs : row[c] = "none" => device[c] = "off"

LEMMA HoldInit == ASSUME CaptureAssumption, CaptureInit PROVE HoldInv
BY DEF CaptureAssumption, CaptureInit, HoldInv, Own, OneHolds, SessionHolds, AliveIsHeld,
       Holds, Stops, StopPcs, At, Alive, NoCmd

\* A command that holds nothing new, while everything held stays as it is.
LEMMA HoldFrame ==
    ASSUME Shape, CmdInv, HoldInv, NEW r \in Cmds, OneMoves(r),
           UNCHANGED <<session, row, device>>,
           Holds(r)' => Holds(r) /\ cmd'[r].rec = cmd[r].rec /\ cmd'[r].at # "audio"
                        /\ (cmd'[r].at = "row" <=> cmd[r].at = "row") /\ Stops(r),
           Stops(r) /\ Alive(cmd[r].rec) => Stops(r)'
    PROVE  HoldInv'
<1> USE DEF Holds, Stops, At, OneMoves
<1>1. ASSUME NEW q \in Cmds, Holds(q)' PROVE Own(q)'
  <2>1. CASE q = r
    BY <1>1, <2>1 DEF HoldInv, Own, Undone, StopPcs
  <2>2. CASE q # r
    BY <1>1, <2>2 DEF HoldInv, Own, Undone
  <2>3. QED
    BY <2>1, <2>2
<1>2. OneHolds'
    BY DEF HoldInv, OneHolds
<1>3. SessionHolds'
    BY DEF HoldInv, SessionHolds, Undone
<1>4. AliveIsHeld'
  <2> SUFFICES ASSUME NEW c \in Recs, Alive(c)', session # c
               PROVE  \E q \in Cmds : Stops(q)' /\ cmd'[q].rec = c
    BY DEF AliveIsHeld
  <2>1. PICK q \in Cmds : Stops(q) /\ cmd[q].rec = c
    BY DEF HoldInv, AliveIsHeld, Alive
  <2>2. CASE q = r
    BY <2>1, <2>2 DEF Alive
  <2>3. CASE q # r
    BY <2>1, <2>3
  <2>4. QED
    BY <2>2, <2>3
<1>5. QED
    BY <1>1, <1>2, <1>3, <1>4 DEF HoldInv

LEMMA HoldStarts ==
    ASSUME CaptureAssumption, Shape, CmdInv, HoldInv, NEW r \in Cmds,
           \/ \E c \in Recs : StartInsert(r, c)
           \/ StartDirFails(r) \/ StartOk(r) \/ StartFails(r) \/ SpawnOrchestrator(r)
    PROVE  HoldInv'
<1> USE DEF Holds, Stops, StopPcs, At, OneMoves
<1>1. CASE \E c \in Recs : StartInsert(r, c)
  <2> PICK c \in Recs : StartInsert(r, c)
    BY <1>1
  <2>1. /\ OneMoves(r) /\ cmd'[r].at = "audio" /\ cmd'[r].rec = c /\ cmd[r].at = "idle"
        /\ row[c] = "none" /\ row' = [row EXCEPT ![c] = "recording"]
        /\ UNCHANGED <<session, device>> /\ session = Nobody /\ c # Nobody
        /\ device[c] = "off"
    BY StartInsertOnCmd DEF StartInsert, CaptureAssumption, HoldInv
  <2>2. \A q \in Cmds : Holds(q) => cmd[q].rec # c /\ cmd[q].rec \in Recs
    BY <2>1 DEF HoldInv, Own, CmdInv, HasRec
  <2>3. ASSUME NEW q \in Cmds, Holds(q)' PROVE Own(q)'
    <3>1. CASE q = r
      BY <2>1, <3>1 DEF Own, Shape
    <3>2. CASE q # r
      BY <2>1, <2>2, <2>3, <3>2 DEF HoldInv, Own, Undone, Shape
    <3>3. QED
      BY <3>1, <3>2
  <2>4. OneHolds'
    BY <2>1, <2>2 DEF HoldInv, OneHolds
  <2>5. SessionHolds' /\ \A d \in Recs : row'[d] = "none" => device'[d] = "off"
    BY <2>1 DEF SessionHolds, HoldInv, Shape
  <2>6. AliveIsHeld'
    BY <2>1 DEF HoldInv, AliveIsHeld, Alive
  <2>7. QED
    BY <2>3, <2>4, <2>5, <2>6 DEF HoldInv
<1>2. CASE StartDirFails(r)
    BY <1>2, HoldFrame, CmdEnds DEF StartDirFails, rowVars
<1>3. CASE StartOk(r)
  <2> DEFINE c == cmd[r].rec
  <2>1. /\ OneMoves(r) /\ cmd'[r].at \in {"spawnorch", "idle"}
        /\ device' = [device EXCEPT ![c] = "on"] /\ session' = c /\ row' = row
        /\ session = Nobody /\ row[c] = "recording" /\ c \in Recs
        /\ device[c] = "off"
    BY <1>3, CmdEnds, CmdMoves
       DEF StartOk, CmdPcs, rowVars, HoldInv, Own, CmdInv, HasRec
  <2>2. \A q \in Cmds \ {r} : Holds(q) => cmd[q].rec # c /\ cmd[q].rec \in Recs
    BY <1>3 DEF StartOk, HoldInv, OneHolds, CmdInv, HasRec
  <2>3. \A q \in Cmds \ {r} : cmd[q].at # "audio"
    BY <1>3 DEF StartOk, CmdInv
  <2>4. ASSUME NEW q \in Cmds, Holds(q)' PROVE Own(q)'
    BY <2>1, <2>2, <2>3, <2>4 DEF HoldInv, Own, Undone, Shape
  <2>5. OneHolds' /\ SessionHolds'
    BY <2>1 DEF HoldInv, OneHolds, SessionHolds, Undone, Shape
  <2>6. AliveIsHeld'
    <3> SUFFICES ASSUME NEW d \in Recs, Alive(d)', d # c
                 PROVE  \E q \in Cmds : Stops(q)' /\ cmd'[q].rec = d
      BY <2>1 DEF AliveIsHeld
    <3>1. PICK q \in Cmds : Stops(q) /\ cmd[q].rec = d
      BY <2>1 DEF HoldInv, AliveIsHeld, Alive, Shape, CaptureAssumption
    <3>2. QED
      BY <1>3, <2>1, <3>1 DEF StartOk
  <2>7. \A d \in Recs : row'[d] = "none" => device'[d] = "off"
    BY <2>1 DEF HoldInv, Shape
  <2>8. QED
    BY <2>4, <2>5, <2>6, <2>7 DEF HoldInv
<1>4. CASE StartFails(r)
  <2> DEFINE c == cmd[r].rec
  <2>1. /\ OneMoves(r) /\ cmd'[r].at = "idle" /\ session = Nobody /\ c \in Recs
        /\ UNCHANGED <<device, session>>
        /\ row' = row \/ row' = [row EXCEPT ![c] = "failed"]
    BY <1>4, CmdEnds DEF StartFails, HoldInv, Own, CmdInv, HasRec, rowVars
  <2>2. \A q \in Cmds \ {r} : Holds(q) => cmd[q].rec # c /\ cmd[q].rec \in Recs
    BY <1>4 DEF StartFails, HoldInv, OneHolds, CmdInv, HasRec
  <2>3. ASSUME NEW q \in Cmds, Holds(q)' PROVE Own(q)'
    BY <2>1, <2>2, <2>3 DEF HoldInv, Own, Undone, Shape
  <2>4. OneHolds' /\ SessionHolds'
    BY <2>1 DEF HoldInv, OneHolds, SessionHolds
  <2>5. AliveIsHeld'
    BY <1>4, <2>1 DEF StartFails, HoldInv, AliveIsHeld, Alive
  <2>6. \A d \in Recs : row'[d] = "none" => device'[d] = "off"
    BY <2>1 DEF HoldInv, Shape
  <2>7. QED
    BY <2>3, <2>4, <2>5, <2>6 DEF HoldInv
<1>5. CASE SpawnOrchestrator(r)
    BY <1>5, HoldFrame, CmdEnds DEF SpawnOrchestrator, rowVars
<1>6. QED
    BY <1>1, <1>2, <1>3, <1>4, <1>5

LEMMA HoldTakes ==
    ASSUME CaptureAssumption, Shape, TimeInv, CmdInv, HoldInv, NEW r \in Cmds,
           \/ \E c \in Recs : Decide(r, c)
           \/ AutoStopVain(r) \/ TakeSession(r) \/ TakeOrchestrator(r) \/ StopWatch(r)
    PROVE  HoldInv'
<1> USE DEF Holds, Stops, StopPcs, At, OneMoves
<1>1. CASE \E c \in Recs : Decide(r, c)
    BY <1>1, HoldFrame, DecideOnCmd DEF Decide, rowVars
<1>2. CASE AutoStopVain(r)
    BY <1>2, HoldFrame, CmdEnds DEF AutoStopVain, rowVars
<1>3. CASE TakeSession(r)
  <2>1. /\ OneMoves(r) /\ cmd'[r].at = "takeorch" /\ cmd'[r].rec = session
        /\ cmd[r].at \in {"idle", "enter"}
        /\ session \in Recs /\ session # Nobody /\ session' = Nobody
        /\ UNCHANGED <<row, device>>
    BY <1>3, TakeSessionOnCmd DEF TakeSession, rowVars
  <2>2. row[session] = "recording" /\ Undone(session)
    BY <2>1 DEF HoldInv, SessionHolds
  <2>3. \A q \in Cmds : Holds(q) => /\ q # r /\ cmd[q].rec # session /\ cmd[q].rec \in Recs
                                    /\ cmd[q].at # "audio"
    BY <2>1 DEF HoldInv, Own, CmdInv, HasRec
  <2>4. ASSUME NEW q \in Cmds, Holds(q)' PROVE Own(q)'
    <3>1. CASE q = r
      BY <2>1, <2>2, <3>1 DEF Own, Undone, CaptureAssumption
    <3>2. CASE q # r
      BY <2>1, <2>3, <2>4, <3>2 DEF HoldInv, Own, Undone, CaptureAssumption
    <3>3. QED
      BY <3>1, <3>2
  <2>5. OneHolds'
    BY <2>1, <2>3 DEF HoldInv, OneHolds
  <2>6. SessionHolds' /\ \A d \in Recs : row'[d] = "none" => device'[d] = "off"
    BY <2>1 DEF HoldInv, SessionHolds
  <2>7. AliveIsHeld'
    BY <2>1 DEF HoldInv, AliveIsHeld, Alive
  <2>8. QED
    BY <2>4, <2>5, <2>6, <2>7 DEF HoldInv
<1>4. CASE TakeOrchestrator(r)
  <2>1. Handle(r) /\ cmd[r].at = "takeorch" /\ UNCHANGED <<session, row, device>>
    BY <1>4 DEF Handle, TakeOrchestrator, rowVars
  <2>2. OneMoves(r) /\ cmd'[r].at = "takewatch" /\ cmd'[r].rec = cmd[r].rec
    BY <2>1, HandleOnCmd DEF HandlePcs, NoCmd
  <2>3. QED
    BY <2>1, <2>2, HoldFrame
<1>5. CASE StopWatch(r)
    BY <1>5, HoldFrame, CmdMoves DEF StopWatch, CmdPcs, rowVars
<1>6. QED
    BY <1>1, <1>2, <1>3, <1>4, <1>5

LEMMA HoldStops ==
    ASSUME CaptureAssumption, Shape, CmdInv, HoldInv, NEW r \in Cmds,
           StopDevice(r) \/ StopDeviceFails(r) \/ DiscardTap(r) \/ Finish(r) \/ FinishFails(r)
    PROVE  HoldInv'
<1> USE DEF Holds, Stops, StopPcs, At, OneMoves
<1> DEFINE c == cmd[r].rec
<1>1. c \in Recs /\ session # c /\ row[c] = "recording" /\ session' = session
    BY DEF StopDevice, StopDeviceFails, DiscardTap, Finish, FinishFails, HoldInv, Own,
       CmdInv, HasRec
<1>2. \A q \in Cmds \ {r} : Holds(q) => cmd[q].rec # c /\ cmd[q].rec \in Recs
    BY DEF StopDevice, StopDeviceFails, DiscardTap, Finish, FinishFails, HoldInv, OneHolds,
       CmdInv, HasRec
<1>3. CASE StopDevice(r)
  <2>1. /\ OneMoves(r) /\ cmd'[r].at = "row" /\ cmd'[r].rec = c
        /\ device' = [device EXCEPT ![c] = "off"] /\ row' = row
    BY <1>3, CmdMoves DEF StopDevice, DeviceEnds, CmdPcs, rowVars
  <2>2. ASSUME NEW q \in Cmds, Holds(q)' PROVE Own(q)'
    BY <1>1, <1>2, <2>1, <2>2 DEF HoldInv, Own, Undone, Shape
  <2>3. OneHolds' /\ SessionHolds'
    BY <1>1, <1>2, <2>1 DEF HoldInv, OneHolds, SessionHolds, Undone, Shape
  <2>4. AliveIsHeld'
    BY <1>1, <2>1 DEF HoldInv, AliveIsHeld, Alive, Shape
  <2>5. \A d \in Recs : row'[d] = "none" => device'[d] = "off"
    BY <2>1 DEF HoldInv, Shape
  <2>6. QED
    BY <2>2, <2>3, <2>4, <2>5 DEF HoldInv
<1>4. CASE ~StopDevice(r)
  <2>1. /\ OneMoves(r) /\ cmd'[r].at = "idle" /\ cmd[r].at \in {"device", "row"}
        /\ device' = [device EXCEPT ![c] = "dead"] \/ (device' = device /\ device[c] = "off")
        /\ \/ row' = row
           \/ \E s \in {"failed", "deleted", "processing"} : row' = [row EXCEPT ![c] = s]
    <3>1. OneMoves(r) /\ cmd'[r].at = "idle" /\ cmd[r].at \in {"device", "row"}
      BY <1>4, CmdEnds DEF StopDeviceFails, DiscardTap, Finish, FinishFails
    <3>2. cmd[r].at = "row" => device[c] = "off"
      BY DEF HoldInv, Own
    <3>3. device' = [device EXCEPT ![c] = "dead"] \/ (device' = device /\ device[c] = "off")
      BY <1>4, <3>2 DEF StopDeviceFails, DeviceEnds, DiscardTap, Finish, FinishFails
    <3>4. \/ row' = row
          \/ \E s \in {"failed", "deleted", "processing"} : row' = [row EXCEPT ![c] = s]
      BY <1>1, <1>4 DEF StopDeviceFails, DiscardTap, Finish, FinishFails, Shape, rowVars
    <3>5. QED
      BY <3>1, <3>3, <3>4
  <2>2. \A d \in Recs \ {c} : device'[d] = device[d] /\ row'[d] = row[d]
    BY <2>1 DEF Shape
  <2>3. device'[c] \in {"dead", "off"} /\ row'[c] # "none"
    BY <1>1, <2>1 DEF Shape
  <2>4. ASSUME NEW q \in Cmds, Holds(q)' PROVE Own(q)'
    BY <1>1, <1>2, <2>1, <2>2, <2>4 DEF HoldInv, Own, Undone
  <2>5. OneHolds' /\ SessionHolds'
    BY <1>1, <1>2, <2>1, <2>2 DEF HoldInv, OneHolds, SessionHolds, Undone, Shape
  <2>6. AliveIsHeld'
    BY <1>1, <2>1, <2>2, <2>3 DEF HoldInv, AliveIsHeld, Alive
  <2>7. \A d \in Recs : row'[d] = "none" => device'[d] = "off"
    BY <2>2, <2>3 DEF HoldInv
  <2>8. QED
    BY <2>4, <2>5, <2>6, <2>7 DEF HoldInv
<1>5. QED
    BY <1>3, <1>4

LEMMA HoldPauses ==
    ASSUME CaptureAssumption, Shape, CmdInv, HoldInv, NEW r \in Cmds,
           \/ PauseRead(r, "pause") \/ PauseRead(r, "resume")
           \/ PauseDevice(r) \/ PauseRefused(r) \/ PauseRow(r) \/ ResumeRow(r)
    PROVE  HoldInv'
<1> USE DEF Holds, Stops, StopPcs, At, OneMoves
<1>1. CASE PauseRead(r, "pause") \/ PauseRead(r, "resume")
  <2>1. UNCHANGED <<session, row, device>>
    BY <1>1 DEF PauseRead, rowVars
  <2>2. OneMoves(r) /\ cmd[r].at = "idle" /\ cmd'[r].at = "write"
    BY <1>1, PauseReadOnCmd
  <2>3. QED
    BY <2>1, <2>2, HoldFrame
<1>2. CASE PauseRefused(r) \/ PauseRow(r) \/ ResumeRow(r)
  <2>1. UNCHANGED <<session, row, device>> /\ cmd[r].at \in {"write", "pauserow"}
    BY <1>2 DEF PauseRefused, PauseRow, ResumeRow, rowVars
  <2>2. OneMoves(r) /\ cmd'[r].at = "idle"
    BY <1>2, CmdEnds DEF PauseRefused, PauseRow, ResumeRow
  <2>3. QED
    BY <2>1, <2>2, HoldFrame
<1>3. CASE PauseDevice(r)
  <2>1. OneMoves(r) /\ cmd[r].at = "write" /\ cmd'[r].at = "pauserow"
    BY <1>3, CmdMoves DEF PauseDevice, CmdPcs
  <2>2. UNCHANGED <<session, row>>
    BY <1>3 DEF PauseDevice, rowVars
  <2>3. /\ \A c \in Recs \ {session} : device'[c] = device[c]
        /\ session # Nobody => Alive(session) /\ device'[session] \in {"on", "paused"}
    BY <1>3 DEF PauseDevice, Shape
  <2>4. ASSUME NEW q \in Cmds, Holds(q)' PROVE Own(q)'
    BY <2>1, <2>2, <2>3, <2>4 DEF HoldInv, Own, Undone, CmdInv, HasRec
  <2>5. OneHolds' /\ SessionHolds'
    BY <2>1, <2>2, <2>3 DEF HoldInv, OneHolds, SessionHolds, Undone
  <2>6. AliveIsHeld'
    BY <2>1, <2>2, <2>3 DEF HoldInv, AliveIsHeld, Alive
  <2>7. \A d \in Recs : row'[d] = "none" => device'[d] = "off"
    BY <2>2, <2>3 DEF HoldInv, SessionHolds
  <2>8. QED
    BY <2>4, <2>5, <2>6, <2>7 DEF HoldInv
<1>4. QED
    BY <1>1, <1>2, <1>3

LEMMA HoldOthers ==
    ASSUME CaptureAssumption, Shape, CmdInv, HoldInv,
           \/ \E c \in Recs : TrimTail(c) \/ DeviceDies(c) \/ LiveRead(c) \/ LiveWrite(c)
           \/ Tick \/ UNCHANGED captureVars
    PROVE  HoldInv'
<1> USE DEF HoldInv, Own, OneHolds, SessionHolds, AliveIsHeld, Holds, Stops, StopPcs, At,
            Undone, Alive
<1>1. ASSUME NEW c \in Recs, DeviceDies(c) PROVE HoldInv'
  <2>1. /\ UNCHANGED <<session, row, cmd>> /\ device[c] \in {"on", "paused"}
        /\ device' = [device EXCEPT ![c] = "dead"]
    BY <1>1 DEF DeviceDies, DeviceEnds, rowVars
  <2>2. QED
    BY <2>1 DEF Shape
<1>2. CASE UNCHANGED <<session, row, device, cmd>>
    BY <1>2
<1>3. ASSUME \/ \E c \in Recs : TrimTail(c) \/ LiveRead(c) \/ LiveWrite(c)
             \/ Tick \/ UNCHANGED captureVars
      PROVE  UNCHANGED <<session, row, device, cmd>>
    BY <1>3 DEF TrimTail, LiveRead, LiveWrite, Tick, captureVars, rowVars
<1>4. QED
    BY <1>1, <1>2, <1>3

LEMMA HoldNext ==
    ASSUME CaptureAssumption, Shape, TimeInv, CmdInv, HoldInv, [CaptureNext]_captureVars
    PROVE  HoldInv'
BY HoldStarts, HoldTakes, HoldStops, HoldPauses, HoldOthers DEF CaptureNext, Handle

LEMMA AliveIsRecording ==
    ASSUME CaptureAssumption, HoldInv, NEW c \in Recs, Alive(c) PROVE row[c] = "recording"
<1>1. CASE session = c
    BY <1>1 DEF HoldInv, SessionHolds, CaptureAssumption
<1>2. CASE \E r \in Cmds : Stops(r) /\ cmd[r].rec = c
    BY <1>2 DEF HoldInv, Own, Holds
<1>3. QED
    BY <1>1, <1>2 DEF HoldInv, AliveIsHeld
-----------------------------------------------------------------------------
(***************************************************************************)
(* Time.  Nothing was captured, paused or started in the future, and a     *)
(* sidecar that records has captured all since it was last resumed.        *)
(***************************************************************************)
LEMMA TimeInit == ASSUME CaptureAssumption, CaptureInit PROVE TimeInv
BY DEF CaptureAssumption, CaptureInit, TimeInv

LEMMA TimeFrame ==
    ASSUME TimeInv, UNCHANGED <<now, startedAt, since, wav, pausedAt, pausedTotal>>,
           \A c \in Recs : device'[c] = "on" => device[c] = "on"
    PROVE  TimeInv'
BY DEF TimeInv

LEMMA TimeHandle ==
    ASSUME CaptureAssumption, Shape, CmdInv, HoldInv, TimeInv, NEW r \in Cmds, Handle(r)
    PROVE  TimeInv'
<1> USE DEF rowVars, timeVars, endVars
<1> DEFINE c == cmd[r].rec
<1>1. CASE StartDirFails(r) \/ StartFails(r) \/ SpawnOrchestrator(r) \/ AutoStopVain(r)
              \/ TakeOrchestrator(r) \/ StopWatch(r) \/ FinishFails(r) \/ PauseRefused(r)
    BY <1>1, TimeFrame DEF StartDirFails, StartFails, SpawnOrchestrator, AutoStopVain,
       TakeOrchestrator, StopWatch, FinishFails, PauseRefused
<1>2. CASE StartOk(r)
  <2>1. /\ device' = [device EXCEPT ![c] = "on"] /\ startedAt' = [startedAt EXCEPT ![c] = now]
        /\ since' = [since EXCEPT ![c] = now] /\ UNCHANGED <<now, wav, pausedAt, pausedTotal>>
    BY <1>2 DEF StartOk
  <2>2. QED
    BY <2>1 DEF TimeInv, Shape, Times, CaptureAssumption
<1>3. CASE StopDevice(r) \/ StopDeviceFails(r)
  <2>1. /\ \E how \in {"off", "dead"} : device' = [device EXCEPT ![c] = how]
        /\ since' = [since EXCEPT ![c] = 0]
        /\ UNCHANGED <<now, startedAt, wav, pausedAt, pausedTotal>>
    BY <1>3 DEF StopDevice, StopDeviceFails, DeviceEnds
  <2>2. QED
    BY <2>1 DEF TimeInv, Shape, Times, CaptureAssumption
<1>4. CASE DiscardTap(r)
  <2>1. /\ wav' = wav \/ wav' = [wav EXCEPT ![c] = 0]
        /\ UNCHANGED <<now, startedAt, since, device, pausedAt, pausedTotal>>
    BY <1>4 DEF DiscardTap
  <2>2. device[c] = "off"
    BY <1>4 DEF DiscardTap, HoldInv, Own, Holds, Stops, StopPcs, At
  <2>3. QED
    BY <2>1, <2>2 DEF TimeInv, Shape, Times, CaptureAssumption
<1>5. CASE Finish(r) \/ ResumeRow(r)
  <2>1. c \in Recs
    BY <1>5 DEF Finish, ResumeRow, At, CmdInv, HasRec
  <2>2. PausedTicks(c) <= now
    BY <2>1, OnTheClock
  <2>3. /\ UNCHANGED <<now, startedAt, since, device, wav>>
        /\ \/ UNCHANGED <<pausedAt, pausedTotal>>
           \/ /\ pausedTotal' = [pausedTotal EXCEPT ![c] = PausedTicks(c)]
              /\ pausedAt' = [pausedAt EXCEPT ![c] = Nobody]
    BY <1>5 DEF Finish, ResumeRow
  <2>4. QED
    BY <2>1, <2>2, <2>3 DEF TimeInv, Shape
<1>6. CASE PauseRow(r)
  <2>1. /\ UNCHANGED <<now, startedAt, since, device, wav, pausedTotal>>
        /\ \/ pausedAt' = pausedAt
           \/ pausedAt[c] = Nobody /\ pausedAt' = [pausedAt EXCEPT ![c] = now]
    BY <1>6 DEF PauseRow
  <2>2. QED
    BY <2>1 DEF TimeInv, Shape, Times, CaptureAssumption
<1>7. CASE PauseDevice(r)
  <2>1. /\ UNCHANGED <<now, startedAt, wav, pausedAt, pausedTotal>>
        /\ \A d \in Recs \ {session} : since'[d] = since[d] /\ device'[d] = device[d]
        /\ session # Nobody => since'[session] = now
    BY <1>7 DEF PauseDevice, Shape
  <2>2. session = Nobody => session \notin Recs
    BY DEF CaptureAssumption
  <2>3. QED
    BY <2>1, <2>2 DEF TimeInv, Shape, Times, CaptureAssumption
<1>8. QED
    BY <1>1, <1>2, <1>3, <1>4, <1>5, <1>6, <1>7 DEF Handle

LEMMA TimeNext ==
    ASSUME CaptureAssumption, Shape, CmdInv, HoldInv, TimeInv, [CaptureNext]_captureVars
    PROVE  TimeInv'
<1> USE DEF rowVars, timeVars, endVars
<1>1. ASSUME NEW r \in Cmds, NEW c \in Recs, StartInsert(r, c) \/ Decide(r, c) PROVE TimeInv'
    BY <1>1, TimeFrame DEF StartInsert, Decide
<1>2. ASSUME NEW r \in Cmds,
             TakeSession(r) \/ PauseRead(r, "pause") \/ PauseRead(r, "resume")
      PROVE  TimeInv'
    BY <1>2, TimeFrame DEF TakeSession, PauseRead
<1>3. ASSUME NEW c \in Recs, TrimTail(c) PROVE TimeInv'
  <2>1. device[c] # "on"
    BY <1>3, AliveIsRecording DEF TrimTail, Alive
  <2>2. /\ wav' = [wav EXCEPT ![c] = seconds[c]] /\ seconds[c] < wav[c]
        /\ UNCHANGED <<now, startedAt, since, device, pausedAt, pausedTotal>>
    BY <1>3 DEF TrimTail
  <2>3. QED
    BY <2>1, <2>2 DEF TimeInv, Shape, Times, CaptureAssumption
<1>4. ASSUME NEW c \in Recs, DeviceDies(c) PROVE TimeInv'
  <2>1. /\ device' = [device EXCEPT ![c] = "dead"] /\ since' = [since EXCEPT ![c] = 0]
        /\ UNCHANGED <<now, startedAt, wav, pausedAt, pausedTotal>>
    BY <1>4 DEF DeviceDies, DeviceEnds
  <2>2. QED
    BY <2>1 DEF TimeInv, Shape, Times, CaptureAssumption
<1>5. ASSUME NEW c \in Recs, LiveRead(c) \/ LiveWrite(c) PROVE TimeInv'
    BY <1>5, TimeFrame DEF LiveRead, LiveWrite
<1>6. CASE Tick
  <2>1. /\ now' = now + 1 /\ UNCHANGED <<startedAt, since, device, pausedAt, pausedTotal>>
        /\ \A c \in Recs : wav'[c] = IF device[c] = "on" THEN wav[c] + 1 ELSE wav[c]
    BY <1>6 DEF Tick
  <2>2. QED
    BY <2>1 DEF TimeInv, Shape, Times, CaptureAssumption
<1>7. CASE UNCHANGED captureVars
    BY <1>7, TimeFrame DEF captureVars
<1>8. QED
    BY <1>1, <1>2, <1>3, <1>4, <1>5, <1>6, <1>7, TimeHandle DEF CaptureNext
-----------------------------------------------------------------------------
(***************************************************************************)
(* Who is to blame.  A sidecar is dead and a call failed only after the    *)
(* fault; and a row in `recording` that no session has is held by a        *)
(* command, unless the write failed that should have moved it on.          *)
(***************************************************************************)
DeadByFault == \A c \in Recs : device[c] = "dead" => fault # "none"

RowIsHeld ==
    \A c \in Recs : row[c] = "recording" /\ session # c
       => Failed \/ \E r \in Cmds : Holds(r) /\ cmd[r].rec = c

BlameInv == DeadByFault /\ FailedOnlyByFault /\ RowIsHeld

LEMMA BlameInit == ASSUME CaptureInit PROVE BlameInv
BY DEF CaptureInit, BlameInv, DeadByFault, FailedOnlyByFault, RowIsHeld

\* The one fault is never taken back.
LEMMA FaultStays ==
    ASSUME Shape, [CaptureNext]_captureVars PROVE fault # "none" => fault' = fault
<1>1. ASSUME NEW r \in Cmds, Handle(r) PROVE fault # "none" => fault' = fault
    BY <1>1 DEF Handle, StartDirFails, StartOk, StartFails, SpawnOrchestrator, AutoStopVain,
       TakeOrchestrator, StopWatch, StopDevice, StopDeviceFails, DiscardTap, Finish,
       FinishFails, PauseDevice, PauseRefused, PauseRow, ResumeRow, Fault, Breaks
<1>2. ASSUME NEW r \in Cmds, NEW c \in Recs, StartInsert(r, c) \/ Decide(r, c)
      PROVE  fault' = fault
    BY <1>2 DEF StartInsert, Decide
<1>3. ASSUME NEW r \in Cmds,
             TakeSession(r) \/ PauseRead(r, "pause") \/ PauseRead(r, "resume")
      PROVE  fault' = fault
    BY <1>3 DEF TakeSession, PauseRead
<1>4. ASSUME NEW c \in Recs, TrimTail(c) \/ DeviceDies(c) \/ LiveRead(c) \/ LiveWrite(c)
      PROVE  fault # "none" => fault' = fault
    BY <1>4 DEF TrimTail, DeviceDies, LiveRead, LiveWrite, Fault
<1>5. CASE Tick \/ UNCHANGED captureVars
    BY <1>5 DEF Tick, captureVars
<1>6. QED
    BY <1>1, <1>2, <1>3, <1>4, <1>5 DEF CaptureNext

\* Whoever holds a recording goes on holding it, unless the row has moved on.
LEMMA RowFrame ==
    ASSUME RowIsHeld, fault # "none" => fault' = fault,
           \A d \in Recs : row'[d] = "recording" /\ session' # d =>
              \/ Failed'
              \/ \E q \in Cmds : Holds(q)' /\ cmd'[q].rec = d
              \/ /\ row[d] = "recording" /\ session # d
                 /\ \A q \in Cmds : Holds(q) /\ cmd[q].rec = d
                                       => Holds(q)' /\ cmd'[q].rec = d
    PROVE  RowIsHeld'
<1>1. Failed => Failed'
    BY DEF Failed
<1>2. QED
    BY <1>1 DEF RowIsHeld

LEMMA RowHandle ==
    ASSUME CaptureAssumption, Shape, CmdInv, HoldInv, BlameInv, NEW r \in Cmds, Handle(r),
           [CaptureNext]_captureVars
    PROVE  RowIsHeld'
<1> USE DEF OneMoves, rowVars
<1> DEFINE c == cmd[r].rec
<1>1. fault # "none" => fault' = fault
    BY FaultStays
<1>2. RowIsHeld
    BY DEF BlameInv
<1>3. CASE \/ SpawnOrchestrator(r) \/ AutoStopVain(r) \/ PauseDevice(r) \/ PauseRefused(r)
           \/ PauseRow(r) \/ ResumeRow(r)
  <2>1. UNCHANGED <<row, session>> /\ ~Holds(r) /\ OneMoves(r)
    BY <1>3, HandleOnCmd DEF SpawnOrchestrator, AutoStopVain, PauseDevice, PauseRefused,
       PauseRow, ResumeRow, Holds, Stops, StopPcs, At
  <2>2. \A q \in Cmds : Holds(q) => Holds(q)' /\ cmd'[q].rec = cmd[q].rec
    BY <2>1 DEF Holds, Stops, At
  <2>3. QED
    BY <1>1, <1>2, <2>1, <2>2, RowFrame
<1>4. CASE TakeOrchestrator(r) \/ StopWatch(r) \/ StopDevice(r)
  <2>1. UNCHANGED <<row, session>>
    BY <1>4 DEF TakeOrchestrator, StopWatch, StopDevice
  <2>2. OneMoves(r) /\ cmd'[r].at \in StopPcs /\ cmd'[r].rec = c
    BY <1>4, CmdMoves, CmdTakesHandles
       DEF TakeOrchestrator, StopWatch, StopDevice, CmdPcs, StopPcs, Shape
  <2>3. \A q \in Cmds : Holds(q) => Holds(q)' /\ cmd'[q].rec = cmd[q].rec
    BY <2>2 DEF Holds, Stops, At
  <2>4. QED
    BY <1>1, <1>2, <2>1, <2>3, RowFrame
<1>5. CASE StartOk(r)
  <2>1. session' = c /\ session = Nobody /\ row' = row /\ OneMoves(r)
    BY <1>5, CmdEnds, CmdMoves DEF StartOk, CmdPcs, HoldInv, Own, Holds
  <2>2. \A q \in Cmds : Holds(q) /\ cmd[q].rec # c => Holds(q)' /\ cmd'[q].rec = cmd[q].rec
    BY <2>1 DEF Holds, Stops, At
  <2>3. \A d \in Recs : session # d
    BY <2>1 DEF CaptureAssumption
  <2>4. QED
    BY <1>1, <1>2, <2>1, <2>2, <2>3, RowFrame
<1>6. CASE \/ StartDirFails(r) \/ StartFails(r) \/ StopDeviceFails(r) \/ DiscardTap(r)
           \/ Finish(r) \/ FinishFails(r)
  <2>1. session' = session /\ OneMoves(r)
    BY <1>6, CmdEnds DEF StartDirFails, StartFails, StopDeviceFails, DiscardTap, Finish,
       FinishFails
  <2>2. Holds(r) /\ c \in Recs /\ row[c] = "recording"
    BY <1>6 DEF StartDirFails, StartFails, StopDeviceFails, DiscardTap, Finish, FinishFails,
       Holds, Stops, StopPcs, At, HoldInv, Own, CmdInv, HasRec
  <2>3. Failed' \/ row'[c] # "recording"
    BY <1>6, <2>2 DEF StartDirFails, StartFails, StopDeviceFails, DiscardTap, Finish,
       FinishFails, Fault, Failed, Shape
  <2>4. \A d \in Recs \ {c} : row'[d] = row[d]
    BY <1>6 DEF StartDirFails, StartFails, StopDeviceFails, DiscardTap, Finish, FinishFails,
       Shape
  <2>5. \A q \in Cmds : Holds(q) /\ cmd[q].rec # c => Holds(q)' /\ cmd'[q].rec = cmd[q].rec
    BY <2>1 DEF Holds, Stops, At
  <2>6. QED
    BY <1>1, <1>2, <2>1, <2>3, <2>4, <2>5, RowFrame
<1>7. QED
    BY <1>3, <1>4, <1>5, <1>6 DEF Handle

LEMMA RowNext ==
    ASSUME CaptureAssumption, Shape, TimeInv, CmdInv, HoldInv, BlameInv,
           [CaptureNext]_captureVars
    PROVE  RowIsHeld'
<1> USE DEF OneMoves, rowVars
<1>1. (fault # "none" => fault' = fault) /\ RowIsHeld
    BY FaultStays DEF BlameInv
<1>2. ASSUME NEW r \in Cmds, NEW c \in Recs, StartInsert(r, c) PROVE RowIsHeld'
  <2>1. /\ OneMoves(r) /\ cmd[r].at = "idle" /\ cmd'[r].at = "audio" /\ cmd'[r].rec = c
        /\ row' = [row EXCEPT ![c] = "recording"] /\ session' = session
    BY <1>2, StartInsertOnCmd DEF StartInsert
  <2>2. Holds(r)' /\ \A d \in Recs \ {c} : row'[d] = row[d]
    BY <2>1 DEF Holds, At, Shape
  <2>3. \A q \in Cmds : Holds(q) => Holds(q)' /\ cmd'[q].rec = cmd[q].rec
    BY <2>1 DEF Holds, Stops, StopPcs, At
  <2>4. QED
    BY <1>1, <2>1, <2>2, <2>3, RowFrame
<1>3. ASSUME NEW r \in Cmds, TakeSession(r) PROVE RowIsHeld'
  <2>1. /\ OneMoves(r) /\ cmd'[r].at = "takeorch" /\ cmd'[r].rec = session /\ row' = row
        /\ cmd[r].at \in {"idle", "enter"}
    BY <1>3, TakeSessionOnCmd DEF TakeSession
  <2>2. Holds(r)'
    BY <2>1 DEF Holds, Stops, StopPcs
  <2>3. \A q \in Cmds : Holds(q) => Holds(q)' /\ cmd'[q].rec = cmd[q].rec
    BY <2>1 DEF Holds, Stops, StopPcs, At
  <2>4. QED
    BY <1>1, <2>1, <2>2, <2>3, RowFrame
<1>4. ASSUME NEW r \in Cmds, OneMoves(r), ~Holds(r), UNCHANGED <<row, session>>
      PROVE  RowIsHeld'
  <2>1. \A q \in Cmds : Holds(q) => Holds(q)' /\ cmd'[q].rec = cmd[q].rec
    BY <1>4 DEF Holds, Stops, At
  <2>2. QED
    BY <1>1, <1>4, <2>1, RowFrame
<1>5. ASSUME NEW r \in Cmds, NEW c \in Recs, Decide(r, c) PROVE RowIsHeld'
  <2>1. OneMoves(r) /\ ~Holds(r) /\ UNCHANGED <<row, session>>
    BY <1>5, DecideOnCmd DEF Decide, Holds, Stops, StopPcs, At
  <2>2. QED
    BY <1>4, <2>1
<1>6. ASSUME NEW r \in Cmds, PauseRead(r, "pause") \/ PauseRead(r, "resume")
      PROVE  RowIsHeld'
  <2>1. OneMoves(r) /\ ~Holds(r) /\ UNCHANGED <<row, session>>
    BY <1>6, PauseReadOnCmd DEF PauseRead, Holds, Stops, StopPcs, At
  <2>2. QED
    BY <1>4, <2>1
<1>7. ASSUME \/ \E c \in Recs : TrimTail(c) \/ DeviceDies(c) \/ LiveRead(c) \/ LiveWrite(c)
             \/ Tick \/ UNCHANGED captureVars
      PROVE  RowIsHeld'
  <2>1. UNCHANGED <<row, session, cmd>>
    BY <1>7 DEF TrimTail, DeviceDies, LiveRead, LiveWrite, Tick, captureVars
  <2>2. \A q \in Cmds : Holds(q) => Holds(q)' /\ cmd'[q].rec = cmd[q].rec
    BY <2>1 DEF Holds, Stops, At
  <2>3. QED
    BY <1>1, <2>1, <2>2, RowFrame
<1>8. QED
    BY <1>2, <1>3, <1>5, <1>6, <1>7, RowHandle DEF CaptureNext

\* A sidecar that is found dead died of the fault, or dies of this one.
LEMMA FaultNext ==
    ASSUME CaptureAssumption, Shape, CmdInv, HoldInv, BlameInv, [CaptureNext]_captureVars
    PROVE  DeadByFault' /\ FailedOnlyByFault'
<1> USE DEF rowVars
<1>1. fault # "none" => fault' # "none"
    BY FaultStays
<1>2. DeadByFault /\ FailedOnlyByFault
    BY DEF BlameInv
<1>3. ASSUME \A c \in Recs : device'[c] = "dead" => device[c] = "dead",
             \A c \in Recs : row'[c] = "failed" => row[c] = "failed"
      PROVE  DeadByFault' /\ FailedOnlyByFault'
    BY <1>1, <1>2, <1>3 DEF DeadByFault, FailedOnlyByFault
<1>4. ASSUME fault' # "none" PROVE DeadByFault' /\ FailedOnlyByFault'
    BY <1>4 DEF DeadByFault, FailedOnlyByFault
<1>5. ASSUME NEW r \in Cmds, StopDeviceFails(r) PROVE fault' # "none"
  <2>1. device[cmd[r].rec] \in {"on", "paused", "dead"} /\ cmd[r].rec \in Recs
    BY <1>5 DEF StopDeviceFails, HoldInv, Own, Undone, Holds, Stops, StopPcs, At, CmdInv,
       HasRec
  <2>2. CASE Alive(cmd[r].rec)
    BY <1>5, <2>2 DEF StopDeviceFails, Breaks, Fault
  <2>3. CASE ~Alive(cmd[r].rec)
    <3>1. fault # "none"
      BY <1>2, <2>1, <2>3 DEF Alive, DeadByFault
    <3>2. QED
      BY <1>1, <3>1
  <2>4. QED
    BY <2>2, <2>3
<1>6. ASSUME NEW r \in Cmds, StartDirFails(r) \/ StartFails(r) PROVE fault' # "none"
    BY <1>6 DEF StartDirFails, StartFails, Fault
<1>7. ASSUME NEW r \in Cmds, Handle(r), ~StopDeviceFails(r), ~StartDirFails(r), ~StartFails(r)
      PROVE  /\ \A c \in Recs : device'[c] = "dead" => device[c] = "dead"
             /\ \A c \in Recs : row'[c] = "failed" => row[c] = "failed"
    BY <1>7 DEF Handle, StartOk, SpawnOrchestrator, AutoStopVain, TakeOrchestrator, StopWatch,
       StopDevice, DeviceEnds, DiscardTap, Finish, FinishFails, PauseDevice, PauseRefused,
       PauseRow, ResumeRow, Shape
<1>8. ASSUME NEW c \in Recs, DeviceDies(c) PROVE fault' # "none"
    BY <1>8 DEF DeviceDies, Fault
<1>9. ASSUME \/ \E r \in Cmds, c \in Recs : StartInsert(r, c) \/ Decide(r, c)
             \/ \E r \in Cmds : \/ TakeSession(r)
                                \/ PauseRead(r, "pause") \/ PauseRead(r, "resume")
             \/ \E c \in Recs : TrimTail(c) \/ LiveRead(c) \/ LiveWrite(c)
             \/ Tick \/ UNCHANGED captureVars
      PROVE  /\ device' = device
             /\ \A c \in Recs : row'[c] = "failed" => row[c] = "failed"
    BY <1>9 DEF StartInsert, Decide, TakeSession, PauseRead, TrimTail, LiveRead, LiveWrite,
       Tick, captureVars, Shape
<1>10. QED
    BY <1>3, <1>4, <1>5, <1>6, <1>7, <1>8, <1>9 DEF CaptureNext

LEMMA BlameNext ==
    ASSUME CaptureAssumption, Shape, TimeInv, CmdInv, HoldInv, BlameInv,
           [CaptureNext]_captureVars
    PROVE  BlameInv'
BY RowNext, FaultNext DEF BlameInv
-----------------------------------------------------------------------------
(***************************************************************************)
(* One command at a time.  As long as no two were in flight together, what *)
(* a command finds in the session and in the orchestrator's handles is of  *)
(* its own recording, or nothing.                                          *)
(***************************************************************************)
Quiet == \A c \in Recs : live[c] = Nobody
Others(r) == \A q \in Cmds \ {r} : cmd[q] = NoCmd

\* What the command that is in flight finds.
FindsItsOwn(r) ==
    /\ cmd[r].at \in {"spawnorch", "write", "pauserow"} => session = cmd[r].rec
    /\ Stops(r) => session = Nobody
    /\ cmd[r].at \in {"takewatch", "device", "row"} => cmd[r].held \in {Nobody, cmd[r].rec}

Serial ==
    /\ \A q, r \in Cmds : Busy(q) /\ Busy(r) => q = r
    /\ \A c \in Recs : live[c] # Nobody => Idle /\ session = c
    /\ \A r \in Cmds : FindsItsOwn(r)
    /\ \/ orchSlot \in {Nobody, session}
       \/ \E r \in Cmds : At(r, "takeorch") /\ orchSlot = cmd[r].rec
    /\ \A c \in Recs : waits[c] \in {Nobody, c}

SerialInv == ~overlapped => Serial

LEMMA SerialInit == ASSUME CaptureAssumption, CaptureInit PROVE SerialInv
BY DEF CaptureInit, SerialInv, Serial, FindsItsOwn, Stops, StopPcs, Busy, NoCmd

\* The commands and updates before a step were one at a time if those after it
\* were, and a command that begins then finds nobody else.
LEMMA Apart ==
    ASSUME [CaptureNext]_captureVars, ~overlapped'
    PROVE  /\ ~overlapped
           /\ \A r \in Cmds : Begins(r) => AtRest
           /\ \A c \in Recs : LiveRead(c) => Idle
<1>1. ASSUME NEW r \in Cmds, Begins(r) PROVE ~overlapped /\ AtRest
    BY <1>1, Zenon DEF Begins
<1>2. ASSUME NEW c \in Recs, LiveRead(c) PROVE ~overlapped /\ Idle
    BY <1>2, Zenon DEF LiveRead
<1>3. ASSUME UNCHANGED overlapped PROVE ~overlapped
    BY <1>3, Zenon
<1>4. ASSUME NEW r \in Cmds, Handle(r) PROVE UNCHANGED overlapped
    BY <1>4, Zenon DEF Handle, StartDirFails, StartOk, StartFails, SpawnOrchestrator,
       AutoStopVain, TakeOrchestrator, StopWatch, StopDevice, StopDeviceFails, DiscardTap,
       Finish, FinishFails, PauseDevice, PauseRefused, PauseRow, ResumeRow, countVars
<1>5. ASSUME NEW r \in Cmds, TakeSession(r) PROVE Begins(r) \/ UNCHANGED overlapped
    BY <1>5, Zenon DEF TakeSession, Stopping, countVars
<1>6. ASSUME NEW c \in Recs, TrimTail(c) \/ DeviceDies(c) \/ LiveWrite(c)
      PROVE  UNCHANGED overlapped
    BY <1>6, Zenon DEF TrimTail, DeviceDies, LiveWrite, countVars
<1>7. ASSUME Tick \/ UNCHANGED captureVars PROVE UNCHANGED overlapped
    BY <1>7, Zenon DEF Tick, captureVars, countVars
<1>8. ASSUME NEW r \in Cmds, NEW c \in Recs, StartInsert(r, c) \/ Decide(r, c)
      PROVE  Begins(r)
    BY <1>8, Zenon DEF StartInsert, Decide
<1>9. ASSUME NEW r \in Cmds, PauseRead(r, "pause") \/ PauseRead(r, "resume")
      PROVE  Begins(r)
    BY <1>9, Zenon DEF PauseRead
<1>10. ~overlapped
    BY <1>1, <1>2, <1>3, <1>4, <1>5, <1>6, <1>7, <1>8, <1>9 DEF CaptureNext
<1>11. QED
    BY <1>1, <1>2, <1>10

\* The command in flight is alone, and no update is.
LEMMA Solo ==
    ASSUME CmdInv, Serial, NEW r \in Cmds, Busy(r) PROVE Others(r) /\ Quiet
<1>1. ASSUME NEW q \in Cmds \ {r} PROVE cmd[q] = NoCmd
    BY <1>1 DEF CmdInv, Serial
<1>2. ~Idle
    BY DEF Idle, Busy, NoCmd
<1>3. QED
    BY <1>1, <1>2 DEF Serial, Others, Quiet

LEMMA SoloAtRest == ASSUME AtRest, NEW r \in Cmds PROVE Others(r) /\ Quiet
BY DEF AtRest, Idle, Others, Quiet

\* So that a step of it is seen from its own place.
LEMMA SerialFrame ==
    ASSUME NEW r \in Cmds, OneMoves(r), Others(r), Quiet, live' = live,
           FindsItsOwn(r)', \A c \in Recs : waits'[c] \in {Nobody, c},
           orchSlot' \in {Nobody, session'} \/ (At(r, "takeorch")' /\ orchSlot' = cmd'[r].rec)
    PROVE  Serial'
<1>1. \A q \in Cmds \ {r} : cmd'[q] = NoCmd
    BY DEF OneMoves, Others
<1>2. NoCmd.at = "idle"
    BY DEF NoCmd
<1>3. \A q \in Cmds : Busy(q)' => q = r
    BY <1>1, <1>2 DEF Busy
<1>4. ASSUME NEW q \in Cmds PROVE FindsItsOwn(q)'
    BY <1>1, <1>2 DEF FindsItsOwn, Stops, StopPcs
<1>5. \A c \in Recs : live'[c] = Nobody
    BY DEF Quiet
<1>6. QED
    BY <1>3, <1>4, <1>5 DEF Serial

LEMMA SerialHandle ==
    ASSUME CaptureAssumption, Shape, CmdInv, HoldInv, Serial, NEW r \in Cmds, Handle(r)
    PROVE  Serial'
<1> USE DEF rowVars, slotVars, endVars, At, Stops, StopPcs, FindsItsOwn
<1> DEFINE c == cmd[r].rec
<1>1. /\ OneMoves(r) /\ HandlePcs(cmd[r].at, cmd'[r].at)
      /\ cmd'[r].at # "idle" => cmd'[r].rec = c
      /\ cmd'[r].at # "idle" /\ ~TakeOrchestrator(r) => cmd'[r].held = cmd[r].held
    BY HandleOnCmd
<1>2. Others(r) /\ Quiet
    BY <1>1, Solo DEF HandlePcs, Busy
<1>3. live' = live
    BY DEF Handle, StartDirFails, StartOk, StartFails, SpawnOrchestrator,
       AutoStopVain, TakeOrchestrator, StopWatch, StopDevice, StopDeviceFails, DiscardTap,
       Finish, FinishFails, PauseDevice, PauseRefused, PauseRow, ResumeRow
<1>4. orchSlot \in {Nobody, session} \/ (cmd[r].at = "takeorch" /\ orchSlot = c)
    BY <1>2 DEF Serial, Others, NoCmd
<1>5. FindsItsOwn(r) /\ \A d \in Recs : waits[d] \in {Nobody, d}
    BY DEF Serial
<1>6. CASE StartOk(r)
  <2>1. session = Nobody /\ session' = c /\ UNCHANGED <<orchSlot, waits>>
        /\ cmd'[r].at \in {"spawnorch", "idle"}
    BY <1>1, <1>6 DEF StartOk, HoldInv, Own, Holds, HandlePcs
  <2>2. FindsItsOwn(r)' /\ orchSlot' \in {Nobody, session'}
    BY <1>1, <1>4, <1>6, <2>1 DEF StartOk
  <2>3. QED
    BY <1>1, <1>2, <1>3, <1>5, <2>1, <2>2, SerialFrame
<1>7. CASE SpawnOrchestrator(r)
  <2>1. orchSlot' = c /\ session = c /\ UNCHANGED <<session, waits>> /\ cmd'[r].at = "idle"
    BY <1>1, <1>5, <1>7 DEF SpawnOrchestrator, HandlePcs
  <2>2. QED
    BY <1>1, <1>2, <1>3, <1>5, <2>1, SerialFrame
<1>8. CASE TakeOrchestrator(r)
  <2>1. orchSlot' = Nobody /\ UNCHANGED <<session, waits>> /\ session = Nobody
    BY <1>5, <1>8 DEF TakeOrchestrator
  <2>2. cmd'[r].at = "takewatch" /\ cmd'[r].held = orchSlot /\ cmd'[r].rec = c
    BY <1>8, CmdTakesHandles DEF TakeOrchestrator, Shape
  <2>3. QED
    BY <1>1, <1>2, <1>3, <1>4, <1>5, <2>1, <2>2, SerialFrame
<1>9. CASE Finish(r)
  <2>1. UNCHANGED <<session, orchSlot>> /\ cmd'[r].at = "idle" /\ cmd[r].at = "row"
    BY <1>1, <1>9 DEF Finish, HandlePcs
  <2>2. waits' = [waits EXCEPT ![c] = cmd[r].held] /\ cmd[r].held \in {Nobody, c}
    BY <1>5, <1>9 DEF Finish
  <2>3. \A d \in Recs : waits'[d] \in {Nobody, d}
    BY <1>5, <2>2 DEF Shape
  <2>4. QED
    BY <1>1, <1>2, <1>3, <1>4, <2>1, <2>3, SerialFrame
<1>10. CASE ~StartOk(r) /\ ~SpawnOrchestrator(r) /\ ~TakeOrchestrator(r) /\ ~Finish(r)
  <2>1. UNCHANGED <<session, orchSlot, waits>> /\ cmd[r].at # "takeorch"
    BY <1>10 DEF Handle, StartDirFails, StartFails, AutoStopVain, StopWatch, StopDevice,
       StopDeviceFails, DiscardTap, FinishFails, PauseDevice, PauseRefused, PauseRow,
       ResumeRow
  <2>2. cmd'[r].at # "spawnorch"
    <3>1. CASE StartDirFails(r) \/ StartFails(r)
      BY <3>1, CmdEnds DEF StartDirFails, StartFails
    <3>2. CASE ~StartDirFails(r) /\ ~StartFails(r)
      <4>1. cmd[r].at # "audio"
        BY <1>10, <3>2 DEF Handle, AutoStopVain, StopWatch, StopDevice, StopDeviceFails,
           DiscardTap, FinishFails, PauseDevice, PauseRefused, PauseRow, ResumeRow
      <4>2. QED
        BY <1>1, <4>1 DEF HandlePcs
    <3>3. QED
      BY <3>1, <3>2
  <2>3. FindsItsOwn(r)'
    BY <1>1, <1>5, <1>10, <2>1, <2>2 DEF HandlePcs
  <2>4. QED
    BY <1>1, <1>2, <1>3, <1>4, <1>5, <2>1, <2>3, SerialFrame
<1>11. QED
    BY <1>6, <1>7, <1>8, <1>9, <1>10

LEMMA SerialNext ==
    ASSUME CaptureAssumption, Shape, TimeInv, CmdInv, HoldInv, SerialInv,
           [CaptureNext]_captureVars
    PROVE  SerialInv'
<1> SUFFICES ASSUME ~overlapped' PROVE Serial'
    BY DEF SerialInv
<1>1. Serial
    BY Apart DEF SerialInv
<1>2. \A d \in Recs : waits[d] \in {Nobody, d}
    BY <1>1 DEF Serial
<1>3. ASSUME NEW r \in Cmds, Others(r), cmd[r].at # "takeorch"
      PROVE  orchSlot \in {Nobody, session}
    BY <1>1, <1>3 DEF Serial, Others, NoCmd, At
<1> USE DEF rowVars, slotVars, endVars, At, Stops, StopPcs, FindsItsOwn
<1>4. ASSUME NEW r \in Cmds, NEW c \in Recs, StartInsert(r, c) \/ Decide(r, c)
      PROVE  Serial'
  <2>1. UNCHANGED <<session, orchSlot, live, waits>> /\ Begins(r)
    BY <1>4 DEF StartInsert, Decide
  <2>2. Others(r) /\ Quiet
    BY <2>1, Apart, SoloAtRest
  <2>3. OneMoves(r) /\ cmd[r].at = "idle" /\ cmd'[r].at \in {"audio", "enter"}
    BY <1>4, StartInsertOnCmd, DecideOnCmd
  <2>4. QED
    BY <1>2, <1>3, <2>1, <2>2, <2>3, SerialFrame
<1>5. ASSUME NEW r \in Cmds, TakeSession(r) PROVE Serial'
  <2>1. session' = Nobody /\ UNCHANGED <<orchSlot, live, waits>>
    BY <1>5 DEF TakeSession
  <2>2. /\ OneMoves(r) /\ cmd'[r].at = "takeorch" /\ cmd'[r].rec = session
        /\ cmd[r].at # "takeorch" /\ (Begins(r) \/ Busy(r))
    BY <1>5, TakeSessionOnCmd DEF Busy
  <2>3. Others(r) /\ Quiet
    BY <1>1, <2>2, Apart, SoloAtRest, Solo
  <2>4. QED
    BY <1>2, <1>3, <2>1, <2>2, <2>3, SerialFrame
<1>6. ASSUME NEW r \in Cmds, PauseRead(r, "pause") \/ PauseRead(r, "resume")
      PROVE  Serial'
  <2>1. UNCHANGED <<session, orchSlot, live, waits>> /\ Begins(r)
    BY <1>6 DEF PauseRead
  <2>2. Others(r) /\ Quiet
    BY <2>1, Apart, SoloAtRest
  <2>3. /\ OneMoves(r) /\ cmd[r].at = "idle" /\ cmd'[r].at = "write"
        /\ cmd'[r].rec = session
    BY <1>6, PauseReadOnCmd
  <2>4. QED
    BY <1>2, <1>3, <2>1, <2>2, <2>3, SerialFrame
<1>7. ASSUME \/ \E c \in Recs : TrimTail(c) \/ DeviceDies(c) \/ LiveRead(c) \/ LiveWrite(c)
             \/ Tick \/ UNCHANGED captureVars
      PROVE  Serial'
  <2>1. UNCHANGED <<session, orchSlot, cmd, waits>>
    BY <1>7 DEF TrimTail, DeviceDies, LiveRead, LiveWrite, Tick, captureVars
  <2>2. \A c \in Recs : live'[c] # Nobody => Idle /\ session = c
    BY <1>1, <1>7, Apart DEF Serial, TrimTail, DeviceDies, LiveRead, LiveWrite, Tick,
       captureVars, Shape
  <2>3. QED
    BY <1>1, <2>1, <2>2 DEF Serial, Busy, Idle
<1>8. QED
    BY <1>1, <1>4, <1>5, <1>6, <1>7, SerialHandle DEF CaptureNext
-----------------------------------------------------------------------------
(***************************************************************************)
(* Lengths.  With one command at a time and no failing write, the audio on *)
(* disk is as long as the time since the start less the pauses, the row    *)
(* knows of a pause as soon as its command has ended, a cut falls within   *)
(* the recording, and what is written at the end is what was captured.     *)
(***************************************************************************)
Fresh(c) == pausedAt[c] = Nobody /\ pausedTotal[c] = 0 /\ wav[c] = 0
Exact(c) == wav[c] = Elapsed(c) - PausedTicks(c)
Fits(cut, voice, c) ==
    cut # Nobody => cut <= Elapsed(c) /\ PausedTicks(c) <= cut /\ voice = cut - PausedTicks(c)

NewIsEmpty ==
    /\ \A c \in Recs : row[c] = "none" => Fresh(c)
    /\ \A r \in Cmds : At(r, "audio") => Fresh(cmd[r].rec)

LengthKept ==
    /\ \A c \in Recs : Alive(c) => Exact(c)
    /\ \A r \in Cmds : At(r, "row") => Exact(cmd[r].rec)

PauseKept ==
    /\ (\A r \in Cmds : ~At(r, "pauserow")) =>
          \A c \in Recs : Alive(c) => (pausedAt[c] # Nobody <=> device[c] = "paused")
    /\ \A r \in Cmds : At(r, "pauserow") /\ Alive(cmd[r].rec) =>
          (device[cmd[r].rec] = "paused" <=> cmd[r].op = "pause")

CutsFit ==
    \A r \in Cmds :
       /\ At(r, "enter") => session # Nobody /\ Fits(cmd[r].cut, cmd[r].voice, session)
       /\ Stops(r) => Fits(cmd[r].cut, cmd[r].voice, cmd[r].rec)

EndIsTrue ==
    \A c \in Recs :
       /\ row[c] = "processing" => seconds[c] = voiced[c] /\ voiced[c] <= wav[c]
       /\ row[c] = "deleted" => voiced[c] < MinTicks

Lengths == NewIsEmpty /\ LengthKept /\ PauseKept /\ CutsFit /\ EndIsTrue

LengthInv == ~overlapped /\ ~Failed => Lengths

LEMMA LengthInit == ASSUME CaptureAssumption, CaptureInit PROVE LengthInv
BY DEF CaptureInit, LengthInv, Lengths, NewIsEmpty, LengthKept, PauseKept, CutsFit, EndIsTrue,
   Fresh, Alive, At, Stops, StopPcs, NoCmd

LEMMA SameTicks ==
    ASSUME UNCHANGED <<pausedAt, pausedTotal, startedAt, now>>
    PROVE  \A c \in Recs : Elapsed(c)' = Elapsed(c) /\ PausedTicks(c)' = PausedTicks(c)
BY DEF Elapsed, PausedTicks

\* With one command at a time, a sidecar records for the session or for it.
LEMMA AliveIsMine ==
    ASSUME HoldInv, NEW r \in Cmds, Others(r), NEW d \in Recs, Alive(d)
    PROVE  session = d \/ (Stops(r) /\ cmd[r].rec = d)
BY DEF HoldInv, AliveIsHeld, Others, Stops, StopPcs, NoCmd

\* A command moves and no length changes.
LEMMA LengthFrame ==
    ASSUME Lengths, NEW r \in Cmds, OneMoves(r), Others(r),
           UNCHANGED <<pausedAt, pausedTotal, seconds, wav, voiced, startedAt, now>>,
           \A d \in Recs : Alive(d)' => Alive(d) /\ device'[d] = device[d],
           \A d \in Recs : row'[d] \in {"none", "processing", "deleted"} => row'[d] = row[d],
           cmd[r].at # "pauserow", cmd'[r].at # "pauserow",
           cmd'[r].at = "audio" => Fresh(cmd'[r].rec),
           cmd'[r].at = "row" => cmd'[r].rec \in Recs /\ Exact(cmd'[r].rec),
           cmd'[r].at = "enter" =>
              session' \in Recs /\ session' # Nobody
                /\ Fits(cmd'[r].cut, cmd'[r].voice, session'),
           cmd'[r].at \in StopPcs =>
              cmd'[r].rec \in Recs /\ Fits(cmd'[r].cut, cmd'[r].voice, cmd'[r].rec)
    PROVE  Lengths'
<1>1. \A q \in Cmds \ {r} : cmd'[q] = NoCmd /\ NoCmd.at = "idle"
    BY DEF OneMoves, Others, NoCmd
<1>2. \A c \in Recs : Elapsed(c)' = Elapsed(c) /\ PausedTicks(c)' = PausedTicks(c)
    BY SameTicks
<1>3. NewIsEmpty'
    BY <1>1 DEF Lengths, NewIsEmpty, Fresh, At
<1>4. LengthKept'
  <2>1. \A c \in Recs : Exact(c)' <=> Exact(c)
    BY <1>2 DEF Exact
  <2>2. QED
    BY <1>1, <2>1 DEF Lengths, LengthKept, At
<1>5. PauseKept'
  <2>1. \A q \in Cmds : ~At(q, "pauserow") /\ ~At(q, "pauserow")'
    BY <1>1 DEF At, Others
  <2>2. QED
    BY <2>1 DEF Lengths, PauseKept
<1>6. CutsFit'
  <2>1. ASSUME NEW q \in Cmds, q # r PROVE ~At(q, "enter")' /\ ~Stops(q)'
    BY <1>1, <2>1 DEF At, Stops, StopPcs
  <2>2. At(r, "enter")' => session' # Nobody /\ Fits(cmd[r].cut, cmd[r].voice, session)'
    BY <1>2 DEF At, Fits
  <2>3. Stops(r)' => Fits(cmd[r].cut, cmd[r].voice, cmd[r].rec)'
    BY <1>2 DEF Stops, Fits
  <2>4. QED
    BY <2>1, <2>2, <2>3 DEF CutsFit
<1>7. EndIsTrue'
    BY DEF Lengths, EndIsTrue
<1>8. QED
    BY <1>3, <1>4, <1>5, <1>6, <1>7 DEF Lengths

\* No command moves, no pause begins or ends, and only what has ended is cut.
LEMMA LengthStill ==
    ASSUME CaptureAssumption, CmdInv, HoldInv, Lengths,
           UNCHANGED <<cmd, session, row, pausedAt, pausedTotal, voiced, startedAt, now>>,
           \A d \in Recs : Alive(d)' => Alive(d) /\ device'[d] = device[d],
           \A d \in Recs : wav'[d] = wav[d] \/ row[d] = "processing",
           \A d \in Recs : row[d] = "processing" =>
              seconds'[d] = voiced[d] /\ voiced[d] <= wav'[d]
    PROVE  Lengths'
<1>1. \A c \in Recs : Elapsed(c)' = Elapsed(c) /\ PausedTicks(c)' = PausedTicks(c)
    BY SameTicks
<1>2. \A r \in Cmds : Holds(r) => cmd[r].rec \in Recs /\ row[cmd[r].rec] = "recording"
    BY DEF HoldInv, Own, CmdInv, HasRec, Holds, Stops, StopPcs, At
<1>3. NewIsEmpty'
    BY <1>2 DEF Lengths, NewIsEmpty, Fresh, At, Holds
<1>4. LengthKept'
  <2>1. \A c \in Recs : row[c] = "recording" => (Exact(c)' <=> Exact(c))
    BY <1>1 DEF Exact
  <2>2. \A c \in Recs : Alive(c) => row[c] = "recording"
    BY AliveIsRecording
  <2>3. QED
    BY <1>2, <2>1, <2>2 DEF Lengths, LengthKept, At, Holds, Stops, StopPcs
<1>5. PauseKept'
  <2>1. \A r \in Cmds : At(r, "pauserow") => cmd[r].rec \in Recs
    BY DEF At, CmdInv, HasRec
  <2>2. QED
    BY <2>1 DEF Lengths, PauseKept, At
<1>6. CutsFit'
    BY <1>1 DEF Lengths, CutsFit, Fits, At, Stops, Elapsed, PausedTicks
<1>7. EndIsTrue'
    BY DEF Lengths, EndIsTrue
<1>8. QED
    BY <1>3, <1>4, <1>5, <1>6, <1>7 DEF Lengths

LEMMA StillLengths ==
    ASSUME CaptureAssumption, Shape, CmdInv, HoldInv, Serial, Lengths, NEW c \in Recs,
           TrimTail(c) \/ DeviceDies(c) \/ LiveRead(c) \/ LiveWrite(c)
    PROVE  Lengths'
<1> USE DEF rowVars, endVars
<1>1. EndIsTrue
    BY DEF Lengths
<1>2. CASE TrimTail(c)
  <2>1. /\ UNCHANGED <<cmd, session, row, pausedAt, pausedTotal, voiced, startedAt, now>>
        /\ UNCHANGED <<device, seconds>>
        /\ row[c] = "processing" /\ wav' = [wav EXCEPT ![c] = seconds[c]]
    BY <1>2 DEF TrimTail, timeVars
  <2>2. seconds[c] = voiced[c] /\ voiced[c] \in Nat
    BY <1>1, <2>1 DEF EndIsTrue, Shape, Times
  <2>3. \A d \in Recs : row[d] = "processing" =>
           seconds'[d] = voiced[d] /\ voiced[d] <= wav'[d]
    BY <1>1, <2>1, <2>2 DEF EndIsTrue, Shape
  <2>4. \A d \in Recs : wav'[d] = wav[d] \/ row[d] = "processing"
    BY <2>1 DEF Shape
  <2>5. \A d \in Recs : Alive(d)' => Alive(d) /\ device'[d] = device[d]
    BY <2>1 DEF Alive
  <2>6. QED
    BY <2>1, <2>3, <2>4, <2>5, LengthStill
<1>3. CASE DeviceDies(c)
  <2>1. /\ UNCHANGED <<cmd, session, row, pausedAt, pausedTotal, voiced, startedAt, now>>
        /\ UNCHANGED <<wav, seconds>> /\ device' = [device EXCEPT ![c] = "dead"]
    BY <1>3 DEF DeviceDies, DeviceEnds
  <2>2. \A d \in Recs : Alive(d)' => Alive(d) /\ device'[d] = device[d]
    BY <2>1 DEF Alive, Shape
  <2>3. QED
    BY <1>1, <2>1, <2>2, LengthStill DEF EndIsTrue
<1>4. CASE LiveRead(c) \/ LiveWrite(c)
  <2>1. /\ UNCHANGED <<cmd, session, row, pausedAt, pausedTotal, voiced, startedAt, now>>
        /\ UNCHANGED <<wav, device>>
    BY <1>4 DEF LiveRead, LiveWrite, timeVars
  <2>2. seconds' = seconds \/ (live[c] # Nobody /\ seconds' = [seconds EXCEPT ![c] = live[c]])
    BY <1>4 DEF LiveRead, LiveWrite
  <2>3. live[c] # Nobody => row[c] = "recording"
    BY DEF Serial, HoldInv, SessionHolds, CaptureAssumption
  <2>4. \A d \in Recs : row[d] = "processing" => seconds'[d] = seconds[d]
    BY <2>2, <2>3 DEF Shape
  <2>5. \A d \in Recs : Alive(d)' => Alive(d) /\ device'[d] = device[d]
    BY <2>1 DEF Alive
  <2>6. QED
    BY <1>1, <2>1, <2>4, <2>5, LengthStill DEF EndIsTrue
<1>5. QED
    BY <1>2, <1>3, <1>4

LEMMA StartLengths ==
    ASSUME CaptureAssumption, Shape, CmdInv, HoldInv, Serial, Lengths, NEW r \in Cmds,
           Others(r), ~Failed',
           \/ \E c \in Recs : StartInsert(r, c)
           \/ StartDirFails(r) \/ StartFails(r) \/ SpawnOrchestrator(r) \/ AutoStopVain(r)
    PROVE  Lengths'
<1> USE DEF rowVars, timeVars, endVars, StopPcs
<1>1. CASE \E c \in Recs : StartInsert(r, c)
  <2> PICK c \in Recs : StartInsert(r, c)
    BY <1>1
  <2>1. /\ OneMoves(r) /\ cmd[r].at = "idle" /\ cmd'[r].at = "audio" /\ cmd'[r].rec = c
    BY StartInsertOnCmd
  <2>2. /\ UNCHANGED <<pausedAt, pausedTotal, seconds, wav, voiced, startedAt, now>>
        /\ device' = device /\ row[c] = "none" /\ row' = [row EXCEPT ![c] = "recording"]
    BY DEF StartInsert
  <2>3. Fresh(c)
    BY <2>2 DEF Lengths, NewIsEmpty
  <2>4. \A d \in Recs : row'[d] \in {"none", "processing", "deleted"} => row'[d] = row[d]
    BY <2>2 DEF Shape
  <2>5. \A d \in Recs : Alive(d)' => Alive(d) /\ device'[d] = device[d]
    BY <2>2 DEF Alive
  <2>6. QED
    BY <2>1, <2>2, <2>3, <2>4, <2>5, LengthFrame
<1>2. CASE StartDirFails(r) \/ StartFails(r) \/ SpawnOrchestrator(r) \/ AutoStopVain(r)
  <2>1. /\ OneMoves(r) /\ cmd'[r].at = "idle" /\ cmd[r].at \in {"audio", "spawnorch", "enter"}
    BY <1>2, CmdEnds DEF StartDirFails, StartFails, SpawnOrchestrator, AutoStopVain, At,
       OneMoves
  <2>2. /\ UNCHANGED <<pausedAt, pausedTotal, seconds, wav, voiced, startedAt, now>>
        /\ device' = device
        /\ row' = row \/ row' = [row EXCEPT ![cmd[r].rec] = "failed"]
    BY <1>2 DEF StartDirFails, StartFails, SpawnOrchestrator, AutoStopVain
  <2>3. \A d \in Recs : row'[d] \in {"none", "processing", "deleted"} => row'[d] = row[d]
    BY <2>2 DEF Shape
  <2>4. \A d \in Recs : Alive(d)' => Alive(d) /\ device'[d] = device[d]
    BY <2>2 DEF Alive
  <2>5. QED
    BY <2>1, <2>2, <2>3, <2>4, LengthFrame
<1>3. QED
    BY <1>1, <1>2

LEMMA StartOkLengths ==
    ASSUME CaptureAssumption, Shape, CmdInv, HoldInv, Lengths, NEW r \in Cmds, Others(r),
           StartOk(r)
    PROVE  Lengths'
<1>0. PICK c \in Recs : cmd[r].rec = c
    BY DEF StartOk, At, CmdInv, HasRec
<1>1. /\ OneMoves(r) /\ cmd[r].at = "audio" /\ cmd'[r].at \in {"spawnorch", "idle"}
      /\ Fresh(c) /\ session = Nobody
    BY <1>0, CmdEnds, CmdMoves DEF StartOk, CmdPcs, At, OneMoves, CmdInv, HasRec, Lengths,
       NewIsEmpty, HoldInv, Own, Holds
<1>2. /\ UNCHANGED <<row, pausedAt, pausedTotal, seconds, wav, voiced, now>>
      /\ device' = [device EXCEPT ![c] = "on"] /\ startedAt' = [startedAt EXCEPT ![c] = now]
    BY <1>0 DEF StartOk, rowVars, endVars
<1>3. \A q \in Cmds : cmd'[q].at \in {"spawnorch", "idle"}
    BY <1>1 DEF OneMoves, Others, NoCmd
<1>4. \A d \in Recs : Alive(d)' => d = c
  <2>1. \A d \in Recs : ~Alive(d)
    BY <1>1, AliveIsMine DEF Stops, StopPcs, CaptureAssumption
  <2>2. QED
    BY <1>2, <2>1 DEF Alive, Shape
<1>5. Elapsed(c)' = 0 /\ PausedTicks(c)' = 0 /\ wav'[c] = 0
    BY <1>1, <1>2 DEF Elapsed, PausedTicks, Fresh, Shape, Times, CaptureAssumption
<1>6. NewIsEmpty' /\ EndIsTrue'
    BY <1>2, <1>3 DEF Lengths, NewIsEmpty, EndIsTrue, Fresh, At
<1>7. LengthKept'
    BY <1>3, <1>4, <1>5 DEF LengthKept, Exact, At
<1>8. PauseKept'
    BY <1>1, <1>2, <1>3, <1>4 DEF PauseKept, Fresh, At, Shape
<1>9. CutsFit'
    BY <1>3 DEF CutsFit, At, Stops, StopPcs
<1>10. QED
    BY <1>6, <1>7, <1>8, <1>9 DEF Lengths

\* The cut of the watch's decision: the recording has not been paused since.
LEMMA DecideLengths ==
    ASSUME CaptureAssumption, Shape, TimeInv, CmdInv, HoldInv, Serial, Lengths, AtRest,
           NEW r \in Cmds, NEW c \in Recs, Decide(r, c)
    PROVE  Lengths'
<1>1. /\ OneMoves(r) /\ cmd[r].at = "idle" /\ cmd'[r].at = "enter" /\ Others(r)
    BY DecideOnCmd, SoloAtRest
<1>2. PICK t \in since[c]..now :
           /\ cmd'[r].cut = t - startedAt[c] /\ cmd'[r].voice = wav[c] - (now - t)
           /\ cmd'[r].cut \in Times
    BY DecideOnCmd
<1>3. device[c] = "on" /\ session' = session /\ device' = device /\ row' = row
      /\ UNCHANGED <<pausedAt, pausedTotal, seconds, wav, voiced, startedAt, now>>
    BY DEF Decide, rowVars, timeVars, endVars
<1>4. session = c /\ c # Nobody
    BY <1>1, <1>3, AliveIsMine DEF Alive, Stops, StopPcs, CaptureAssumption
<1>5. pausedAt[c] = Nobody /\ Exact(c)
  <2>1. \A q \in Cmds : ~At(q, "pauserow")
    BY DEF AtRest, Idle, At, NoCmd
  <2>2. QED
    BY <1>3, <2>1 DEF Lengths, LengthKept, PauseKept, Alive
<1>6. Fits(cmd'[r].cut, cmd'[r].voice, c)
  <2>1. /\ startedAt[c] \in Nat /\ since[c] \in Nat /\ wav[c] \in Nat /\ now \in Nat
        /\ pausedTotal[c] \in Nat
    BY DEF Shape, Times
  <2>2. /\ startedAt[c] <= since[c] /\ now - since[c] <= wav[c] /\ since[c] <= t /\ t <= now
        /\ t \in Nat
    BY <1>3, <2>1 DEF TimeInv
  <2>3. PausedTicks(c) = pausedTotal[c] /\ wav[c] = now - startedAt[c] - pausedTotal[c]
    BY <1>5, <2>1 DEF Exact, Elapsed, PausedTicks
  <2>4. QED
    BY <1>2, <2>1, <2>2, <2>3 DEF Fits, Elapsed
<1>7. \A d \in Recs : Alive(d)' => Alive(d) /\ device'[d] = device[d]
    BY <1>3 DEF Alive
<1>8. QED
    BY <1>1, <1>3, <1>4, <1>6, <1>7, LengthFrame DEF StopPcs

LEMMA TakesLengths ==
    ASSUME CaptureAssumption, Shape, CmdInv, HoldInv, Lengths, NEW r \in Cmds, Others(r),
           \/ TakeSession(r) \/ TakeOrchestrator(r) \/ StopWatch(r)
           \/ PauseRead(r, "pause") \/ PauseRead(r, "resume") \/ PauseRefused(r)
    PROVE  Lengths'
<1> USE DEF StopPcs
<1>1. /\ UNCHANGED <<row, pausedAt, pausedTotal, seconds, wav, voiced, startedAt, now>>
      /\ device' = device
    BY DEF TakeSession, TakeOrchestrator, StopWatch, PauseRead, PauseRefused, rowVars,
       timeVars, endVars
<1>2. \A d \in Recs : Alive(d)' => Alive(d) /\ device'[d] = device[d]
    BY <1>1 DEF Alive
<1>3. CutsFit
    BY DEF Lengths
<1>4. CASE TakeSession(r)
  <2>1. /\ OneMoves(r) /\ session \in Recs /\ cmd[r].at # "pauserow"
        /\ cmd'[r].at = "takeorch" /\ cmd'[r].rec = session
    BY <1>4, TakeSessionOnCmd
  <2>2. Fits(cmd'[r].cut, cmd'[r].voice, session)
    BY <1>3, <1>4, TakeSessionOnCmd DEF CutsFit, Fits, At
  <2>3. QED
    BY <1>1, <1>2, <2>1, <2>2, LengthFrame
<1>5. CASE TakeOrchestrator(r) \/ StopWatch(r)
  <2>1. /\ OneMoves(r) /\ cmd[r].at \in StopPcs /\ cmd'[r].at \in {"takewatch", "device"}
        /\ cmd'[r].rec = cmd[r].rec /\ cmd'[r].cut = cmd[r].cut
        /\ cmd'[r].voice = cmd[r].voice
    BY <1>5, CmdMoves, CmdTakesHandles
       DEF TakeOrchestrator, StopWatch, CmdPcs, At, OneMoves, Shape
  <2>2. cmd[r].rec \in Recs /\ Fits(cmd[r].cut, cmd[r].voice, cmd[r].rec)
    BY <1>3, <2>1 DEF CutsFit, Stops, CmdInv, HasRec
  <2>3. QED
    BY <1>1, <1>2, <2>1, <2>2, LengthFrame
<1>6. CASE PauseRead(r, "pause") \/ PauseRead(r, "resume")
  <2>1. OneMoves(r) /\ cmd[r].at = "idle" /\ cmd'[r].at = "write"
    BY <1>6, PauseReadOnCmd
  <2>2. QED
    BY <1>1, <1>2, <2>1, LengthFrame
<1>7. CASE PauseRefused(r)
  <2>1. OneMoves(r) /\ cmd[r].at = "write" /\ cmd'[r].at = "idle"
    BY <1>7, CmdEnds DEF PauseRefused, At, OneMoves
  <2>2. QED
    BY <1>1, <1>2, <2>1, LengthFrame
<1>8. QED
    BY <1>4, <1>5, <1>6, <1>7

LEMMA StopLengths ==
    ASSUME CaptureAssumption, Shape, CmdInv, HoldInv, Lengths, NEW r \in Cmds, Others(r),
           ~Failed', StopDevice(r) \/ StopDeviceFails(r) \/ FinishFails(r)
    PROVE  Lengths'
<1> DEFINE c == cmd[r].rec
<1> USE DEF StopPcs
<1>1. c \in Recs /\ Stops(r) /\ cmd[r].at # "pauserow" /\ row[c] = "recording"
    BY DEF StopDevice, StopDeviceFails, FinishFails, At, Stops, CmdInv, HasRec, HoldInv, Own,
       Holds
<1>2. Fits(cmd[r].cut, cmd[r].voice, c)
    BY <1>1 DEF Lengths, CutsFit
<1>3. CASE StopDevice(r)
  <2>1. /\ OneMoves(r) /\ cmd'[r].at = "row" /\ cmd'[r].rec = c /\ cmd'[r].cut = cmd[r].cut
        /\ cmd'[r].voice = cmd[r].voice
    BY <1>3, CmdMoves DEF StopDevice, CmdPcs, At, OneMoves
  <2>2. /\ UNCHANGED <<row, pausedAt, pausedTotal, seconds, wav, voiced, startedAt, now>>
        /\ device' = [device EXCEPT ![c] = "off"] /\ Alive(c)
    BY <1>3 DEF StopDevice, DeviceEnds, rowVars, endVars
  <2>3. Exact(c)
    BY <1>1, <2>2 DEF Lengths, LengthKept
  <2>4. \A d \in Recs : Alive(d)' => Alive(d) /\ device'[d] = device[d]
    BY <2>2 DEF Alive, Shape
  <2>5. QED
    BY <1>1, <1>2, <2>1, <2>2, <2>3, <2>4, LengthFrame
<1>4. CASE StopDeviceFails(r)
  <2>1. OneMoves(r) /\ cmd'[r].at = "idle"
    BY <1>4, CmdEnds DEF StopDeviceFails, OneMoves
  <2>2. /\ UNCHANGED <<pausedAt, pausedTotal, seconds, wav, voiced, startedAt, now>>
        /\ device' = [device EXCEPT ![c] = "dead"]
    BY <1>4 DEF StopDeviceFails, DeviceEnds, endVars
  <2>3. row' = row \/ row' = [row EXCEPT ![c] = "failed"]
    BY <1>1, <1>4 DEF StopDeviceFails
  <2>4. \A d \in Recs : Alive(d)' => Alive(d) /\ device'[d] = device[d]
    BY <2>2 DEF Alive, Shape
  <2>5. \A d \in Recs : row'[d] \in {"none", "processing", "deleted"} => row'[d] = row[d]
    BY <2>3 DEF Shape
  <2>6. QED
    BY <1>1, <2>1, <2>2, <2>4, <2>5, LengthFrame
<1>5. CASE FinishFails(r)
    BY <1>1, <1>5 DEF FinishFails, Fault, Failed
<1>6. QED
    BY <1>3, <1>4, <1>5

LEMMA PauseDeviceLengths ==
    ASSUME CaptureAssumption, Shape, CmdInv, HoldInv, Serial, Lengths, NEW r \in Cmds,
           Others(r), PauseDevice(r)
    PROVE  Lengths'
<1>1. PICK c \in Recs : cmd[r].rec = c
    BY DEF PauseDevice, At, CmdInv, HasRec
<1>2. /\ OneMoves(r) /\ cmd[r].at = "write" /\ cmd'[r].at = "pauserow"
      /\ cmd'[r].rec = c /\ cmd'[r].op = cmd[r].op
    BY <1>1, CmdMoves DEF PauseDevice, CmdPcs, At, OneMoves
<1>3. session = c /\ c # Nobody
    BY <1>1, <1>2 DEF Serial, FindsItsOwn, CaptureAssumption
<1>4. /\ UNCHANGED <<row, pausedAt, pausedTotal, seconds, wav, voiced, startedAt, now>>
      /\ Alive(c)
      /\ device' = [device EXCEPT ![c] = IF cmd[r].op = "pause" THEN "paused" ELSE "on"]
    BY <1>3 DEF PauseDevice, rowVars, endVars
<1>5. \A q \in Cmds \ {r} : cmd'[q].at = "idle"
    BY <1>2 DEF OneMoves, Others, NoCmd
<1>6. \A d \in Recs : Alive(d)' => Alive(d)
    BY <1>4 DEF Alive, Shape
<1>7. NewIsEmpty' /\ EndIsTrue'
    BY <1>2, <1>4, <1>5 DEF Lengths, NewIsEmpty, EndIsTrue, Fresh, At
<1>8. LengthKept'
  <2>1. \A d \in Recs : Exact(d)' <=> Exact(d)
    BY <1>4 DEF Exact, Elapsed, PausedTicks
  <2>2. QED
    BY <1>2, <1>5, <1>6, <2>1 DEF Lengths, LengthKept, At
<1>9. PauseKept'
    BY <1>2, <1>4, <1>5 DEF PauseKept, At, Shape
<1>10. CutsFit'
    BY <1>2, <1>5 DEF CutsFit, At, Stops, StopPcs
<1>11. QED
    BY <1>7, <1>8, <1>9, <1>10 DEF Lengths

\* The row follows the sidecar, and folding a pause changes no length.
LEMMA PauseRowLengths ==
    ASSUME CaptureAssumption, Shape, TimeInv, CmdInv, HoldInv, Serial, Lengths,
           NEW r \in Cmds, Others(r), ~Failed', PauseRow(r) \/ ResumeRow(r)
    PROVE  Lengths'
<1>1. PICK c \in Recs : cmd[r].rec = c
    BY DEF PauseRow, ResumeRow, At, CmdInv, HasRec
<1>2. OneMoves(r) /\ cmd[r].at = "pauserow" /\ cmd'[r].at = "idle"
    BY CmdEnds DEF PauseRow, ResumeRow, At, OneMoves
<1>3. session = c /\ row[c] = "recording"
    BY <1>1, <1>2 DEF Serial, FindsItsOwn, HoldInv, SessionHolds, CaptureAssumption
<1>4. UNCHANGED <<row, device, seconds, wav, voiced, startedAt, now>>
    BY DEF PauseRow, ResumeRow, endVars, timeVars
<1>5. \A q \in Cmds : cmd'[q].at = "idle"
    BY <1>2 DEF OneMoves, Others, NoCmd
<1>6. \A d \in Recs : Alive(d) => d = c
    BY <1>2, <1>3, AliveIsMine DEF Stops, StopPcs
<1>7. Alive(c) => (device[c] = "paused" <=> cmd[r].op = "pause")
    BY <1>1, <1>2 DEF Lengths, PauseKept, At
<1>8. /\ now \in Times /\ now # Nobody /\ pausedTotal[c] \in Nat /\ PausedTicks(c) \in Nat
      /\ pausedAt[c] \in Times \cup {Nobody} /\ \A t \in Times : t # Nobody
  <2>1. PausedTicks(c) \in Nat
    BY OnTheClock, ClockIsNat
  <2>2. pausedTotal[c] \in Times /\ now \in Times /\ pausedAt[c] \in Times \cup {Nobody}
    BY DEF Shape
  <2>3. QED
    BY <2>1, <2>2, ClockIsNat
<1>9. /\ PausedTicks(c)' = PausedTicks(c)
      /\ Alive(c) => (pausedAt'[c] # Nobody <=> device[c] = "paused")
      /\ \A d \in Recs \ {c} : pausedAt'[d] = pausedAt[d] /\ pausedTotal'[d] = pausedTotal[d]
  <2>1. CASE PauseRow(r)
    <3>1. /\ cmd[r].op = "pause" /\ pausedTotal' = pausedTotal
          /\ pausedAt' = IF pausedAt[c] = Nobody THEN [pausedAt EXCEPT ![c] = now]
                         ELSE pausedAt
      BY <1>1, <1>3, <2>1 DEF PauseRow, Fault, Failed
    <3>2. pausedAt'[c] # Nobody /\ PausedTicks(c)' = PausedTicks(c)
      BY <1>4, <1>8, <3>1 DEF Shape, PausedTicks, Times
    <3>3. \A d \in Recs \ {c} : pausedAt'[d] = pausedAt[d] /\ pausedTotal'[d] = pausedTotal[d]
      BY <3>1 DEF Shape
    <3>4. QED
      BY <1>7, <3>1, <3>2, <3>3
  <2>2. CASE ResumeRow(r)
    <3>1. /\ cmd[r].op = "resume"
          /\ pausedTotal' = [pausedTotal EXCEPT ![c] = PausedTicks(c)]
          /\ pausedAt' = [pausedAt EXCEPT ![c] = Nobody]
      BY <1>1, <2>2 DEF ResumeRow, Fault, Failed
    <3>2. pausedAt'[c] = Nobody /\ PausedTicks(c)' = PausedTicks(c)
      BY <1>4, <1>8, <3>1 DEF Shape, PausedTicks
    <3>3. \A d \in Recs \ {c} : pausedAt'[d] = pausedAt[d] /\ pausedTotal'[d] = pausedTotal[d]
      BY <3>1 DEF Shape
    <3>4. QED
      BY <1>7, <3>1, <3>2, <3>3
  <2>3. QED
    BY <2>1, <2>2
<1>10. NewIsEmpty' /\ EndIsTrue'
    BY <1>3, <1>4, <1>5, <1>9 DEF Lengths, NewIsEmpty, EndIsTrue, Fresh, At
<1>11. LengthKept'
  <2>1. \A d \in Recs : PausedTicks(d)' = PausedTicks(d)
    BY <1>4, <1>9 DEF PausedTicks
  <2>2. \A d \in Recs : Exact(d)' <=> Exact(d)
    BY <1>4, <2>1 DEF Exact, Elapsed
  <2>3. QED
    BY <1>4, <1>5, <2>2 DEF Lengths, LengthKept, At, Alive
<1>12. PauseKept'
    BY <1>4, <1>5, <1>6, <1>9 DEF PauseKept, At, Alive
<1>13. CutsFit'
    BY <1>5 DEF CutsFit, At, Stops, StopPcs
<1>14. QED
    BY <1>10, <1>11, <1>12, <1>13 DEF Lengths

\* The end of a recording: what is thrown away was short, and what is written
\* is the length of the audio up to the cut.
LEMMA EndLengths ==
    ASSUME CaptureAssumption, Shape, TimeInv, CmdInv, HoldInv, Lengths, NEW r \in Cmds, Others(r),
           ~Failed', DiscardTap(r) \/ Finish(r)
    PROVE  Lengths'
<1>1. PICK c \in Recs : cmd[r].rec = c
    BY DEF DiscardTap, Finish, At, CmdInv, HasRec
<1>2. OneMoves(r) /\ cmd[r].at = "row" /\ cmd'[r].at = "idle"
    BY CmdEnds DEF DiscardTap, Finish, At, OneMoves
<1>3. /\ UNCHANGED <<device, startedAt, now>> /\ ~Alive(c) /\ Exact(c)
      /\ Fits(cmd[r].cut, cmd[r].voice, c)
    BY <1>1, <1>2 DEF DiscardTap, Finish, timeVars, Alive, Lengths, LengthKept, CutsFit, At,
       Stops, StopPcs, HoldInv, Own, Holds
<1>4. \A q \in Cmds : cmd'[q].at = "idle" /\ cmd[q].at # "pauserow"
    BY <1>2 DEF OneMoves, Others, NoCmd
<1>5. /\ wav[c] \in Nat /\ Elapsed(c) \in Nat /\ PausedTicks(c) \in Nat
      /\ cmd[r].cut \in Nat \cup {Nobody} /\ Nobody \notin Nat
  <2>1. cmd[r] \in Commands
    BY DEF Shape
  <2>2. cmd[r].cut \in Times \cup {Nobody}
    BY <2>1 DEF Commands
  <2>3. wav[c] \in Times /\ Elapsed(c) \in Times /\ PausedTicks(c) \in Times
    BY OnTheClock DEF Shape
  <2>4. QED
    BY <2>2, <2>3, ClockIsNat DEF CaptureAssumption
<1>6. wav[c] = Elapsed(c) - PausedTicks(c)
    BY <1>3 DEF Exact
<1>7. /\ \A d \in Recs \ {c} :
            /\ row'[d] = row[d] /\ pausedAt'[d] = pausedAt[d] /\ wav'[d] = wav[d]
            /\ pausedTotal'[d] = pausedTotal[d] /\ seconds'[d] = seconds[d]
            /\ voiced'[d] = voiced[d]
      /\ \/ row'[c] = "deleted" /\ voiced'[c] < MinTicks
         \/ row'[c] = "processing" /\ seconds'[c] = voiced'[c] /\ voiced'[c] <= wav'[c]
  <2>1. CASE DiscardTap(r)
    <3>1. /\ row' = [row EXCEPT ![c] = "deleted"] /\ wav' = [wav EXCEPT ![c] = 0]
          /\ voiced' = [voiced EXCEPT ![c] = wav[c]]
          /\ UNCHANGED <<pausedAt, pausedTotal, seconds>>
          /\ Minus(Elapsed(c), PausedTicks(c)) < MinTicks
      BY <1>1, <2>1 DEF DiscardTap, Fault, Failed, IsAccidentalTap
    <3>2. wav[c] < MinTicks
      BY <1>5, <1>6, <3>1 DEF Minus, CaptureAssumption
    <3>3. QED
      BY <3>1, <3>2 DEF Shape
  <2>2. CASE Finish(r)
    <3>1. /\ row' = [row EXCEPT ![c] = "processing"] /\ wav' = wav
          /\ seconds' = [seconds EXCEPT ![c] = EffectiveTicks(r)]
          /\ pausedTotal' = [pausedTotal EXCEPT ![c] = PausedTicks(c)]
          /\ pausedAt' = [pausedAt EXCEPT ![c] = Nobody]
          /\ voiced' = [voiced EXCEPT ![c] = IF cmd[r].cut = Nobody THEN wav[c]
                                             ELSE cmd[r].voice]
      BY <1>1, <2>2 DEF Finish
    <3>2. CASE cmd[r].cut = Nobody
      <4>1. EffectiveTicks(r) = wav[c]
        BY <1>1, <1>5, <1>6, <3>2 DEF EffectiveTicks, Minus
      <4>2. QED
        BY <1>5, <3>1, <3>2, <4>1 DEF Shape
    <3>3. CASE cmd[r].cut # Nobody
      <4>1. /\ cmd[r].cut <= Elapsed(c) /\ PausedTicks(c) <= cmd[r].cut
            /\ cmd[r].voice = cmd[r].cut - PausedTicks(c)
        BY <1>3, <3>3 DEF Fits
      <4>2. EffectiveTicks(r) = cmd[r].voice /\ cmd[r].voice <= wav[c]
        BY <1>1, <1>5, <1>6, <3>3, <4>1 DEF EffectiveTicks, Minus, Least
      <4>3. QED
        BY <3>1, <3>3, <4>2 DEF Shape
    <3>4. QED
      BY <3>2, <3>3
  <2>3. QED
    BY <2>1, <2>2
<1>8. NewIsEmpty' /\ EndIsTrue'
    BY <1>4, <1>7 DEF Lengths, NewIsEmpty, EndIsTrue, Fresh, At
<1>9. LengthKept'
  <2>1. \A d \in Recs \ {c} : Exact(d)' <=> Exact(d)
    BY <1>3, <1>7 DEF Exact, Elapsed, PausedTicks
  <2>2. QED
    BY <1>3, <1>4, <2>1 DEF Lengths, LengthKept, At, Alive
<1>10. PauseKept'
    BY <1>3, <1>4, <1>7 DEF Lengths, PauseKept, At, Alive
<1>11. CutsFit'
    BY <1>4 DEF CutsFit, At, Stops, StopPcs
<1>12. QED
    BY <1>8, <1>9, <1>10, <1>11 DEF Lengths

LEMMA TickLengths ==
    ASSUME CaptureAssumption, Shape, TimeInv, CmdInv, HoldInv, Lengths, Tick
    PROVE  Lengths'
<1>1. /\ now' = now + 1
      /\ UNCHANGED <<cmd, row, device, pausedAt, pausedTotal, seconds, voiced, startedAt>>
      /\ \A c \in Recs : wav'[c] = IF device[c] = "on" THEN wav[c] + 1 ELSE wav[c]
    BY DEF Tick, rowVars, endVars
<1>2. \A q \in Cmds : cmd[q].at = "idle"
    BY DEF Tick, AtRest, Idle, NoCmd
<1>3. NewIsEmpty'
    BY <1>1, <1>2 DEF Lengths, NewIsEmpty, Fresh, At, HoldInv
<1>4. LengthKept'
  <2> SUFFICES ASSUME NEW c \in Recs, Alive(c) PROVE Exact(c)'
    BY <1>1, <1>2 DEF LengthKept, At, Alive
  <2>1. /\ startedAt[c] \in Nat /\ wav[c] \in Nat /\ now \in Nat /\ pausedTotal[c] \in Nat
        /\ pausedAt[c] \in Nat \cup {Nobody} /\ Nobody \notin Nat
    BY DEF Shape, Times, CaptureAssumption
  <2>2. startedAt[c] <= now /\ (pausedAt[c] # Nobody => pausedAt[c] <= now)
    BY DEF TimeInv
  <2>3. Exact(c) /\ (pausedAt[c] # Nobody <=> device[c] = "paused")
    BY <1>2 DEF Lengths, LengthKept, PauseKept, At
  <2>4. CASE device[c] = "on"
    BY <1>1, <2>1, <2>2, <2>3, <2>4 DEF Exact, Elapsed, PausedTicks
  <2>5. CASE device[c] = "paused"
    BY <1>1, <2>1, <2>2, <2>3, <2>5 DEF Exact, Elapsed, PausedTicks
  <2>6. QED
    BY <2>4, <2>5 DEF Alive
<1>5. PauseKept' /\ CutsFit'
    BY <1>1, <1>2 DEF Lengths, PauseKept, CutsFit, At, Stops, StopPcs, Alive
<1>6. EndIsTrue'
  <2>1. \A c \in Recs : device[c] = "on" => row[c] = "recording"
    BY AliveIsRecording DEF Alive
  <2>2. QED
    BY <1>1, <2>1 DEF Lengths, EndIsTrue
<1>7. QED
    BY <1>3, <1>4, <1>5, <1>6 DEF Lengths

LEMMA LengthNext ==
    ASSUME CaptureAssumption, Shape, TimeInv, CmdInv, HoldInv, SerialInv, LengthInv,
           [CaptureNext]_captureVars
    PROVE  LengthInv'
<1> SUFFICES ASSUME ~overlapped', ~Failed' PROVE Lengths'
    BY DEF LengthInv
<1>1. ~Failed
    BY FaultStays DEF Failed
<1>2. Serial /\ Lengths
    BY <1>1, Apart DEF SerialInv, LengthInv
<1>3. ASSUME NEW r \in Cmds, Begins(r) PROVE AtRest /\ Others(r)
    BY <1>3, Apart, SoloAtRest
<1>4. ASSUME NEW r \in Cmds, cmd[r].at # "idle" PROVE Others(r)
    BY <1>2, <1>4, Solo DEF Busy
<1>5. ASSUME NEW r \in Cmds, Handle(r) PROVE Lengths'
  <2>1. Others(r)
    BY <1>4, <1>5, HandleOnCmd DEF HandlePcs
  <2>2. QED
    BY <1>2, <1>5, <2>1, StartLengths, StartOkLengths, TakesLengths, StopLengths, EndLengths,
       PauseDeviceLengths, PauseRowLengths DEF Handle
<1>6. ASSUME NEW r \in Cmds, NEW c \in Recs, StartInsert(r, c) \/ Decide(r, c)
      PROVE  Lengths'
  <2>1. AtRest /\ Others(r)
    BY <1>3, <1>6 DEF StartInsert, Decide
  <2>2. QED
    BY <1>2, <1>6, <2>1, StartLengths, DecideLengths
<1>7. ASSUME NEW r \in Cmds,
             TakeSession(r) \/ PauseRead(r, "pause") \/ PauseRead(r, "resume")
      PROVE  Lengths'
  <2>1. Others(r)
    BY <1>3, <1>4, <1>7, TakeSessionOnCmd DEF PauseRead
  <2>2. QED
    BY <1>2, <1>7, <2>1, TakesLengths
<1>8. ASSUME UNCHANGED captureVars PROVE Lengths'
  <2>1. /\ UNCHANGED <<cmd, session, row, pausedAt, pausedTotal, voiced, startedAt, now>>
        /\ UNCHANGED <<device, wav, seconds>>
    BY <1>8 DEF captureVars, rowVars, endVars, timeVars
  <2>2. \A d \in Recs : Alive(d)' => Alive(d) /\ device'[d] = device[d]
    BY <2>1 DEF Alive
  <2>3. QED
    BY <1>2, <2>1, <2>2, LengthStill DEF Lengths, EndIsTrue
<1>9. QED
    BY <1>2, <1>5, <1>6, <1>7, <1>8, StillLengths, TickLengths DEF CaptureNext
-----------------------------------------------------------------------------
(***************************************************************************)
(* The properties of the runs.                                             *)
(***************************************************************************)
CaptureInv ==
    /\ Shape /\ CmdInv /\ HoldInv /\ TimeInv
    /\ BlameInv /\ SerialInv /\ LengthInv

\* The inductive invariant: every command, the session, the row and the clock
\* agree, in any interleaving, and one command at a time keeps the lengths.
THEOREM CaptureIsInductive == CaptureSpec => []CaptureInv
<1> USE CaptureAssumption
<1>1. CaptureInit => CaptureInv
    BY CaptureTypeInit, CmdInvInit, HoldInit, TimeInit, BlameInit, SerialInit, LengthInit
       DEF CaptureInv
<1>2. CaptureInv /\ [CaptureNext]_captureVars => CaptureInv'
  <2> SUFFICES ASSUME CaptureInv, [CaptureNext]_captureVars PROVE CaptureInv'
    OBVIOUS
  <2>1. /\ Shape /\ CmdInv /\ HoldInv /\ TimeInv /\ BlameInv /\ SerialInv /\ LengthInv
        /\ session # Nobody => row[session] = "recording"
    BY DEF CaptureInv, HoldInv, SessionHolds
  <2>2. Shape' /\ CmdInv' /\ HoldInv' /\ TimeInv'
    BY <2>1, CaptureTypeNext, CmdInvNext, HoldNext, TimeNext
  <2>3. BlameInv' /\ SerialInv' /\ LengthInv'
    BY <2>1, BlameNext, SerialNext, LengthNext
  <2>4. QED
    BY <2>2, <2>3 DEF CaptureInv
<1>3. QED
    BY <1>1, <1>2, PTL DEF CaptureSpec

\* A session owns the one sidecar that records, and a stop waits for its own
\* orchestrator: nothing is captured that no session, or no stop, has.
THEOREM SessionOwnsDeviceHolds == CaptureSpec => []SessionOwnsDevice
<1> USE CaptureAssumption
<1>1. CaptureInv => SessionOwnsDevice
  <2> SUFFICES ASSUME CaptureInv PROVE SessionOwnsDevice
    OBVIOUS
  <2>1. CaptureTypeOK
    BY ShapeIsType DEF CaptureInv
  <2>2. NothingCapturesUnowned
    BY DEF CaptureInv, HoldInv, AliveIsHeld, Alive, NothingCapturesUnowned, Idle, Stops,
       StopPcs, NoCmd
  <2>3. StopFindsItsOwn
    BY DEF CaptureInv, SerialInv, Serial, StopFindsItsOwn
  <2>4. QED
    BY <2>1, <2>2, <2>3 DEF SessionOwnsDevice
<1>2. QED
    BY <1>1, CaptureIsInductive, PTL

\* The row tells what was captured: no row is left in `recording` but by a
\* failed write, and with one command at a time it agrees with the sidecar on
\* the pause, with the audio on the length, and the cut keeps what was said.
THEOREM RowTellsCaptureHolds == CaptureSpec => []RowTellsCapture
<1> USE CaptureAssumption
<1>1. CaptureInv => RowTellsCapture
  <2> SUFFICES ASSUME CaptureInv PROVE RowTellsCapture
    OBVIOUS
  <2>1. StuckOnlyByFailedWrite
    BY DEF CaptureInv, BlameInv, RowIsHeld, StuckOnlyByFailedWrite, Idle, Holds, At, Stops,
       StopPcs, NoCmd
  <2>2. PauseAgrees
    <3> SUFFICES ASSUME AtRest, ~overlapped, ~Failed, session # Nobody, Alive(session)
                 PROVE  pausedAt[session] # Nobody <=> device[session] = "paused"
      BY DEF PauseAgrees
    <3>1. PauseKept /\ session \in Recs
      BY DEF CaptureInv, LengthInv, Lengths, Shape
    <3>2. \A r \in Cmds : ~At(r, "pauserow")
      BY DEF AtRest, Idle, At, NoCmd
    <3>3. QED
      BY <3>1, <3>2 DEF PauseKept
  <2>3. LengthIsCaptured
    BY DEF CaptureInv, LengthInv, Lengths, EndIsTrue, LengthIsCaptured
  <2>4. CutKeepsVoice
    BY DEF CaptureInv, LengthInv, Lengths, EndIsTrue, CutKeepsVoice
  <2>5. QED
    BY <2>1, <2>2, <2>3, <2>4 DEF RowTellsCapture
<1>2. QED
    BY <1>1, CaptureIsInductive, PTL

\* Nothing that was captured long enough is lost to the way it was stopped, and
\* of two stops the second never fails the call of the first.
THEOREM NothingKeptIsLostHolds == CaptureSpec => []NothingKeptIsLost
<1> USE CaptureAssumption
<1>1. CaptureInv => NothingKeptIsLost
  <2> SUFFICES ASSUME CaptureInv PROVE NothingKeptIsLost
    OBVIOUS
  <2>1. FailedOnlyByFault
    BY DEF CaptureInv, BlameInv
  <2>2. OnlyTapsDiscarded
    BY DEF CaptureInv, LengthInv, Lengths, EndIsTrue, OnlyTapsDiscarded
  <2>3. QED
    BY <2>1, <2>2 DEF NothingKeptIsLost
<1>2. QED
    BY <1>1, CaptureIsInductive, PTL
=============================================================================
