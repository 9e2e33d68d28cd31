---------------------------- MODULE Services_proofs ----------------------------
(* Machine-checked invariants of the services around a recording and a        *)
(* pipeline, each for every value of its constants.  As in MCServices they     *)
(* share no variable; here each has its section.                               *)
EXTENDS SidecarRun, Provisioning, CallDetect, RecapGeneration, AppLifecycle, ResourceQueue,
        ResidentServer, SequenceTheorems, TLAPS

(***************************************************************************)
(* SidecarRun: one run of a process, from its files to its guards.         *)
(***************************************************************************)
Ats == {"out", "making", "waiting", "writing", "open", "running", "dropping", "done"}
Files == SUBSET TempFiles
Results == {"none", "failed", "aborted", "unread", "ok"}
ToWrite == {<<>>, <<"prompt">>, <<"schema">>, <<"prompt", "schema">>}

\* What is left of the drops of a run of one kind, in their order.
Remaining(kind) ==
    CASE kind = "stt" -> {<<"child", "permit", "files">>, <<"permit", "files">>, <<"files">>}
      [] kind \in {"llm", "served"} ->
            {<<"child", "files", "permit">>, <<"files", "permit">>, <<"permit">>}
      [] OTHER -> {<<"child">>}
AllRemaining == {<<>>} \cup Remaining("stt") \cup Remaining("llm") \cup Remaining("check")

Runs == [kind : Kinds, at : Ats, write : ToWrite, drops : AllRemaining, files : Files,
         guarded : Files, child : {"none", "running", "dead"}, armed : BOOLEAN,
         exit : {"none", "zero", "other"}, output : {"none", "part", "whole"},
         result : Results]

SidecarShape ==
    /\ job \in [Jobs -> Runs]
    /\ holder \in [Resources -> Jobs \cup {NoJob}]
    /\ asked \in BOOLEAN /\ prompted \in BOOLEAN
    /\ loose \cup leaks \subseteq Jobs

\* A run that unwinds drops what its kind has, in order; only the unwinding
\* has a result.
UnwindsInOrder(r) ==
    /\ r.at = "dropping" => r.drops \in Remaining(r.kind)
    /\ r.result # "none" => r.at = "dropping"
    /\ r.result = "unread" => r.kind = "stt"

\* A child that runs has its guard, or is one of those let go; the guard goes
\* first.
ChildGuarded(j, r, gone) ==
    /\ r.child = "running" => r.armed \/ j \in gone
    /\ r.armed => \/ r.at = "running"
                  \/ r.at = "dropping" /\ r.drops = Drops(r.kind)

\* What is on the disk is in the guard, but for the file in the making and for
\* what leaked.
FilesGuarded(j, r, spilt) ==
    /\ \/ j \in spilt
       \/ r.files \subseteq r.guarded \cup (IF r.at = "open" THEN {Head(r.write)} ELSE {})
    /\ r.at \in {"out", "making", "waiting"} /\ r.kind # "stt" => r.files = {}
    /\ r.at \in {"out", "making", "done"} \/ r.kind \in Probes => r.guarded = {}
    /\ r.at = "making" => r.kind = "stt"
    /\ r.at = "dropping" /\ r.drops = <<"permit">> => r.guarded = {}
    /\ r.at = "open" => r.write # <<>>
    /\ r.write # <<>> \/ "prompt" \in r.files => r.kind = "llm"

\* While it has a process or, for llama-completion, a prompt, a run has the
\* permit.
Uses(r) == IF r.kind = "stt" THEN "stt" ELSE "llm"
HoldsPermit(j, r, spilt) ==
    /\ r.at \in {"writing", "open", "running"} /\ r.kind \notin Probes => holder[Uses(r)] = j
    /\ r.armed /\ r.kind \notin Probes => holder[Uses(r)] = j
    /\ "prompt" \in r.files /\ j \notin spilt => holder["llm"] = j

\* Answers are whole, and what a request answered the system had asked.
AnswersSeen(r) ==
    /\ r.result = "ok" => r.output = "whole"
    /\ r.kind = "request" /\ r.output # "none" => prompted

RunInv(j, r, gone, spilt) ==
    /\ UnwindsInOrder(r)
    /\ ChildGuarded(j, r, gone)
    /\ FilesGuarded(j, r, spilt)
    /\ HoldsPermit(j, r, spilt)
    /\ AnswersSeen(r)

SidecarInv ==
    /\ SidecarShape
    /\ \A j \in Jobs : RunInv(j, job[j], loose, leaks)
    /\ asked => prompted

LEMMA ToWriteParts ==
    \A w \in ToWrite \ {<<>>} : Head(w) \in {"prompt", "schema"} /\ Tail(w) \in ToWrite
<1>1. /\ Head(<<"prompt">>) = "prompt" /\ Tail(<<"prompt">>) = <<>>
      /\ Head(<<"schema">>) = "schema" /\ Tail(<<"schema">>) = <<>>
      /\ Head(<<"prompt", "schema">>) = "prompt"
      /\ Tail(<<"prompt", "schema">>) = <<"schema">>
    OBVIOUS
<1>2. QED
    BY <1>1 DEF ToWrite

LEMMA WritesBoth ==
    /\ <<"prompt">> \o <<>> = <<"prompt">>
    /\ <<"prompt">> \o <<"schema">> = <<"prompt", "schema">>
<1>1. <<"prompt">> \in Seq(TempFiles) /\ "schema" \in TempFiles
    BY DEF TempFiles
<1>2. <<"prompt">> \o <<>> = <<"prompt">>
    BY <1>1, ConcatEmptySeq
<1>3. <<"prompt">> \o <<"schema">> = Append(<<"prompt">>, "schema")
    BY <1>1, AppendIsConcat
<1>4. Append(<<"prompt">>, "schema") = <<"prompt", "schema">>
  <2> DEFINE s == Append(<<"prompt">>, "schema")
             t == <<"prompt", "schema">>
  <2>1. s \in Seq(TempFiles) /\ Len(s) = 2 /\ s[1] = "prompt" /\ s[2] = "schema"
    BY <1>1, AppendProperties
  <2>2. t \in Seq(TempFiles) /\ Len(t) = 2 /\ t[1] = "prompt" /\ t[2] = "schema"
    BY DEF TempFiles
  <2> HIDE DEF s, t
  <2>3. s = t
    BY <2>1, <2>2, SeqEqual
  <2>4. QED
    BY <2>3 DEF s, t
<1>5. QED
    BY <1>2, <1>3, <1>4

LEMMA DropsInOrder ==
    ASSUME NEW k \in Kinds
    PROVE  /\ Drops(k) \in Remaining(k) /\ Remaining(k) \subseteq AllRemaining \ {<<>>}
           /\ \A d \in Remaining(k) :
                /\ Head(d) \in {"child", "permit", "files"}
                /\ Tail(d) \in Remaining(k) \cup {<<>>} /\ Tail(d) # Drops(k)
                /\ Head(d) = "child" <=> d = Drops(k)
                /\ Tail(d) = <<"permit">> => Head(d) = "files"
                /\ Tail(d) = <<>> => \/ Head(d) = "files"
                                     \/ d = <<"permit">>
                                     \/ k \in Probes
                /\ k # "stt" /\ Head(d) = "permit" => d = <<"permit">>
<1> DEFINE cpf == <<"child", "permit", "files">>
           pf == <<"permit", "files">>
           cfp == <<"child", "files", "permit">>
           fp == <<"files", "permit">>
           c == <<"child">>
           p == <<"permit">>
           f == <<"files">>
<1>1. /\ Head(cpf) = "child" /\ Tail(cpf) = pf /\ Head(cfp) = "child" /\ Tail(cfp) = fp
      /\ Head(pf) = "permit" /\ Tail(pf) = f /\ Head(fp) = "files" /\ Tail(fp) = p
      /\ Head(c) = "child" /\ Tail(c) = <<>> /\ Head(p) = "permit" /\ Tail(p) = <<>>
      /\ Head(f) = "files" /\ Tail(f) = <<>>
    OBVIOUS
<1>2. /\ cpf # pf /\ cpf # f /\ cpf # <<>> /\ cfp # fp /\ cfp # p /\ cfp # <<>> /\ c # <<>>
      /\ pf # <<>> /\ fp # <<>> /\ p # <<>> /\ f # <<>> /\ pf # p /\ f # p /\ fp # p
    OBVIOUS
<1>3. /\ Remaining("stt") = {cpf, pf, f} /\ Remaining("llm") = {cfp, fp, p}
      /\ Remaining("check") = {c}
    BY DEF Remaining
<1> HIDE DEF cpf, pf, cfp, fp, c, p, f
<1>0. p = <<"permit">>
    BY DEF p
<1>4. CASE k = "stt"
  <2>1. Remaining(k) = {cpf, pf, f} /\ Drops(k) = cpf
    BY <1>4, <1>3 DEF Drops, cpf
  <2>2. Drops(k) \in Remaining(k) /\ Remaining(k) \subseteq AllRemaining \ {<<>>}
    BY <2>1, <1>2, <1>3 DEF AllRemaining
  <2>3. ASSUME NEW d \in Remaining(k)
        PROVE  /\ Head(d) \in {"child", "permit", "files"}
               /\ Tail(d) \in Remaining(k) \cup {<<>>} /\ Tail(d) # Drops(k)
               /\ Head(d) = "child" <=> d = Drops(k)
               /\ Tail(d) # p
               /\ Tail(d) = <<>> => Head(d) = "files"
    <3>1. CASE d = cpf
      BY <3>1, <2>1, <1>1, <1>2
    <3>2. CASE d = pf
      BY <3>2, <2>1, <1>1, <1>2
    <3>3. CASE d = f
      BY <3>3, <2>1, <1>1, <1>2
    <3>4. QED
      BY <2>1, <3>1, <3>2, <3>3
  <2>4. QED
    BY <1>4, <2>2, <2>3, <1>0
<1>5. CASE k \in {"llm", "served"}
  <2>1. Remaining(k) = {cfp, fp, p} /\ Drops(k) = cfp
    BY <1>5, <1>3 DEF Drops, Remaining, cfp, fp, p
  <2>2. Drops(k) \in Remaining(k) /\ Remaining(k) \subseteq AllRemaining \ {<<>>}
    BY <2>1, <1>2, <1>3 DEF AllRemaining
  <2>3. ASSUME NEW d \in Remaining(k)
        PROVE  /\ Head(d) \in {"child", "permit", "files"}
               /\ Tail(d) \in Remaining(k) \cup {<<>>} /\ Tail(d) # Drops(k)
               /\ Head(d) = "child" <=> d = Drops(k)
               /\ Tail(d) = p => Head(d) = "files"
               /\ Tail(d) = <<>> => d = p
               /\ Head(d) = "permit" => d = p
    <3>1. CASE d = cfp
      BY <3>1, <2>1, <1>1, <1>2
    <3>2. CASE d = fp
      BY <3>2, <2>1, <1>1, <1>2
    <3>3. CASE d = p
      BY <3>3, <2>1, <1>1, <1>2
    <3>4. QED
      BY <2>1, <3>1, <3>2, <3>3
  <2>4. QED
    BY <2>2, <2>3, <1>0
<1>6. CASE k \in Probes
  <2>1. Remaining(k) = {c} /\ Drops(k) = c
    BY <1>6 DEF Drops, Remaining, Probes, c
  <2>2. QED
    BY <1>6, <2>1, <1>1, <1>2, <1>3, <1>0 DEF AllRemaining
<1>7. QED
    BY <1>4, <1>5, <1>6 DEF Kinds, Probes

LEMMA Becoming ==
    ASSUME SidecarShape, NEW j \in Jobs, NEW r \in Runs, Becomes(j, r)
    PROVE  /\ job' \in [Jobs -> Runs] /\ job'[j] = r
           /\ \A k \in Jobs \ {j} : job'[k] = job[k]
BY DEF SidecarShape, Becomes

\* A step of one run: that run is judged by its new record, and the others keep
\* what they had.
LEMMA StepKeeps ==
    ASSUME SidecarInv, NEW j \in Jobs, NEW r \in Runs, Becomes(j, r),
           RunInv(j, r, loose, leaks)',
           holder' \in [Resources -> Jobs \cup {NoJob}],
           \A k \in Jobs \ {j} : \A q \in Resources : holder[q] = k => holder'[q] = k,
           asked' \in BOOLEAN, prompted' \in BOOLEAN, loose' \cup leaks' \subseteq Jobs,
           loose \subseteq loose', leaks \subseteq leaks', prompted => prompted',
           asked' => prompted'
    PROVE  SidecarInv'
<1>1. /\ job' \in [Jobs -> Runs] /\ job'[j] = r
      /\ \A k \in Jobs \ {j} : job'[k] = job[k]
    BY Becoming DEF SidecarInv
<1>2. SidecarShape'
    BY <1>1 DEF SidecarShape
<1>3. ASSUME NEW k \in Jobs \ {j} PROVE RunInv(k, job[k], loose, leaks)'
  <2>1. job'[k] = job[k] /\ RunInv(k, job[k], loose, leaks)
    BY <1>1, <1>3 DEF SidecarInv
  <2>2. /\ UnwindsInOrder(job[k])' /\ ChildGuarded(k, job[k], loose)'
        /\ FilesGuarded(k, job[k], leaks)'
    BY <2>1 DEF RunInv, UnwindsInOrder, ChildGuarded, FilesGuarded
  <2>3. Uses(job[k]) \in Resources /\ "llm" \in Resources /\ Uses(job[k])' = Uses(job[k])
    BY <2>1 DEF Uses, Resources
  <2>4. \A q \in Resources : holder[q] = k => holder'[q] = k
    BY <1>3
  <2>5. HoldsPermit(k, job[k], leaks)'
    BY <2>1, <2>3, <2>4 DEF RunInv, HoldsPermit
  <2>6. AnswersSeen(job[k])'
    BY <2>1 DEF RunInv, AnswersSeen
  <2>7. QED
    BY <2>2, <2>5, <2>6 DEF RunInv
<1>4. RunInv(j, job[j], loose, leaks)'
    BY <1>1
<1>5. QED
    BY <1>2, <1>3, <1>4 DEF SidecarInv

\* Most steps leave the permits, the dialog and its flag alone.
LEMMA QuietKeeps ==
    ASSUME SidecarInv, NEW j \in Jobs, NEW r \in Runs, Becomes(j, r),
           NEW gone \in SUBSET Jobs, NEW spilt \in SUBSET Jobs, RunInv(j, r, gone, spilt),
           loose' = gone, leaks' = spilt, loose \subseteq gone, leaks \subseteq spilt,
           UNCHANGED <<holder, asked, prompted>>
    PROVE  SidecarInv'
<1>1. RunInv(j, r, loose, leaks)'
    BY DEF RunInv, UnwindsInOrder, ChildGuarded, FilesGuarded, HoldsPermit, AnswersSeen, Uses
<1>2. UNCHANGED <<holder, asked, prompted>>
    OBVIOUS
<1>3. QED
    BY <1>1, <1>2, StepKeeps DEF SidecarInv, SidecarShape

LEMMA OwnStepKeeps ==
    ASSUME SidecarInv, NEW j \in Jobs, NEW r \in Runs, Becomes(j, r),
           RunInv(j, r, loose, leaks), Others
    PROVE  SidecarInv'
<1>1. loose \in SUBSET Jobs /\ leaks \in SUBSET Jobs
    BY DEF SidecarInv, SidecarShape
<1>2. QED
    BY <1>1, QuietKeeps DEF Others

\* The run that unwinds: of its record only this changes.
LEMMA Unwinds ==
    ASSUME NEW r \in Runs, NEW result \in Results
    PROVE  LET u == Unwound(r, result) IN
           /\ u \in Runs /\ u.at = "dropping" /\ u.result = result /\ u.drops = Drops(r.kind)
           /\ u.kind = r.kind /\ u.write = r.write /\ u.files = r.files
           /\ u.guarded = r.guarded /\ u.child = r.child /\ u.armed = r.armed
           /\ u.output = r.output
<1>1. Drops(r.kind) \in AllRemaining
    BY DropsInOrder DEF Runs
<1>2. QED
    BY <1>1 DEF Unwound, Runs, Ats

LEMMA MoreExcused ==
    ASSUME NEW j \in Jobs, NEW r \in Runs, RunInv(j, r, loose, leaks),
           NEW gone, NEW spilt, loose \subseteq gone, leaks \subseteq spilt
    PROVE  RunInv(j, r, gone, spilt)
BY DEF RunInv, ChildGuarded, FilesGuarded, HoldsPermit

\* A run may unwind from every place at which it fails, is aborted or ends: what
\* it has made is in its guards, or counted as let go or leaked.
LEMMA UnwindKeeps ==
    ASSUME NEW j \in Jobs, NEW r \in Runs, NEW result \in Results \ {"none"},
           NEW gone, NEW spilt, RunInv(j, r, gone, spilt),
           r.at # "open" \/ j \in spilt, r.at # "done",
           result = "unread" => r.kind = "stt", result = "ok" => r.output = "whole"
    PROVE  Unwound(r, result) \in Runs /\ RunInv(j, Unwound(r, result), gone, spilt)
<1> DEFINE u == Unwound(r, result)
<1>1. /\ u \in Runs /\ u.at = "dropping" /\ u.result = result /\ u.drops = Drops(r.kind)
      /\ u.kind = r.kind /\ u.write = r.write /\ u.files = r.files
      /\ u.guarded = r.guarded /\ u.child = r.child /\ u.armed = r.armed
      /\ u.output = r.output
    BY Unwinds
<1> HIDE DEF u
<1>2. r.kind \in Kinds
    BY DEF Runs
<1>3. Drops(r.kind) \in Remaining(r.kind) /\ Drops(r.kind) # <<"permit">>
    BY <1>2 DEF Drops, Remaining, Kinds
<1>4. UnwindsInOrder(u)
    BY <1>1, <1>3 DEF UnwindsInOrder
<1>5. ChildGuarded(j, u, gone)
    BY <1>1 DEF RunInv, ChildGuarded
<1>6. FilesGuarded(j, u, spilt)
    BY <1>1, <1>3 DEF RunInv, FilesGuarded
<1>7. HoldsPermit(j, u, spilt)
    BY <1>1 DEF RunInv, HoldsPermit, Uses
<1>8. AnswersSeen(u)
    BY <1>1 DEF RunInv, AnswersSeen
<1>9. QED
    BY <1>1, <1>4, <1>5, <1>6, <1>7, <1>8 DEF RunInv, u

LEMMA FailKeeps ==
    ASSUME SidecarInv, NEW j \in Jobs, NEW r \in Runs, RunInv(j, r, loose, leaks),
           r.at \notin {"open", "done"}, NEW result \in Results \ {"none"},
           result = "unread" => r.kind = "stt", result = "ok" => r.output = "whole",
           Becomes(j, Unwound(r, result)), Others
    PROVE  SidecarInv'
BY UnwindKeeps, OwnStepKeeps

LEMMA IdleIsRun == Idle \in Runs
BY DEF Idle, Runs, Kinds, Probes, Ats, ToWrite, AllRemaining, Files, Results

LEMMA BeginRunKeeps ==
    ASSUME SidecarInv, NEW j \in Jobs, NEW kind \in Kinds, BeginRun(j, kind)
    PROVE  SidecarInv'
<1> DEFINE place == CASE kind = "stt" -> "making"
                      [] kind \in Probes -> "writing"
                      [] OTHER -> "waiting"
           r == [Idle EXCEPT !.kind = kind, !.at = place]
<1>1. place \in Ats /\ (place = "making" <=> kind = "stt")
      /\ (place = "writing" <=> kind \in Probes) /\ place \in {"making", "writing", "waiting"}
    BY DEF Ats, Probes
<1> HIDE DEF place
<1>2. r \in Runs
    BY <1>1, IdleIsRun DEF Idle, Runs
<1>3. RunInv(j, r, loose, leaks)
    BY <1>1 DEF Idle, RunInv, UnwindsInOrder, ChildGuarded, FilesGuarded, HoldsPermit,
       AnswersSeen, Uses, Probes
<1>4. Becomes(j, r) /\ Others
    BY DEF BeginRun, place
<1>5. QED
    BY <1>2, <1>3, <1>4, OwnStepKeeps

LEMMA MakeWorkDirKeeps ==
    ASSUME SidecarInv, NEW j \in Jobs, MakeWorkDir(j)
    PROVE  SidecarInv'
<1> DEFINE made == [job[j] EXCEPT !.files = {"dir"}, !.guarded = {"dir"}]
           waits == [made EXCEPT !.at = "waiting"]
<1>1. /\ job[j] \in Runs /\ RunInv(j, job[j], loose, leaks) /\ job[j].at = "making"
      /\ job[j].kind = "stt"
    BY DEF SidecarInv, SidecarShape, MakeWorkDir, RunInv, FilesGuarded
<1>2. waits \in Runs
    BY <1>1 DEF Runs, Files, TempFiles, Ats
<1>3. RunInv(j, waits, loose, leaks)
    BY <1>1 DEF RunInv, UnwindsInOrder, ChildGuarded, FilesGuarded, HoldsPermit,
       AnswersSeen, Uses, Runs, Probes
<1>4. CASE Becomes(j, waits)
    BY <1>2, <1>3, <1>4, OwnStepKeeps DEF MakeWorkDir
<1>5. CASE Becomes(j, Unwound(made, "failed"))
  <2> DEFINE u == Unwound(waits, "failed")
  <2>1. Unwound(made, "failed") = u
    BY <1>1 DEF Unwound, Runs
  <2>2. u \in Runs /\ RunInv(j, u, loose, leaks)
    BY <1>2, <1>3, UnwindKeeps DEF Results, Runs
  <2>3. QED
    BY <1>5, <2>1, <2>2, OwnStepKeeps DEF MakeWorkDir
<1>6. CASE Fails(j)
    BY <1>1, <1>6, FailKeeps DEF Fails, MakeWorkDir, Results
<1>7. QED
    BY <1>4, <1>5, <1>6 DEF MakeWorkDir

LEMMA TakePermitKeeps ==
    ASSUME SidecarInv, NEW j \in Jobs, TakePermit(j)
    PROVE  SidecarInv'
<1>1. /\ job[j] \in Runs /\ RunInv(j, job[j], loose, leaks) /\ job[j].at = "waiting"
      /\ Res(j) = Uses(job[j]) /\ Uses(job[j]) \in Resources
    BY DEF SidecarInv, SidecarShape, TakePermit, Res, Uses, Resources
<1>2. PICK r \in Runs : /\ Becomes(j, r) /\ r.kind = job[j].kind
                        /\ r.at \in {"writing", "running"}
                        /\ r.write # <<>> => r.kind = "llm"
                        /\ r.files = job[j].files /\ r.guarded = job[j].guarded
                        /\ r.child = job[j].child /\ r.armed = job[j].armed
                        /\ r.result = job[j].result /\ r.output = job[j].output
                        /\ r.kind \notin Probes
  <2>1. job[j].write # <<>> => job[j].kind = "llm"
    BY <1>1 DEF RunInv, FilesGuarded
  <2>2. CASE job[j].kind = "stt" /\ Becomes(j, [job[j] EXCEPT !.at = "writing"])
    BY <1>1, <2>1, <2>2 DEF Runs, Ats, Probes
  <2>3. CASE job[j].kind = "served" /\ Becomes(j, [job[j] EXCEPT !.at = "running"])
    BY <1>1, <2>1, <2>3 DEF Runs, Ats, Probes
  <2>4. ASSUME job[j].kind = "llm", NEW extra \in Extras,
               Becomes(j, [job[j] EXCEPT !.at = "writing", !.write = <<"prompt">> \o extra])
        PROVE  \E r \in Runs :
                        /\ Becomes(j, r) /\ r.kind = job[j].kind
                        /\ r.at \in {"writing", "running"}
                        /\ r.write # <<>> => r.kind = "llm"
                        /\ r.files = job[j].files /\ r.guarded = job[j].guarded
                        /\ r.child = job[j].child /\ r.armed = job[j].armed
                        /\ r.result = job[j].result /\ r.output = job[j].output
                        /\ r.kind \notin Probes
    <3> DEFINE r == [job[j] EXCEPT !.at = "writing", !.write = <<"prompt">> \o extra]
    <3>1. <<"prompt">> \o extra \in ToWrite
      BY <2>4, WritesBoth DEF Extras, ToWrite
    <3>2. r \in Runs
      BY <1>1, <3>1 DEF Runs, Ats
    <3>3. /\ r.kind = job[j].kind /\ r.at = "writing"
          /\ r.files = job[j].files /\ r.guarded = job[j].guarded
          /\ r.child = job[j].child /\ r.armed = job[j].armed
          /\ r.result = job[j].result /\ r.output = job[j].output
      BY <1>1 DEF Runs
    <3>4. QED
      BY <2>4, <3>2, <3>3 DEF Probes
  <2>5. QED
    BY <2>2, <2>3, <2>4 DEF TakePermit
<1>3. /\ holder' \in [Resources -> Jobs \cup {NoJob}] /\ holder'[Uses(r)] = j
      /\ \A k \in Jobs \ {j} : \A q \in Resources : holder[q] = k => holder'[q] = k
    BY <1>1, <1>2, JobAssumption DEF TakePermit, SidecarInv, SidecarShape, Uses
<1>4. RunInv(j, r, loose, leaks)'
  <2>1. UNCHANGED <<prompted, loose, leaks>>
    BY DEF TakePermit
  <2>2. UnwindsInOrder(r) /\ AnswersSeen(r)'
    BY <1>1, <1>2, <2>1 DEF RunInv, UnwindsInOrder, AnswersSeen
  <2>3. ChildGuarded(j, r, loose)' /\ FilesGuarded(j, r, leaks)'
    BY <1>1, <1>2, <2>1 DEF RunInv, ChildGuarded, FilesGuarded, Probes
  <2>4. HoldsPermit(j, r, leaks)'
    <3>1. "prompt" \in r.files => Uses(r) = "llm"
      BY <1>1, <1>2 DEF RunInv, FilesGuarded, Uses
    <3>2. QED
      BY <1>3, <3>1 DEF HoldsPermit, Uses
  <2>5. QED
    BY <2>2, <2>3, <2>4 DEF RunInv, UnwindsInOrder
<1>5. UNCHANGED <<asked, prompted, loose, leaks>>
    BY DEF TakePermit
<1>6. QED
    BY <1>2, <1>3, <1>4, <1>5, StepKeeps DEF SidecarInv, SidecarShape

LEMMA JobOf ==
    ASSUME SidecarInv, NEW j \in Jobs
    PROVE  /\ job[j] \in Runs /\ RunInv(j, job[j], loose, leaks)
           /\ loose \in SUBSET Jobs /\ leaks \in SUBSET Jobs
           /\ holder \in [Resources -> Jobs \cup {NoJob}]
           /\ (asked => prompted)
BY DEF SidecarInv, SidecarShape

LEMMA OpenFileKeeps ==
    ASSUME SidecarInv, NEW j \in Jobs, OpenFile(j)
    PROVE  SidecarInv'
<1> DEFINE r == [job[j] EXCEPT !.at = "open", !.files = @ \cup {Head(job[j].write)}]
<1>1. /\ job[j] \in Runs /\ RunInv(j, job[j], loose, leaks) /\ job[j].at = "writing"
      /\ job[j].write # <<>> /\ job[j].kind = "llm"
    BY JobOf DEF OpenFile, RunInv, FilesGuarded
<1>2. Head(job[j].write) \in {"prompt", "schema"}
    BY <1>1, ToWriteParts DEF Runs
<1>3. r \in Runs
    BY <1>1, <1>2 DEF Runs, Ats, Files, TempFiles
<1>4. RunInv(j, r, loose, leaks)
    BY <1>1 DEF RunInv, UnwindsInOrder, ChildGuarded, FilesGuarded, HoldsPermit,
       AnswersSeen, Uses, Runs, Probes
<1>5. CASE Becomes(j, r)
    BY <1>3, <1>4, <1>5, OwnStepKeeps DEF OpenFile
<1>6. CASE Fails(j)
    BY <1>1, <1>6, FailKeeps DEF Fails, OpenFile, Results
<1>7. QED
    BY <1>5, <1>6 DEF OpenFile

LEMMA FileWrittenKeeps ==
    ASSUME SidecarInv, NEW j \in Jobs, FileWritten(j)
    PROVE  SidecarInv'
<1> DEFINE r == [job[j] EXCEPT !.at = "writing", !.write = Tail(@),
                               !.guarded = @ \cup {Head(job[j].write)}]
<1>1. /\ job[j] \in Runs /\ RunInv(j, job[j], loose, leaks) /\ job[j].at = "open"
      /\ job[j].write # <<>> /\ job[j].kind = "llm"
    BY JobOf DEF FileWritten, RunInv, FilesGuarded
<1>2. Head(job[j].write) \in {"prompt", "schema"} /\ Tail(job[j].write) \in ToWrite
    BY <1>1, ToWriteParts DEF Runs
<1>3. r \in Runs
    BY <1>1, <1>2 DEF Runs, Ats, Files, TempFiles
<1>4. RunInv(j, r, loose, leaks)
    BY <1>1 DEF RunInv, UnwindsInOrder, ChildGuarded, FilesGuarded, HoldsPermit,
       AnswersSeen, Uses, Runs, Probes
<1>5. CASE Becomes(j, r) /\ UNCHANGED leaks
    BY <1>3, <1>4, <1>5, OwnStepKeeps DEF FileWritten, Others
<1>6. CASE Fails(j) /\ leaks' = leaks \cup {j}
  <2> DEFINE spilt == leaks \cup {j}
  <2>1. RunInv(j, job[j], loose, spilt) /\ spilt \in SUBSET Jobs /\ loose \in SUBSET Jobs
    BY <1>1, MoreExcused, JobOf
  <2>2. Unwound(job[j], "failed") \in Runs /\ RunInv(j, Unwound(job[j], "failed"), loose, spilt)
    BY <1>1, <2>1, UnwindKeeps DEF Results
  <2>3. QED
    BY <1>6, <2>1, <2>2, QuietKeeps DEF FileWritten, Fails
<1>7. QED
    BY <1>5, <1>6 DEF FileWritten

LEMMA SpawnChildKeeps ==
    ASSUME SidecarInv, NEW j \in Jobs, SpawnChild(j)
    PROVE  SidecarInv'
<1> DEFINE r == [job[j] EXCEPT !.at = "running", !.child = "running", !.armed = TRUE]
           q == [r EXCEPT !.armed = FALSE]
           gone == loose \cup {j}
<1>1. /\ job[j] \in Runs /\ RunInv(j, job[j], loose, leaks) /\ job[j].at = "writing"
    BY JobOf DEF SpawnChild
<1>2. r \in Runs /\ q \in Runs
    BY <1>1 DEF Runs, Ats
<1>3. RunInv(j, r, loose, leaks)
    BY <1>1 DEF RunInv, UnwindsInOrder, ChildGuarded, FilesGuarded, HoldsPermit,
       AnswersSeen, Uses, Runs, Probes
<1>4. CASE Becomes(j, r) /\ UNCHANGED loose
    BY <1>2, <1>3, <1>4, OwnStepKeeps DEF SpawnChild, Others
<1>5. CASE Fails(j) /\ UNCHANGED loose
    BY <1>1, <1>5, FailKeeps DEF Fails, SpawnChild, Results, Others
<1>6. CASE Becomes(j, Unwound(q, "failed")) /\ loose' = gone
  <2>1. RunInv(j, r, gone, leaks) /\ gone \in SUBSET Jobs /\ leaks \in SUBSET Jobs
    BY <1>2, <1>3, MoreExcused, JobOf
  <2>2. RunInv(j, q, gone, leaks)
    BY <1>1, <2>1 DEF RunInv, UnwindsInOrder, ChildGuarded, FilesGuarded, HoldsPermit,
       AnswersSeen, Uses, Runs
  <2>3. q.at = "running" /\ "failed" \in Results \ {"none"}
    BY <1>1 DEF Runs, Results
  <2>4. \A c \in Runs : RunInv(j, c, gone, leaks) /\ c.at = "running" =>
           Unwound(c, "failed") \in Runs /\ RunInv(j, Unwound(c, "failed"), gone, leaks)
    BY <2>3, UnwindKeeps
  <2>5. Unwound(q, "failed") \in Runs /\ RunInv(j, Unwound(q, "failed"), gone, leaks)
    BY <1>2, <2>2, <2>3, <2>4
  <2>6. QED
    BY <1>6, <2>1, <2>5, QuietKeeps DEF SpawnChild
<1>7. QED
    BY <1>4, <1>5, <1>6 DEF SpawnChild

LEMMA ProduceKeeps ==
    ASSUME SidecarInv, NEW j \in Jobs, Produce(j)
    PROVE  SidecarInv'
<1>1. PICK out \in {"part", "whole"} : Becomes(j, [job[j] EXCEPT !.output = out])
    BY DEF Produce
<1>2. job[j] \in Runs /\ RunInv(j, job[j], loose, leaks) /\ job[j].output # "whole"
    BY JobOf DEF Produce
<1>3. PICK r \in Runs : r = [job[j] EXCEPT !.output = out]
    BY <1>2 DEF Runs
<1>4. UNCHANGED <<holder, asked, loose, leaks>>
    BY DEF Produce
<1>5. prompted' \in BOOLEAN /\ (prompted => prompted')
      /\ (job[j].kind = "request" => prompted')
    BY DEF Produce, SidecarInv, SidecarShape
<1>6. RunInv(j, r, loose, leaks)'
  <2>1. /\ r.kind = job[j].kind /\ r.at = job[j].at /\ r.write = job[j].write
        /\ r.drops = job[j].drops /\ r.files = job[j].files /\ r.guarded = job[j].guarded
        /\ r.child = job[j].child /\ r.armed = job[j].armed /\ r.result = job[j].result
    BY <1>2, <1>3 DEF Runs
  <2>2. UnwindsInOrder(r)
    BY <1>2, <2>1 DEF RunInv, UnwindsInOrder
  <2>3. ChildGuarded(j, r, loose)' /\ FilesGuarded(j, r, leaks)'
    BY <1>2, <1>4, <2>1 DEF RunInv, ChildGuarded, FilesGuarded
  <2>4. HoldsPermit(j, r, leaks)'
    BY <1>2, <1>4, <2>1 DEF RunInv, HoldsPermit, Uses
  <2>5. AnswersSeen(r)'
    BY <1>2, <1>5, <2>1 DEF RunInv, AnswersSeen
  <2>6. QED
    BY <2>2, <2>3, <2>4, <2>5 DEF RunInv, UnwindsInOrder
<1>7. QED
  <2>1. asked' \in BOOLEAN /\ (asked' => prompted')
    BY <1>4, <1>5 DEF SidecarInv, SidecarShape
  <2>2. /\ holder' \in [Resources -> Jobs \cup {NoJob}] /\ loose' \cup leaks' \subseteq Jobs
        /\ loose \subseteq loose' /\ leaks \subseteq leaks'
        /\ \A k \in Jobs \ {j} : \A q \in Resources : holder[q] = k => holder'[q] = k
    BY <1>4 DEF SidecarInv, SidecarShape
  <2>3. Becomes(j, r)
    BY <1>1, <1>3
  <2>4. QED
    BY <1>3, <1>5, <1>6, <2>1, <2>2, <2>3, StepKeeps

LEMMA ChildExitsKeeps ==
    ASSUME SidecarInv, NEW j \in Jobs, ChildExits(j)
    PROVE  SidecarInv'
<1>1. PICK code \in {"zero", "other"} :
         Becomes(j, [job[j] EXCEPT !.child = "dead", !.exit = code])
    BY DEF ChildExits
<1> DEFINE r == [job[j] EXCEPT !.child = "dead", !.exit = code]
<1>2. job[j] \in Runs /\ RunInv(j, job[j], loose, leaks)
    BY JobOf
<1>3. r \in Runs
    BY <1>2 DEF Runs
<1>4. RunInv(j, r, loose, leaks)
    BY <1>2 DEF RunInv, UnwindsInOrder, ChildGuarded, FilesGuarded, HoldsPermit,
       AnswersSeen, Uses, Runs
<1>5. QED
    BY <1>1, <1>3, <1>4, OwnStepKeeps DEF ChildExits

\* A run that ended: whisper-cli's answer is not read yet, the others' is.
LEMMA EndedKeeps ==
    ASSUME NEW j \in Jobs, NEW r \in Runs, NEW gone, NEW spilt, RunInv(j, r, gone, spilt),
           r.at \notin {"open", "done"}
    PROVE  Ended(r) \in Runs /\ RunInv(j, Ended(r), gone, spilt)
<1>1. CASE r.kind = "stt"
    BY <1>1, UnwindKeeps DEF Ended, Results
<1>2. CASE r.kind # "stt" /\ r.output = "whole"
    BY <1>2, UnwindKeeps DEF Ended, Answers, Results
<1>3. CASE r.kind # "stt" /\ r.output # "whole"
    BY <1>3, UnwindKeeps DEF Ended, Answers, Results
<1>4. QED
    BY <1>1, <1>2, <1>3

\* The guard is released when nothing runs any more, or lets go of what does; or
\* it has killed what ran.
LEMMA DisarmedKeeps ==
    ASSUME NEW j \in Jobs, NEW gone, NEW spilt, NEW q \in Runs, NEW r \in Runs,
           RunInv(j, q, gone, spilt),
           r = [q EXCEPT !.armed = FALSE] \/ r = Slain(q),
           r.child = "running" => j \in gone
    PROVE  RunInv(j, r, gone, spilt)
<1>1. /\ r.kind = q.kind /\ r.at = q.at /\ r.write = q.write /\ r.drops = q.drops
      /\ r.files = q.files /\ r.guarded = q.guarded /\ r.armed = FALSE
      /\ r.output = q.output /\ r.result = q.result
    BY DEF Slain, Runs
<1>2. QED
    BY <1>1 DEF RunInv, UnwindsInOrder, ChildGuarded, FilesGuarded, HoldsPermit, AnswersSeen,
       Uses

LEMMA SlainKeeps ==
    ASSUME NEW j \in Jobs, NEW gone, NEW spilt, NEW q \in Runs, RunInv(j, q, gone, spilt)
    PROVE  Slain(q) \in Runs /\ RunInv(j, Slain(q), gone, spilt)
<1>1. Slain(q) \in Runs /\ Slain(q).child = "dead"
    BY DEF Slain, Runs
<1>2. QED
    BY <1>1, DisarmedKeeps

LEMMA OnTerminatedKeeps ==
    ASSUME SidecarInv, NEW j \in Jobs, OnTerminated(j)
    PROVE  SidecarInv'
<1> DEFINE r == [job[j] EXCEPT !.armed = FALSE]
<1>1. /\ job[j] \in Runs /\ RunInv(j, job[j], loose, leaks) /\ job[j].at = "running"
      /\ job[j].child = "dead"
    BY JobOf DEF OnTerminated
<1>2. r \in Runs /\ r.child = "dead" /\ r.at = "running"
    BY <1>1 DEF Runs
<1>3. RunInv(j, r, loose, leaks)
    BY <1>1, <1>2, DisarmedKeeps
<1>4. CASE Becomes(j, Unwound(r, "failed"))
    BY <1>2, <1>3, <1>4, FailKeeps DEF OnTerminated, Results
<1>5. CASE Becomes(j, Ended(r))
    BY <1>2, <1>3, <1>5, EndedKeeps, OwnStepKeeps DEF OnTerminated
<1>6. QED
    BY <1>4, <1>5 DEF OnTerminated

LEMMA StreamClosesKeeps ==
    ASSUME SidecarInv, NEW j \in Jobs, StreamCloses(j)
    PROVE  SidecarInv'
<1> DEFINE r == [job[j] EXCEPT !.armed = FALSE]
           gone == IF job[j].child = "running" THEN loose \cup {j} ELSE loose
<1>1. /\ job[j] \in Runs /\ RunInv(j, job[j], loose, leaks) /\ job[j].at = "running"
      /\ leaks \in SUBSET Jobs /\ loose \in SUBSET Jobs
    BY JobOf DEF StreamCloses
<1>2. r \in Runs /\ r.child = job[j].child /\ r.at = "running"
    BY <1>1 DEF Runs
<1>3. gone \in SUBSET Jobs /\ loose \subseteq gone
    BY <1>1
<1>4. RunInv(j, job[j], gone, leaks)
    BY <1>1, <1>3, MoreExcused
<1>5. RunInv(j, r, gone, leaks)
    BY <1>1, <1>2, <1>4, DisarmedKeeps
<1>6. Ended(r) \in Runs /\ RunInv(j, Ended(r), gone, leaks)
    BY <1>2, <1>5, EndedKeeps
<1>7. Becomes(j, Ended(r)) /\ loose' = gone /\ UNCHANGED <<holder, asked, prompted, leaks>>
    BY DEF StreamCloses
<1>8. QED
    BY <1>1, <1>3, <1>6, <1>7, QuietKeeps

LEMMA RunFailsKeeps ==
    ASSUME SidecarInv, NEW j \in Jobs, RunFails(j)
    PROVE  SidecarInv'
<1>1. job[j] \in Runs /\ RunInv(j, job[j], loose, leaks) /\ job[j].at = "running"
    BY JobOf DEF RunFails
<1>2. Slain(job[j]) \in Runs /\ Slain(job[j]).at = "running"
    BY <1>1, SlainKeeps DEF Slain, Runs
<1>3. RunInv(j, Slain(job[j]), loose, leaks)
    BY <1>1, SlainKeeps
<1>4. QED
    BY <1>2, <1>3, FailKeeps DEF RunFails, Results

LEMMA ServerAnswersKeeps ==
    ASSUME SidecarInv, NEW j \in Jobs, ServerAnswers(j)
    PROVE  SidecarInv'
<1>1. job[j] \in Runs /\ RunInv(j, job[j], loose, leaks) /\ job[j].at = "running"
    BY JobOf DEF ServerAnswers
<1>2. CASE Becomes(j, Ended(job[j]))
    BY <1>1, <1>2, EndedKeeps, OwnStepKeeps DEF ServerAnswers
<1>3. CASE Fails(j)
    BY <1>1, <1>3, FailKeeps DEF ServerAnswers, Fails, Results
<1>4. QED
    BY <1>2, <1>3 DEF ServerAnswers

LEMMA ReadJsonKeeps ==
    ASSUME SidecarInv, NEW j \in Jobs, ReadJson(j)
    PROVE  SidecarInv'
<1> DEFINE read == IF Answers(job[j]) THEN "ok" ELSE "failed"
           r == [job[j] EXCEPT !.result = read]
<1>1. job[j] \in Runs /\ RunInv(j, job[j], loose, leaks) /\ job[j].at = "dropping"
    BY JobOf DEF ReadJson, RunInv, UnwindsInOrder
<1>2. r \in Runs
    BY <1>1 DEF Runs, Results
<1>3. RunInv(j, r, loose, leaks)
    BY <1>1 DEF RunInv, UnwindsInOrder, ChildGuarded, FilesGuarded, HoldsPermit, AnswersSeen,
       Uses, Runs, Answers
<1>4. QED
    BY <1>2, <1>3, OwnStepKeeps DEF ReadJson

LEMMA ProbeEndsKeeps ==
    ASSUME SidecarInv, NEW j \in Jobs, ProbeEnds(j)
    PROVE  SidecarInv'
<1>1. /\ job[j] \in Runs /\ RunInv(j, job[j], loose, leaks) /\ job[j].at = "running"
      /\ (asked => prompted)
    BY JobOf DEF ProbeEnds
<1>2. /\ Slain(job[j]) \in Runs /\ Slain(job[j]).at = "running"
      /\ RunInv(j, Slain(job[j]), loose, leaks)
      /\ Slain(job[j]).kind = job[j].kind /\ Slain(job[j]).output = job[j].output
    BY <1>1, SlainKeeps DEF Slain, Runs
<1>3. CASE asked' = (asked \/ Flag(Slain(job[j]))) /\ Becomes(j, Ended(Slain(job[j])))
  <2>1. PICK r \in Runs : r = Ended(Slain(job[j]))
    BY <1>2, EndedKeeps
  <2>2. UNCHANGED <<holder, prompted, loose, leaks>>
    BY DEF ProbeEnds
  <2>3. RunInv(j, r, loose, leaks)
    BY <1>2, <2>1, EndedKeeps
  <2>4. RunInv(j, r, loose, leaks)'
    BY <2>2, <2>3 DEF RunInv, UnwindsInOrder, ChildGuarded, FilesGuarded, HoldsPermit,
       AnswersSeen, Uses
  <2>5. asked' \in BOOLEAN
    BY <1>3 DEF SidecarInv, SidecarShape, Flag
  <2>6. Flag(Slain(job[j])) => prompted
    BY <1>1, <1>2 DEF Flag, RunInv, AnswersSeen
  <2>7. asked' => prompted'
    BY <1>1, <1>3, <2>2, <2>6
  <2>8. /\ holder' \in [Resources -> Jobs \cup {NoJob}] /\ loose' \cup leaks' \subseteq Jobs
        /\ loose \subseteq loose' /\ leaks \subseteq leaks' /\ prompted' \in BOOLEAN
        /\ \A k \in Jobs \ {j} : \A q \in Resources : holder[q] = k => holder'[q] = k
    BY <2>2 DEF SidecarInv, SidecarShape
  <2>9. Becomes(j, r)
    BY <1>3, <2>1
  <2>10. prompted => prompted'
    BY <2>2
  <2>11. QED
    BY <2>1, <2>4, <2>5, <2>7, <2>8, <2>9, <2>10, StepKeeps
<1>4. CASE UNCHANGED asked /\ Fails(j)
    BY <1>1, <1>4, FailKeeps DEF ProbeEnds, Fails, Results, Others
<1>5. QED
    BY <1>3, <1>4 DEF ProbeEnds

LEMMA AbortRunKeeps ==
    ASSUME SidecarInv, NEW j \in Jobs, AbortRun(j)
    PROVE  SidecarInv'
<1> DEFINE spilt == IF job[j].at \in {"making", "open"} THEN leaks \cup {j} ELSE leaks
           made == [job[j] EXCEPT !.files = {"dir"}]
<1>1. /\ job[j] \in Runs /\ RunInv(j, job[j], loose, leaks)
      /\ leaks \in SUBSET Jobs /\ loose \in SUBSET Jobs
    BY JobOf
<1>2. job[j].at # "done"
    BY <1>1 DEF AbortRun, RunInv, UnwindsInOrder
<1>3. /\ spilt \in SUBSET Jobs /\ leaks \subseteq spilt
      /\ (job[j].at # "open" \/ j \in spilt) /\ (job[j].at = "making" => j \in spilt)
    BY <1>1
<1>4. leaks' = spilt /\ UNCHANGED <<holder, asked, prompted, loose>>
    BY DEF AbortRun
<1> HIDE DEF spilt
<1>5. RunInv(j, job[j], loose, spilt)
    BY <1>1, <1>3, MoreExcused
<1>6. CASE Becomes(j, Unwound(job[j], "aborted"))
  <2>1. /\ Unwound(job[j], "aborted") \in Runs
        /\ RunInv(j, Unwound(job[j], "aborted"), loose, spilt)
    BY <1>1, <1>2, <1>3, <1>5, UnwindKeeps DEF Results
  <2>2. QED
    BY <1>1, <1>3, <1>4, <1>6, <2>1, QuietKeeps
<1>7. CASE job[j].at = "making" /\ Becomes(j, Unwound(made, "aborted"))
  <2>1. made \in Runs /\ made.at = "making"
    BY <1>1, <1>7 DEF Runs, Files, TempFiles
  <2>2. RunInv(j, made, loose, spilt)
    BY <1>1, <1>3, <1>5, <1>7 DEF RunInv, UnwindsInOrder, ChildGuarded, FilesGuarded,
       HoldsPermit, AnswersSeen, Uses, Runs
  <2>3. Unwound(made, "aborted") \in Runs /\ RunInv(j, Unwound(made, "aborted"), loose, spilt)
    BY <2>1, <2>2, UnwindKeeps DEF Results
  <2>4. QED
    BY <1>1, <1>3, <1>4, <1>7, <2>3, QuietKeeps
<1>8. QED
    BY <1>6, <1>7 DEF AbortRun

\* One drop: the child with its guard, the files that are in theirs, the permit.
LEMMA DropStep ==
    ASSUME SidecarInv, NEW j \in Jobs, DropNext(j)
    PROVE  \E x \in Runs :
              /\ Becomes(j, Over(x)) /\ x.kind = job[j].kind /\ x.at = "dropping"
              /\ x.drops = Tail(job[j].drops) /\ x.write = job[j].write
              /\ x.output = job[j].output /\ x.result = job[j].result /\ x.armed = FALSE
              /\ x.child = "running" => j \in loose
              /\ IF Head(job[j].drops) = "files"
                 THEN x.guarded = {} /\ x.files = job[j].files \ job[j].guarded
                 ELSE x.guarded = job[j].guarded /\ x.files = job[j].files
<1> DEFINE r == [job[j] EXCEPT !.drops = Tail(@)]
           first == Head(job[j].drops)
<1>1. /\ job[j] \in Runs /\ RunInv(j, job[j], loose, leaks) /\ job[j].at = "dropping"
      /\ job[j].kind \in Kinds /\ job[j].drops \in Remaining(job[j].kind)
    BY JobOf DEF DropNext, Runs, RunInv, UnwindsInOrder
<1>2. /\ first \in {"child", "permit", "files"}
      /\ Tail(job[j].drops) \in AllRemaining
      /\ first = "child" <=> job[j].drops = Drops(job[j].kind)
  <2>1. <<>> \in AllRemaining /\ Remaining(job[j].kind) \subseteq AllRemaining
    BY <1>1, DropsInOrder DEF AllRemaining
  <2>2. \A d \in Remaining(job[j].kind) :
           /\ Tail(d) \in Remaining(job[j].kind) \cup {<<>>}
           /\ Head(d) \in {"child", "permit", "files"}
           /\ Head(d) = "child" <=> d = Drops(job[j].kind)
    BY <1>1, DropsInOrder
  <2>3. QED
    BY <1>1, <2>1, <2>2
<1>3. /\ r \in Runs /\ r.kind = job[j].kind /\ r.at = "dropping"
      /\ r.drops = Tail(job[j].drops) /\ r.write = job[j].write
      /\ r.output = job[j].output /\ r.result = job[j].result /\ r.armed = job[j].armed
      /\ r.child = job[j].child /\ r.files = job[j].files /\ r.guarded = job[j].guarded
    BY <1>1, <1>2 DEF Runs
<1>4. Becomes(j, Over(CASE first = "child" -> DropChild(r)
                        [] first = "files" -> DropFiles(r)
                        [] OTHER -> r))
    BY DEF DropNext
<1>5. /\ job[j].child = "running" => job[j].armed \/ j \in loose
      /\ job[j].armed => first = "child"
    BY <1>1, <1>2 DEF RunInv, ChildGuarded
<1> HIDE DEF r, first
<1>6. CASE first = "child"
  <2>1. /\ DropChild(r) \in Runs /\ DropChild(r).kind = r.kind /\ DropChild(r).at = r.at
        /\ DropChild(r).drops = r.drops /\ DropChild(r).write = r.write
        /\ DropChild(r).output = r.output /\ DropChild(r).result = r.result
        /\ DropChild(r).files = r.files /\ DropChild(r).guarded = r.guarded
        /\ DropChild(r).armed = FALSE
        /\ DropChild(r).child = "running" => r.child = "running" /\ ~r.armed
    BY <1>3 DEF DropChild, Slain, Runs
  <2>2. Becomes(j, Over(DropChild(r)))
    BY <1>4, <1>6
  <2>3. QED
    BY <1>3, <1>5, <1>6, <2>1, <2>2 DEF first
<1>7. CASE first = "files"
  <2>1. /\ DropFiles(r) \in Runs /\ DropFiles(r).kind = r.kind /\ DropFiles(r).at = r.at
        /\ DropFiles(r).drops = r.drops /\ DropFiles(r).write = r.write
        /\ DropFiles(r).output = r.output /\ DropFiles(r).result = r.result
        /\ DropFiles(r).files = r.files \ r.guarded /\ DropFiles(r).guarded = {}
        /\ DropFiles(r).armed = r.armed /\ DropFiles(r).child = r.child
    BY <1>3 DEF DropFiles, Runs, Files
  <2>2. Becomes(j, Over(DropFiles(r)))
    BY <1>4, <1>7
  <2>3. ~r.armed
    BY <1>3, <1>5, <1>7
  <2>4. r.armed = FALSE
    BY <1>3, <2>3 DEF Runs
  <2>5. QED
    BY <1>3, <1>5, <1>7, <2>1, <2>2, <2>4 DEF first
<1>8. CASE first = "permit"
  <2>1. Becomes(j, Over(r))
    BY <1>4, <1>8
  <2>2. r.armed = FALSE
    BY <1>3, <1>5, <1>8 DEF Runs
  <2>3. QED
    BY <1>3, <1>5, <1>8, <2>1, <2>2 DEF first
<1>9. QED
    BY <1>2, <1>6, <1>7, <1>8

LEMMA DropNextKeeps ==
    ASSUME SidecarInv, NEW j \in Jobs, DropNext(j)
    PROVE  SidecarInv'
<1> DEFINE d == job[j].drops
<1>1. PICK x \in Runs :
              /\ Becomes(j, Over(x)) /\ x.kind = job[j].kind /\ x.at = "dropping"
              /\ x.drops = Tail(d) /\ x.write = job[j].write
              /\ x.output = job[j].output /\ x.result = job[j].result /\ x.armed = FALSE
              /\ x.child = "running" => j \in loose
              /\ IF Head(d) = "files"
                 THEN x.guarded = {} /\ x.files = job[j].files \ job[j].guarded
                 ELSE x.guarded = job[j].guarded /\ x.files = job[j].files
    BY DropStep
<1>2. /\ job[j] \in Runs /\ RunInv(j, job[j], loose, leaks) /\ job[j].at = "dropping"
      /\ job[j].kind \in Kinds /\ d \in Remaining(job[j].kind)
    BY JobOf DEF DropNext, Runs, RunInv, UnwindsInOrder
<1>3. /\ Tail(d) \in Remaining(job[j].kind) \cup {<<>>}
      /\ Tail(d) = <<"permit">> => Head(d) = "files"
      /\ Tail(d) = <<>> => Head(d) = "files" \/ d = <<"permit">> \/ job[j].kind \in Probes
      /\ job[j].kind # "stt" /\ Head(d) = "permit" => d = <<"permit">>
    BY <1>2, DropsInOrder
<1>4. /\ j \in leaks \/ x.files \subseteq x.guarded
      /\ x.kind \in Probes => x.guarded = {}
      /\ Tail(d) = <<"permit">> => x.guarded = {}
      /\ Tail(d) = <<>> => x.guarded = {}
      /\ x.write # <<>> \/ "prompt" \in x.files => x.kind = "llm"
      /\ "prompt" \in x.files => "prompt" \in job[j].files
    BY <1>1, <1>2, <1>3 DEF RunInv, FilesGuarded
<1>5. /\ UNCHANGED <<asked, prompted, loose, leaks>>
      /\ \/ UNCHANGED holder
         \/ /\ Head(d) = "permit" /\ holder[Res(j)] = j
            /\ holder' = [holder EXCEPT ![Res(j)] = NoJob]
    BY DEF DropNext
<1>6. /\ holder' \in [Resources -> Jobs \cup {NoJob}]
      /\ \A k \in Jobs \ {j} : \A q \in Resources : holder[q] = k => holder'[q] = k
      /\ holder \in [Resources -> Jobs \cup {NoJob}]
    BY <1>5, JobOf DEF Res, Resources
<1>7. "prompt" \in x.files /\ j \notin leaks => holder'["llm"] = j
  <2>1. SUFFICES ASSUME "prompt" \in x.files, j \notin leaks PROVE holder'["llm"] = j
    OBVIOUS
  <2>2. holder["llm"] = j /\ x.kind = "llm" /\ "prompt" \in job[j].guarded
    BY <1>1, <1>2, <1>4, <2>1 DEF RunInv, HoldsPermit, FilesGuarded
  <2>3. Head(d) # "permit"
    BY <1>1, <1>2, <1>3, <2>2 DEF RunInv, FilesGuarded
  <2>4. QED
    BY <1>5, <2>2, <2>3
<1>8. PICK y \in Runs :
         /\ y = Over(x)
         /\ y.kind = x.kind /\ y.files = x.files /\ y.child = x.child /\ y.armed = FALSE
         /\ \/ x.drops # <<>> /\ y = x
            \/ /\ x.drops = <<>> /\ y.at = "done" /\ y.guarded = {} /\ y.write = <<>>
               /\ y.result = "none" /\ y.output = "none"
  <2>1. CASE x.drops # <<>>
    BY <1>1, <2>1 DEF Over
  <2>2. CASE x.drops = <<>>
    <3> DEFINE z == [Idle EXCEPT !.at = "done", !.kind = x.kind, !.files = x.files,
                                 !.child = x.child]
    <3>1. z \in Runs
      BY IdleIsRun DEF Idle, Runs, Ats
    <3>2. /\ z.kind = x.kind /\ z.files = x.files /\ z.child = x.child /\ z.armed = FALSE
          /\ z.at = "done" /\ z.guarded = {} /\ z.write = <<>> /\ z.result = "none"
          /\ z.output = "none"
      BY DEF Idle
    <3>3. Over(x) = z
      BY <2>2 DEF Over
    <3>4. QED
      BY <2>2, <3>1, <3>2, <3>3
  <2>3. QED
    BY <2>1, <2>2
<1>9. RunInv(j, y, loose, leaks)'
  <2>1. UnwindsInOrder(y)
    BY <1>1, <1>2, <1>3, <1>8 DEF RunInv, UnwindsInOrder
  <2>2. ChildGuarded(j, y, loose)'
    BY <1>1, <1>5, <1>8 DEF ChildGuarded
  <2>3. FilesGuarded(j, y, leaks)'
    BY <1>1, <1>4, <1>5, <1>8 DEF FilesGuarded
  <2>4. HoldsPermit(j, y, leaks)'
    BY <1>1, <1>5, <1>7, <1>8 DEF HoldsPermit
  <2>5. AnswersSeen(y)'
    BY <1>1, <1>2, <1>5, <1>8 DEF RunInv, AnswersSeen
  <2>6. QED
    BY <2>1, <2>2, <2>3, <2>4, <2>5 DEF RunInv, UnwindsInOrder
<1>10. Becomes(j, y)
    BY <1>1, <1>8
<1>11. /\ asked' \in BOOLEAN /\ prompted' \in BOOLEAN /\ loose' \cup leaks' \subseteq Jobs
       /\ loose \subseteq loose' /\ leaks \subseteq leaks' /\ (prompted => prompted')
       /\ (asked' => prompted')
    BY <1>5 DEF SidecarInv, SidecarShape
<1>12. QED
    BY <1>6, <1>9, <1>10, <1>11, StepKeeps

LEMMA SidecarInvInit == SidecarInit => SidecarInv
<1> SUFFICES ASSUME SidecarInit PROVE SidecarInv
    OBVIOUS
<1>1. SidecarShape
    BY IdleIsRun DEF SidecarInit, SidecarShape
<1>2. ASSUME NEW j \in Jobs PROVE RunInv(j, job[j], loose, leaks)
    BY DEF SidecarInit, Idle, RunInv, UnwindsInOrder, ChildGuarded, FilesGuarded, HoldsPermit,
       AnswersSeen, Uses
<1>3. QED
    BY <1>1, <1>2 DEF SidecarInit, SidecarInv

LEMMA SidecarInvNext ==
    ASSUME SidecarInv, [SidecarNext]_sidecarVars PROVE SidecarInv'
<1>1. CASE SidecarNext
  <2>1. PICK j \in Jobs :
           \/ \E kind \in Kinds : BeginRun(j, kind)
           \/ MakeWorkDir(j) \/ TakePermit(j) \/ OpenFile(j) \/ FileWritten(j)
           \/ SpawnChild(j) \/ Produce(j) \/ ChildExits(j) \/ OnTerminated(j)
           \/ StreamCloses(j) \/ RunFails(j) \/ ServerAnswers(j) \/ ReadJson(j)
           \/ ProbeEnds(j) \/ AbortRun(j) \/ DropNext(j)
    BY <1>1 DEF SidecarNext
  <2>2. QED
    BY <2>1, BeginRunKeeps, MakeWorkDirKeeps, TakePermitKeeps, OpenFileKeeps,
       FileWrittenKeeps, SpawnChildKeeps, ProduceKeeps, ChildExitsKeeps, OnTerminatedKeeps,
       StreamClosesKeeps, RunFailsKeeps, ServerAnswersKeeps, ReadJsonKeeps, ProbeEndsKeeps,
       AbortRunKeeps, DropNextKeeps
<1>2. CASE UNCHANGED sidecarVars
    BY <1>2 DEF sidecarVars, SidecarInv, SidecarShape, RunInv, UnwindsInOrder, ChildGuarded,
       FilesGuarded, HoldsPermit, AnswersSeen, Uses
<1>3. QED
    BY <1>1, <1>2

LEMMA SidecarsEndFollows == SidecarInv => SidecarsEnd
<1> SUFFICES ASSUME SidecarInv PROVE SidecarsEnd
    OBVIOUS
<1>1. \A j \in Jobs : job[j] \in Runs /\ RunInv(j, job[j], loose, leaks)
    BY JobOf
<1>2. SidecarTypeOK
    BY DEF SidecarInv, SidecarShape, SidecarTypeOK, Runs, Ats, Files
<1>3. NothingStays
    BY <1>1 DEF NothingStays, RunInv, ChildGuarded, FilesGuarded
<1>4. OneAtATime
  <2> SUFFICES ASSUME NEW j \in Jobs, NEW k \in Jobs, j # k, job[j].kind = job[k].kind,
                      job[j].kind \in Resources
               PROVE  /\ job[j].child = "running" /\ job[k].child = "running"
                           => {j, k} \cap loose # {}
                      /\ "prompt" \in job[j].files \cap job[k].files => {j, k} \cap leaks # {}
    BY DEF OneAtATime
  <2>1. job[j].kind \notin Probes /\ Uses(job[j]) = Uses(job[k])
    BY DEF Resources, Probes, Uses
  <2>2. /\ job[j].child = "running" /\ j \notin loose => holder[Uses(job[j])] = j
        /\ job[k].child = "running" /\ k \notin loose => holder[Uses(job[k])] = k
    BY <1>1, <2>1 DEF RunInv, ChildGuarded, HoldsPermit
  <2>3. /\ "prompt" \in job[j].files /\ j \notin leaks => holder["llm"] = j
        /\ "prompt" \in job[k].files /\ k \notin leaks => holder["llm"] = k
    BY <1>1 DEF RunInv, HoldsPermit
  <2>4. QED
    BY <2>1, <2>2, <2>3
<1>5. AnswersTrue
    BY <1>1 DEF AnswersTrue, SidecarInv, RunInv, AnswersSeen
<1>6. QED
    BY <1>2, <1>3, <1>4, <1>5 DEF SidecarsEnd

\* However a run of a sidecar ends, its process is dead and its files are gone, one
\* process works for a resource, and only a whole answer counts: for any runs.
THEOREM SidecarsEndHolds == SidecarSpec => []SidecarsEnd
<1>1. SidecarSpec => []SidecarInv
    BY SidecarInvInit, SidecarInvNext, PTL DEF SidecarSpec
<1>2. QED
    BY <1>1, SidecarsEndFollows, PTL

(***************************************************************************)
(* Provisioning: the models on disk.                                       *)
(***************************************************************************)
OnDisk == {"absent", "good", "bad"}
Verdicts == {"matches", "stale", "failed"}
MaybeModel == Models \cup {NoModel}
Loads == [at : {"idle", "lock", "fetch", "ok", "err"}, model : MaybeModel]
Ensures == [at : {"idle", "next", "load", "ok"}, todo : SUBSET Models, for : SUBSET Models,
            failed : BOOLEAN]
Checks == [at : {"next", "hash", "done"}, todo : SUBSET Models, model : MaybeModel,
           replaced : BOOLEAN]

ProvisionShape ==
    /\ chosenPreset \in ModelPresets
    /\ disk \in [Models -> OnDisk] /\ verdict \in [Models -> Verdicts]
    /\ legacy \in {"absent", "good"}
    /\ locks \in [Models -> Loaders \cup {"free"}]
    /\ loads \in [Loaders -> Loads]
    /\ \A l \in Loaders : loads[l].at # "idle" => loads[l].model \in Models
    /\ ensure \in Ensures /\ checking \in Checks
    /\ checking.at = "hash" => checking.model \in Models
    /\ freeing \subseteq Models /\ lost \subseteq Models

\* Who fetches a model has its lock, and the model is not there.
FetchesLocked ==
    \A l \in Loaders : loads[l].at = "fetch" =>
        locks[loads[l].model] = l /\ disk[loads[l].model] # "good"

\* What ensure_required has loaded is good, or was deleted since.
LoadedIsGood ==
    loads["ensure"].at = "ok" => disk[loads["ensure"].model] # "bad"

\* A model that ensure_required answers for is still to be loaded, or loaded at
\* this moment, or there, or it is known to be lost.
Answered(m) ==
    \/ m \in ensure.todo
    \/ /\ ensure.at = "load" /\ loads["ensure"].model = m
       /\ loads["ensure"].at = "ok" => disk[m] # "absent"
    \/ disk[m] # "absent" /\ verdict[m] # "failed"
EnsureAnswers == \A m \in ensure.for \ lost : Answered(m)
EnsureAtWork ==
    /\ ensure.at = "idle" => ensure.for = {}
    /\ ensure.at = "ok" => ensure.todo = {}
    /\ ensure.at = "load" => loads["ensure"].at # "idle"

\* A file that went bad is known to be, or the check will come to it.
BadIsFound ==
    \A m \in Models : disk[m] = "bad" =>
        /\ verdict[m] # "matches"
        /\ \/ verdict[m] = "failed" \/ m \in checking.todo
           \/ checking.at = "hash" /\ checking.model = m
        /\ checking.at = "done" => verdict[m] = "failed"

ProvisionInv ==
    /\ ProvisionShape /\ FetchesLocked /\ LoadedIsGood
    /\ EnsureAnswers /\ EnsureAtWork /\ BadIsFound

LEMMA RequiredAreModels ==
    /\ Base \in Models /\ NoModel \notin Models
    /\ \A p \in ModelPresets : Required(p) \subseteq Models
<1>1. ASSUME NEW p \in ModelPresets PROVE Own[p] \subseteq Models
    BY DEF Models
<1>2. QED
    BY <1>1, ProvisionAssumption DEF Models, Required

LEMMA ProvisionShapeInit == ProvisionInit => ProvisionShape
BY RequiredAreModels DEF ProvisionInit, ProvisionShape, NoLoad, NoEnsure, AllModels, OnDisk,
   Verdicts, MaybeModel, Loads, Ensures, Checks, Loaders

\* What an outdated verdict and a check that sees the file replaced are.
LEMMA OutdatedVerdict ==
    ASSUME ProvisionShape, NEW m \in Models
    PROVE  /\ Outdated(m) \in [Models -> Verdicts]
           /\ \A n \in Models : Outdated(m)[n] = "matches" => verdict[n] = "matches" /\ n # m
           /\ \A n \in Models : Outdated(m)[n] = "failed" <=> verdict[n] = "failed"
<1>1. verdict \in [Models -> Verdicts]
    BY DEF ProvisionShape
<1>2. CASE verdict[m] = "matches"
  <2>1. Outdated(m) = [verdict EXCEPT ![m] = "stale"]
    BY <1>2 DEF Outdated
  <2>2. QED
    BY <1>1, <1>2, <2>1 DEF Verdicts
<1>3. CASE verdict[m] # "matches"
  <2>1. Outdated(m) = verdict
    BY <1>3 DEF Outdated
  <2>2. QED
    BY <1>1, <1>3, <2>1
<1>4. QED
    BY <1>2, <1>3

LEMMA SeenReplaced ==
    ASSUME ProvisionShape, NEW m \in Models
    PROVE  /\ SeesReplaced(m) \in Checks
           /\ SeesReplaced(m).at = checking.at /\ SeesReplaced(m).model = checking.model
           /\ SeesReplaced(m).todo = checking.todo
<1>1. checking \in Checks /\ (checking.replaced \/ checking.model = m) \in BOOLEAN
    BY DEF ProvisionShape
<1>2. [checking EXCEPT !.replaced = checking.replaced \/ checking.model = m]
         = SeesReplaced(m)
    BY DEF SeesReplaced
<1>3. PICK b \in BOOLEAN : b = (checking.replaced \/ checking.model = m)
    BY <1>1
<1>4. [checking EXCEPT !.replaced = b] = SeesReplaced(m)
    BY <1>2, <1>3
<1>5. QED
    BY <1>1, <1>4 DEF Checks

LEMMA LoadOver ==
    ASSUME ProvisionShape, NEW l \in Loaders, NEW how \in {"ok", "err"}, LoadEnds(l, how)
    PROVE  /\ loads' \in [Loaders -> Loads]
           /\ \A k \in Loaders \ {l} : loads'[k] = loads[k]
           /\ l = "command" => loads'[l].at = "idle"
           /\ l = "ensure" => loads'[l].at = how /\ loads'[l].model = loads[l].model
BY DEF ProvisionShape, LoadEnds, NoLoad, Loads, MaybeModel, Loaders

LEMMA LoadBegins ==
    ASSUME ProvisionShape, NEW l \in Loaders, NEW m \in Models, BeginLoad(l, m)
    PROVE  /\ loads' \in [Loaders -> Loads] /\ loads'[l].at = "lock" /\ loads'[l].model = m
           /\ \A k \in Loaders \ {l} : loads'[k] = loads[k]
BY DEF ProvisionShape, BeginLoad, Loads, MaybeModel

\* The step that takes a model out of a set takes one of the set.
LEMMA EnsureTakes ==
    ASSUME ProvisionShape, EnsureNext
    PROVE  \E m \in ensure.todo :
              /\ m \in Models /\ BeginLoad("ensure", m)
              /\ ensure' \in Ensures /\ ensure'.at = "load" /\ ensure'.todo = ensure.todo \ {m}
              /\ ensure'.for = ensure.for
<1> DEFINE m == CHOOSE c \in ensure.todo : TRUE
<1>1. ensure \in Ensures
    BY DEF ProvisionShape
<1>2. m \in ensure.todo /\ m \in Models
    BY <1>1 DEF EnsureNext, Ensures
<1>3. BeginLoad("ensure", m) /\ ensure' = [ensure EXCEPT !.at = "load", !.todo = @ \ {m}]
    BY DEF EnsureNext
<1>4. QED
    BY <1>1, <1>2, <1>3 DEF Ensures

LEMMA CheckTakes ==
    ASSUME ProvisionShape, CheckNext
    PROVE  \E m \in checking.todo :
              /\ m \in Models /\ checking' \in Checks /\ checking'.todo = checking.todo \ {m}
              /\ \/ checking'.at = "hash" /\ checking'.model = m
                 \/ /\ disk[m] = "absent" \/ verdict[m] = "matches"
                    /\ checking'.at = "next"
<1> DEFINE m == CHOOSE c \in checking.todo : TRUE
           h == [at |-> "hash", todo |-> checking.todo \ {m}, model |-> m, replaced |-> FALSE]
           n == [checking EXCEPT !.todo = @ \ {m}]
<1>1. checking \in Checks /\ checking.at = "next"
    BY DEF ProvisionShape, CheckNext
<1>2. m \in checking.todo /\ m \in Models
    BY <1>1 DEF CheckNext, Checks
<1>3. /\ h \in Checks /\ h.at = "hash" /\ h.model = m /\ h.todo = checking.todo \ {m}
      /\ n \in Checks /\ n.at = "next" /\ n.todo = checking.todo \ {m}
    BY <1>1, <1>2 DEF Checks, MaybeModel
<1>4. checking' = IF PresentBySize(m) /\ verdict[m] # "matches" THEN h ELSE n
    BY DEF CheckNext
<1>5. QED
    BY <1>2, <1>3, <1>4 DEF PresentBySize

LEMMA Migrates ==
    ASSUME NEW d \in [Models -> OnDisk], legacy \in {"absent", "good"}, Migrated(d)
    PROVE  /\ disk' \in [Models -> OnDisk] /\ legacy' \in {"absent", "good"}
           /\ \A m \in Models : disk'[m] = "bad" => d[m] = "bad"
BY RequiredAreModels DEF Migrated, OnDisk

LEMMA LostGrows ==
    ASSUME ProvisionShape, NEW m \in Models
    PROVE  /\ LostNow(m) \subseteq Models /\ lost \subseteq LostNow(m)
           /\ m \in ensure.for => m \in LostNow(m)
BY DEF ProvisionShape, LostNow

\* The removal of a file, by the user or for its room.
LEMMA RemovedShape ==
    ASSUME ProvisionShape, NEW m \in Models, Removed(m)
    PROVE  /\ disk' \in [Models -> OnDisk] /\ disk'[m] = "absent"
           /\ \A n \in Models \ {m} : disk'[n] = disk[n]
           /\ verdict' = Outdated(m) /\ verdict' \in [Models -> Verdicts]
           /\ checking' = SeesReplaced(m) /\ checking' \in Checks
           /\ lost' = LostNow(m) /\ lost' \subseteq Models
BY OutdatedVerdict, SeenReplaced, LostGrows DEF ProvisionShape, Removed, OnDisk

LEMMA ProvisionShapeNext ==
    ASSUME ProvisionShape, [ProvisionNext]_provisionVars PROVE ProvisionShape'
<1>1. CASE ChoosePreset
    BY <1>1 DEF ChoosePreset, ProvisionShape
<1>2. ASSUME NEW m \in Models, CommandDownload(m) PROVE ProvisionShape'
    BY <1>2, LoadBegins DEF CommandDownload, ProvisionShape, Loaders
<1>3. ASSUME NEW m \in Models, CommandDelete(m) \/ FreeOne(m) PROVE ProvisionShape'
  <2>1. freeing' \subseteq Models /\ Removed(m)
    BY <1>3 DEF CommandDelete, FreeOne, ProvisionShape
  <2>2. UNCHANGED <<chosenPreset, legacy, locks, loads, ensure>>
    BY <1>3 DEF CommandDelete, FreeOne
  <2>3. checking'.at = "hash" => checking'.model \in Models
    BY <2>1, RemovedShape, SeenReplaced DEF ProvisionShape
  <2>4. QED
    BY <2>1, <2>2, <2>3, RemovedShape DEF ProvisionShape
<1>4. ASSUME NEW l \in Loaders, LockModel(l) PROVE ProvisionShape'
  <2>1. loads[l].model \in Models
    BY <1>4 DEF LockModel, ProvisionShape
  <2>2. UNCHANGED <<chosenPreset, disk, verdict, legacy, ensure, freeing, checking, lost>>
    BY <1>4 DEF LockModel
  <2>3. CASE disk[loads[l].model] = "good"
    BY <1>4, <2>1, <2>2, <2>3, LoadOver DEF LockModel, ProvisionShape, Loaders
  <2>4. CASE disk[loads[l].model] # "good"
    BY <1>4, <2>1, <2>2, <2>4 DEF LockModel, ProvisionShape, Loads
  <2>5. QED
    BY <2>3, <2>4
<1>5. ASSUME NEW l \in Loaders, Fetch(l) PROVE ProvisionShape'
  <2>1. loads[l].model \in Models
    BY <1>5 DEF Fetch, ProvisionShape
  <2>2. locks' \in [Models -> Loaders \cup {"free"}]
    BY <1>5, <2>1 DEF Fetch, UnlockedModel, ProvisionShape
  <2>3. /\ loads' \in [Loaders -> Loads]
        /\ \A k \in Loaders : loads'[k].at # "idle" => loads'[k].model \in Models
    BY <1>5, <2>1, LoadOver DEF Fetch, ProvisionShape, Loaders
  <2>4. UNCHANGED <<chosenPreset, legacy, ensure, freeing, lost>>
    BY <1>5 DEF Fetch
  <2>5. CASE /\ disk' = [disk EXCEPT ![loads[l].model] = "good"]
             /\ verdict' = Outdated(loads[l].model)
             /\ checking' = SeesReplaced(loads[l].model)
    <3>1. disk' \in [Models -> OnDisk] /\ verdict' \in [Models -> Verdicts]
      BY <2>1, <2>5, OutdatedVerdict DEF ProvisionShape, OnDisk
    <3>2. checking' \in Checks /\ (checking'.at = "hash" => checking'.model \in Models)
      BY <2>1, <2>5, SeenReplaced DEF ProvisionShape
    <3>3. QED
      BY <2>2, <2>3, <2>4, <3>1, <3>2 DEF ProvisionShape
  <2>6. CASE UNCHANGED <<disk, verdict, checking>>
    BY <2>2, <2>3, <2>4, <2>6 DEF ProvisionShape
  <2>7. QED
    BY <1>5, <2>5, <2>6 DEF Fetch
<1>6. CASE BeginFree
    BY <1>6 DEF BeginFree, ProvisionShape, Removable
<1>7. CASE BeginEnsure
  <2>1. Required(chosenPreset) \subseteq Models /\ Missing(chosenPreset) \subseteq Models
    BY RequiredAreModels DEF ProvisionShape, Missing
  <2>2. ensure' \in Ensures
    BY <1>7, <2>1 DEF BeginEnsure, Ensures
  <2>3. QED
    BY <1>7, <2>2 DEF BeginEnsure, ProvisionShape
<1>8. CASE EnsureNext
  <2>1. UNCHANGED <<chosenPreset, disk, verdict, legacy, locks, freeing, checking, lost>>
    BY <1>8 DEF EnsureNext
  <2>2. PICK m \in Models : BeginLoad("ensure", m) /\ ensure' \in Ensures
    BY <1>8, EnsureTakes
  <2>3. /\ loads' \in [Loaders -> Loads]
        /\ \A k \in Loaders : loads'[k].at # "idle" => loads'[k].model \in Models
    BY <2>2, LoadBegins DEF ProvisionShape, Loaders
  <2>4. QED
    BY <2>1, <2>2, <2>3 DEF ProvisionShape
<1>9. CASE EnsureLoaded
  <2>1. loads["ensure"].model \in Models /\ "ensure" \in Loaders
    BY <1>9 DEF EnsureLoaded, ProvisionShape, Loaders
  <2>2. ensure' \in Ensures /\ lost' \subseteq Models
    <3>1. PICK m \in Models : m = loads["ensure"].model
        BY <2>1
    <3>2. ensure \in Ensures /\ lost \subseteq Models
        BY DEF ProvisionShape
    <3>3. lost' \subseteq Models
        BY <1>9, <3>1, <3>2 DEF EnsureLoaded
    <3>4. ensure' \in Ensures
        BY <1>9, <3>1, <3>2 DEF EnsureLoaded, Ensures
    <3>5. QED
        BY <3>3, <3>4
  <2>3. verdict' \in [Models -> Verdicts]
    BY <1>9, <2>1 DEF EnsureLoaded, ProvisionShape, Verdicts
  <2>4. /\ loads' \in [Loaders -> Loads]
        /\ \A k \in Loaders : loads'[k].at # "idle" => loads'[k].model \in Models
    BY <1>9, <2>1 DEF EnsureLoaded, ProvisionShape, NoLoad, Loads, MaybeModel
  <2>5. QED
    BY <1>9, <2>2, <2>3, <2>4 DEF EnsureLoaded, ProvisionShape
<1>10. CASE EnsureReturns \/ EnsureAgain
  <2>1. NoEnsure \in Ensures /\ [ensure EXCEPT !.at = "ok"] \in Ensures
    BY DEF ProvisionShape, Ensures, NoEnsure
  <2>2. ensure' \in Ensures
    BY <1>10, <2>1 DEF EnsureReturns, EnsureAgain
  <2>3. lost' \subseteq Models
    BY <1>10 DEF EnsureReturns, EnsureAgain, ProvisionShape
  <2>4. UNCHANGED <<chosenPreset, disk, verdict, legacy, locks, loads, freeing, checking>>
    BY <1>10 DEF EnsureReturns, EnsureAgain
  <2>5. QED
    BY <2>2, <2>3, <2>4 DEF ProvisionShape
<1>11. CASE CheckNext
  <2>1. UNCHANGED <<chosenPreset, disk, verdict, legacy, locks, loads, ensure, freeing, lost>>
    BY <1>11 DEF CheckNext
  <2>2. PICK m \in Models :
           /\ checking' \in Checks
           /\ checking'.at = "hash" => checking'.model = m
    BY <1>11, CheckTakes
  <2>3. QED
    BY <2>1, <2>2 DEF ProvisionShape
<1>12. CASE Checked
  <2>1. checking.model \in Models
    BY <1>12 DEF Checked, ProvisionShape
  <2>2. PICK v \in Verdicts : Verdict(v)
    BY <1>12, <2>1 DEF Checked, ProvisionShape, Verdicts
  <2>3. checking' \in Checks /\ checking'.at = "next"
    BY <2>2 DEF Verdict, ProvisionShape, Checks, MaybeModel
  <2>4. lost' \subseteq Models
    BY <2>1, <2>2, LostGrows DEF Verdict, ProvisionShape
  <2>5. QED
    BY <2>1, <2>2, <2>3, <2>4 DEF Verdict, ProvisionShape
<1>13. CASE CheckEnds
    BY <1>13 DEF CheckEnds, ProvisionShape, Checks
<1>14. CASE RestartEngine
  <2>1. PICK S \in SUBSET {m \in Models : disk[m] = "good"} :
           /\ Migrated([m \in Models |-> IF m \in S THEN "bad" ELSE disk[m]])
           /\ verdict' = [m \in Models |-> IF m \in S /\ verdict[m] = "matches" THEN "stale"
                                           ELSE verdict[m]]
    BY <1>14 DEF RestartEngine
  <2>2. disk' \in [Models -> OnDisk] /\ legacy' \in {"absent", "good"}
    BY <2>1, Migrates DEF ProvisionShape, OnDisk
  <2>3. verdict' \in [Models -> Verdicts]
    BY <2>1 DEF ProvisionShape, Verdicts
  <2>4. AllModels \in Checks /\ AllModels.at = "next" /\ NoEnsure \in Ensures /\ NoLoad \in Loads
    BY DEF AllModels, Checks, NoEnsure, Ensures, NoLoad, Loads, MaybeModel
  <2>5. NoLoad.at = "idle"
    BY DEF NoLoad
  <2>6. QED
    BY <1>14, <2>2, <2>3, <2>4, <2>5 DEF RestartEngine, ProvisionShape
<1>15. CASE UNCHANGED provisionVars
    BY <1>15 DEF provisionVars, ProvisionShape
<1>16. QED
    BY <1>1, <1>2, <1>3, <1>4, <1>5, <1>6, <1>7, <1>8, <1>9, <1>10, <1>11, <1>12, <1>13,
       <1>14, <1>15 DEF ProvisionNext

\* A step that leaves files, verdicts and downloads alone keeps what is known of
\* them.
LEMMA LoadsKeep ==
    ASSUME FetchesLocked, LoadedIsGood, UNCHANGED <<disk, locks, loads>>
    PROVE  FetchesLocked' /\ LoadedIsGood'
BY DEF FetchesLocked, LoadedIsGood

LEMMA EnsureKeeps ==
    ASSUME EnsureAnswers, EnsureAtWork, UNCHANGED <<disk, verdict, loads, ensure, lost>>
    PROVE  EnsureAnswers' /\ EnsureAtWork'
BY DEF EnsureAnswers, EnsureAtWork, Answered

LEMMA BadKeeps ==
    ASSUME BadIsFound, UNCHANGED <<disk, verdict, checking>> PROVE BadIsFound'
BY DEF BadIsFound

LEMMA RemovalKeeps ==
    ASSUME ProvisionInv, NEW m \in Models, CommandDelete(m) \/ FreeOne(m)
    PROVE  FetchesLocked' /\ LoadedIsGood' /\ EnsureAnswers' /\ EnsureAtWork' /\ BadIsFound'
<1>1. Removed(m) /\ UNCHANGED <<locks, loads, ensure>>
    BY DEF CommandDelete, FreeOne
<1>2. /\ disk'[m] = "absent" /\ \A n \in Models \ {m} : disk'[n] = disk[n]
      /\ \A n \in Models : verdict'[n] = "matches" => verdict[n] = "matches"
      /\ \A n \in Models : verdict'[n] = "failed" <=> verdict[n] = "failed"
      /\ checking'.at = checking.at /\ checking'.model = checking.model
      /\ checking'.todo = checking.todo
      /\ lost \subseteq lost' /\ (m \in ensure.for => m \in lost')
    BY <1>1, RemovedShape, OutdatedVerdict, SeenReplaced, LostGrows DEF ProvisionInv
<1>3. \A l \in Loaders : loads[l].at # "idle" => loads[l].model \in Models
    BY DEF ProvisionInv, ProvisionShape
<1>4. FetchesLocked' /\ LoadedIsGood'
    BY <1>1, <1>2, <1>3 DEF ProvisionInv, FetchesLocked, LoadedIsGood, Loaders
<1>5. EnsureAnswers'
  <2> SUFFICES ASSUME NEW n \in ensure.for \ lost' PROVE Answered(n)'
    BY <1>1 DEF EnsureAnswers
  <2>1. n # m /\ n \in Models /\ Answered(n)
    BY <1>2 DEF ProvisionInv, ProvisionShape, Ensures, EnsureAnswers
  <2>2. QED
    BY <1>1, <1>2, <2>1 DEF Answered
<1>6. EnsureAtWork'
    BY <1>1 DEF ProvisionInv, EnsureAtWork
<1>7. BadIsFound'
    BY <1>2 DEF ProvisionInv, BadIsFound
<1>8. QED
    BY <1>4, <1>5, <1>6, <1>7

LEMMA LockModelKeeps ==
    ASSUME ProvisionInv, NEW l \in Loaders, LockModel(l)
    PROVE  FetchesLocked' /\ LoadedIsGood' /\ EnsureAnswers' /\ EnsureAtWork' /\ BadIsFound'
<1> DEFINE m == loads[l].model
<1>1. UNCHANGED <<disk, verdict, ensure, checking, lost>>
    BY DEF LockModel
<1>2. /\ \A k \in Loaders \ {l} : loads'[k] = loads[k]
      /\ \/ /\ disk[m] = "good" /\ UNCHANGED locks
            /\ l = "command" => loads'[l].at = "idle"
            /\ l = "ensure" => loads'[l].at = "ok" /\ loads'[l].model = m
         \/ /\ disk[m] # "good" /\ loads'[l].at = "fetch" /\ loads'[l].model = m
            /\ locks' = [locks EXCEPT ![m] = l]
  <2>1. CASE disk[m] = "good"
    BY <2>1, LoadOver DEF ProvisionInv, LockModel
  <2>2. CASE disk[m] # "good"
    BY <2>2 DEF ProvisionInv, ProvisionShape, LockModel, Loads
  <2>3. QED
    BY <2>1, <2>2
<1>3. /\ m \in Models /\ locks[m] = "free" /\ loads[l].at = "lock"
      /\ locks \in [Models -> Loaders \cup {"free"}]
      /\ \A k \in Loaders : loads[k].at # "idle" => loads[k].model \in Models
      /\ l \in {"ensure", "command"} /\ "ensure" \in Loaders
    BY DEF ProvisionInv, ProvisionShape, LockModel, Loaders
<1> HIDE DEF m
<1>4. FetchesLocked'
  <2>1. SUFFICES ASSUME NEW k \in Loaders, loads'[k].at = "fetch"
                 PROVE  locks'[loads'[k].model] = k /\ disk[loads'[k].model] # "good"
    BY <1>1 DEF FetchesLocked
  <2>2. CASE k = l
    BY <1>2, <1>3, <2>1, <2>2
  <2>3. CASE k # l
    <3>1. /\ loads'[k] = loads[k] /\ locks[loads[k].model] = k
          /\ disk[loads[k].model] # "good"
      BY <1>2, <2>1, <2>3 DEF ProvisionInv, FetchesLocked
    <3>2. loads[k].model # m
      BY <1>3, <3>1 DEF Loaders
    <3>3. QED
      BY <1>2, <1>3, <2>1, <3>1, <3>2
  <2>4. QED
    BY <2>2, <2>3
<1>5. LoadedIsGood'
    BY <1>1, <1>2, <1>3 DEF ProvisionInv, LoadedIsGood
<1>6. EnsureAnswers'
  <2> SUFFICES ASSUME NEW n \in ensure.for \ lost PROVE Answered(n)'
    BY <1>1 DEF EnsureAnswers
  <2>1. Answered(n)
    BY DEF ProvisionInv, EnsureAnswers
  <2>2. CASE l = "ensure"
    BY <1>1, <1>2, <2>1, <2>2 DEF Answered, m
  <2>3. CASE l = "command"
    BY <1>1, <1>2, <1>3, <2>1, <2>3 DEF Answered
  <2>4. QED
    BY <1>3, <2>2, <2>3
<1>7. EnsureAtWork'
    BY <1>1, <1>2, <1>3 DEF ProvisionInv, EnsureAtWork
<1>8. QED
    BY <1>1, <1>4, <1>5, <1>6, <1>7, BadKeeps DEF ProvisionInv

LEMMA FetchKeeps ==
    ASSUME ProvisionInv, NEW l \in Loaders, Fetch(l)
    PROVE  FetchesLocked' /\ LoadedIsGood' /\ EnsureAnswers' /\ EnsureAtWork' /\ BadIsFound'
<1> DEFINE m == loads[l].model
<1>1. UNCHANGED <<ensure, lost>> /\ m \in Models /\ loads[l].at = "fetch" /\ locks[m] = l
    BY DEF Fetch, ProvisionInv, ProvisionShape, FetchesLocked
<1>2. PICK how \in {"ok", "err"} :
        /\ LoadEnds(l, how)
        /\ IF how = "ok"
           THEN /\ disk' = [disk EXCEPT ![m] = "good"]
                /\ verdict' = Outdated(m) /\ checking' = SeesReplaced(m)
           ELSE UNCHANGED <<disk, verdict, checking>>
    BY DEF Fetch
<1>3. /\ \A k \in Loaders \ {l} : loads'[k] = loads[k]
      /\ l = "command" => loads'[l].at = "idle"
      /\ l = "ensure" => loads'[l].at = how /\ loads'[l].model = m
    BY <1>2, LoadOver DEF ProvisionInv
<1>4. /\ disk \in [Models -> OnDisk] /\ locks \in [Models -> Loaders \cup {"free"}]
      /\ \A k \in Loaders : loads[k].at # "idle" => loads[k].model \in Models
      /\ l \in {"ensure", "command"} /\ "ensure" \in Loaders /\ ensure.for \subseteq Models
    BY DEF ProvisionInv, ProvisionShape, Loaders, Ensures
<1>5. /\ \A n \in Models \ {m} : disk'[n] = disk[n]
      /\ disk'[m] = IF how = "ok" THEN "good" ELSE disk[m]
      /\ \A n \in Models : verdict'[n] = "matches" => verdict[n] = "matches"
      /\ \A n \in Models : verdict'[n] = "failed" <=> verdict[n] = "failed"
      /\ checking'.at = checking.at /\ checking'.model = checking.model
      /\ checking'.todo = checking.todo
  <2>1. CASE how = "ok"
    BY <1>1, <1>2, <1>4, <2>1, OutdatedVerdict, SeenReplaced DEF ProvisionInv
  <2>2. CASE how = "err"
    BY <1>2, <1>4, <2>2
  <2>3. QED
    BY <1>2, <2>1, <2>2
<1>6. /\ locks'[m] = "free" /\ \A n \in Models \ {m} : locks'[n] = locks[n]
    BY <1>1, <1>4 DEF Fetch, UnlockedModel
<1> HIDE DEF m
<1>7. FetchesLocked'
  <2>1. SUFFICES ASSUME NEW k \in Loaders, loads'[k].at = "fetch"
                 PROVE  locks'[loads'[k].model] = k /\ disk'[loads'[k].model] # "good"
    BY DEF FetchesLocked
  <2>2. k # l
    BY <1>2, <1>3, <1>4, <2>1
  <2>3. /\ loads'[k] = loads[k] /\ locks[loads[k].model] = k
        /\ disk[loads[k].model] # "good" /\ loads[k].model \in Models
    BY <1>3, <1>4, <2>1, <2>2 DEF ProvisionInv, FetchesLocked
  <2>4. loads[k].model # m
    BY <1>1, <2>2, <2>3
  <2>5. QED
    BY <1>5, <1>6, <2>3, <2>4
<1>8. LoadedIsGood'
  <2>1. CASE l = "ensure"
    BY <1>3, <1>5, <2>1 DEF LoadedIsGood
  <2>2. CASE l = "command"
    BY <1>3, <1>4, <1>5, <2>2 DEF ProvisionInv, LoadedIsGood
  <2>3. QED
    BY <1>4, <2>1, <2>2
<1>9. EnsureAnswers'
  <2> SUFFICES ASSUME NEW n \in ensure.for \ lost PROVE Answered(n)'
    BY <1>1 DEF EnsureAnswers
  <2>1. Answered(n) /\ n \in Models
    BY <1>4 DEF ProvisionInv, EnsureAnswers
  <2>2. disk[n] # "absent" => disk'[n] # "absent"
    BY <1>5, <2>1
  <2>3. CASE l = "ensure"
    BY <1>1, <1>3, <1>5, <2>1, <2>2, <2>3 DEF Answered, m
  <2>4. CASE l = "command"
    BY <1>1, <1>3, <1>4, <1>5, <2>1, <2>2, <2>4 DEF Answered
  <2>5. QED
    BY <1>4, <2>3, <2>4
<1>10. EnsureAtWork'
    BY <1>1, <1>2, <1>3, <1>4 DEF ProvisionInv, EnsureAtWork
<1>11. BadIsFound'
  <2> SUFFICES ASSUME NEW n \in Models, disk'[n] = "bad"
               PROVE  /\ verdict'[n] # "matches"
                      /\ \/ verdict'[n] = "failed" \/ n \in checking'.todo
                         \/ checking'.at = "hash" /\ checking'.model = n
                      /\ checking'.at = "done" => verdict'[n] = "failed"
    BY DEF BadIsFound
  <2>1. disk[n] = "bad"
    BY <1>5
  <2>2. QED
    BY <1>5, <2>1 DEF ProvisionInv, BadIsFound
<1>12. QED
    BY <1>7, <1>8, <1>9, <1>10, <1>11

LEMMA EnsureStepKeeps ==
    ASSUME ProvisionInv, BeginEnsure \/ EnsureNext \/ EnsureReturns \/ EnsureAgain
    PROVE  FetchesLocked' /\ LoadedIsGood' /\ EnsureAnswers' /\ EnsureAtWork' /\ BadIsFound'
<1>1. UNCHANGED <<disk, verdict, locks, checking>>
    BY DEF BeginEnsure, EnsureNext, EnsureReturns, EnsureAgain
<1>2. BadIsFound'
    BY <1>1, BadKeeps DEF ProvisionInv
<1>3. CASE BeginEnsure
  <2>1. /\ ensure'.at = "next" /\ ensure'.todo = Missing(chosenPreset)
        /\ ensure'.for = Required(chosenPreset) /\ UNCHANGED loads
    BY <1>3 DEF BeginEnsure
  <2>2. EnsureAnswers'
    BY <1>1, <2>1 DEF EnsureAnswers, Answered, Missing, PresentBySize
  <2>3. EnsureAtWork'
    BY <2>1 DEF EnsureAtWork
  <2>4. QED
    BY <1>1, <1>2, <2>1, <2>2, <2>3, LoadsKeep DEF ProvisionInv
<1>4. CASE EnsureNext
  <2>1. PICK m \in ensure.todo :
           /\ m \in Models /\ BeginLoad("ensure", m)
           /\ ensure'.at = "load" /\ ensure'.todo = ensure.todo \ {m}
           /\ ensure'.for = ensure.for
    BY <1>4, EnsureTakes DEF ProvisionInv
  <2>2. /\ loads'["ensure"].at = "lock" /\ loads'["ensure"].model = m
        /\ \A k \in Loaders \ {"ensure"} : loads'[k] = loads[k]
    BY <2>1, LoadBegins DEF ProvisionInv, Loaders
  <2>3. FetchesLocked' /\ LoadedIsGood'
    BY <1>1, <2>2 DEF ProvisionInv, FetchesLocked, LoadedIsGood
  <2>4. UNCHANGED lost /\ ensure.at = "next"
    BY <1>4 DEF EnsureNext
  <2>5. EnsureAnswers'
    <3> SUFFICES ASSUME NEW n \in ensure.for \ lost PROVE Answered(n)'
      BY <2>1, <2>4 DEF EnsureAnswers
    <3>1. n \in ensure.todo \/ (disk[n] # "absent" /\ verdict[n] # "failed")
      BY <2>4 DEF ProvisionInv, EnsureAnswers, Answered
    <3>2. QED
      BY <1>1, <2>1, <2>2, <3>1 DEF Answered
  <2>6. EnsureAtWork'
    BY <2>1, <2>2 DEF EnsureAtWork
  <2>7. QED
    BY <1>2, <2>3, <2>5, <2>6
<1>5. CASE EnsureReturns
  <2>1. UNCHANGED loads /\ ensure.at = "next" /\ ensure.todo = {}
    BY <1>5 DEF EnsureReturns
  <2>2. FetchesLocked' /\ LoadedIsGood'
    BY <1>1, <2>1, LoadsKeep DEF ProvisionInv
  <2>3. CASE ensure' = NoEnsure
    BY <1>2, <2>2, <2>3 DEF NoEnsure, EnsureAnswers, EnsureAtWork
  <2>4. CASE ensure' = [ensure EXCEPT !.at = "ok"] /\ UNCHANGED lost
    <3>1. ensure'.at = "ok" /\ ensure'.todo = {} /\ ensure'.for = ensure.for
      BY <2>1, <2>4 DEF ProvisionInv, ProvisionShape, Ensures
    <3>2. EnsureAnswers'
      <4>1. UNCHANGED lost
        BY <2>4
      <4> SUFFICES ASSUME NEW n \in ensure.for \ lost PROVE Answered(n)'
        BY <3>1, <4>1 DEF EnsureAnswers
      <4>2. Answered(n) /\ ensure.at # "load" /\ n \notin ensure.todo
        BY <2>1 DEF ProvisionInv, EnsureAnswers
      <4>3. QED
        BY <1>1, <4>2 DEF Answered
    <3>3. EnsureAtWork'
      BY <3>1 DEF EnsureAtWork
    <3>4. QED
      BY <1>2, <2>2, <3>2, <3>3
  <2>5. QED
    BY <1>5, <2>3, <2>4 DEF EnsureReturns
<1>6. CASE EnsureAgain
  <2>1. ensure' = NoEnsure /\ UNCHANGED loads
    BY <1>6 DEF EnsureAgain
  <2>2. EnsureAnswers' /\ EnsureAtWork'
    BY <2>1 DEF NoEnsure, EnsureAnswers, EnsureAtWork
  <2>3. QED
    BY <1>1, <1>2, <2>1, <2>2, LoadsKeep DEF ProvisionInv
<1>7. QED
    BY <1>3, <1>4, <1>5, <1>6

LEMMA EnsureLoadedKeeps ==
    ASSUME ProvisionInv, EnsureLoaded
    PROVE  FetchesLocked' /\ LoadedIsGood' /\ EnsureAnswers' /\ EnsureAtWork' /\ BadIsFound'
<1> DEFINE m == loads["ensure"].model
<1>1. /\ UNCHANGED <<disk, locks, checking>> /\ ensure.at = "load"
      /\ loads' = [loads EXCEPT !["ensure"] = NoLoad]
    BY DEF EnsureLoaded
<1>2. /\ loads'["ensure"].at = "idle" /\ \A k \in Loaders \ {"ensure"} : loads'[k] = loads[k]
      /\ m \in Models /\ ensure \in Ensures /\ verdict \in [Models -> Verdicts]
    BY <1>1 DEF ProvisionInv, ProvisionShape, EnsureLoaded, NoLoad, Loads, Loaders
<1>3. FetchesLocked' /\ LoadedIsGood'
    BY <1>1, <1>2 DEF ProvisionInv, FetchesLocked, LoadedIsGood
<1>4. ensure'.at = "next"
    BY <1>2 DEF EnsureLoaded, Ensures
<1>5. EnsureAtWork'
    BY <1>4 DEF EnsureAtWork
<1>6. CASE loads["ensure"].at = "err"
  <2>1. ensure'.for = {} /\ UNCHANGED verdict
    BY <1>2, <1>6 DEF EnsureLoaded, Ensures
  <2>2. QED
    BY <1>1, <1>3, <1>5, <2>1, BadKeeps DEF ProvisionInv, EnsureAnswers
<1>7. CASE loads["ensure"].at = "ok"
  <2>1. /\ ensure'.for = ensure.for /\ ensure'.todo = ensure.todo /\ UNCHANGED lost
        /\ verdict' = [verdict EXCEPT ![m] = IF PresentBySize(m) THEN "matches" ELSE "stale"]
    BY <1>2, <1>7 DEF EnsureLoaded, Ensures
  <2>2. /\ verdict'[m] # "failed" /\ \A n \in Models \ {m} : verdict'[n] = verdict[n]
        /\ disk[m] # "bad"
    BY <1>2, <1>7, <2>1 DEF ProvisionInv, LoadedIsGood
  <2>3. EnsureAnswers'
    <3> SUFFICES ASSUME NEW n \in ensure.for \ lost PROVE Answered(n)'
      BY <2>1 DEF EnsureAnswers
    <3>1. /\ n \in Models
          /\ \/ n \in ensure.todo
             \/ m = n /\ disk[n] # "absent"
             \/ disk[n] # "absent" /\ verdict[n] # "failed"
      BY <1>2, <1>7 DEF ProvisionInv, EnsureAnswers, Answered, Ensures
    <3>2. QED
      BY <1>1, <2>1, <2>2, <3>1 DEF Answered
  <2>4. BadIsFound'
    BY <1>1, <2>2 DEF ProvisionInv, BadIsFound
  <2>5. QED
    BY <1>3, <1>5, <2>3, <2>4
<1>8. QED
    BY <1>6, <1>7 DEF EnsureLoaded

LEMMA CheckNextKeeps ==
    ASSUME ProvisionInv, CheckNext \/ CheckEnds
    PROVE  FetchesLocked' /\ LoadedIsGood' /\ EnsureAnswers' /\ EnsureAtWork' /\ BadIsFound'
<1>1. UNCHANGED <<disk, verdict, locks, loads, ensure, lost>> /\ checking.at = "next"
    BY DEF CheckNext, CheckEnds
<1>2. FetchesLocked' /\ LoadedIsGood' /\ EnsureAnswers' /\ EnsureAtWork'
    BY <1>1, LoadsKeep, EnsureKeeps DEF ProvisionInv
<1>3. \A n \in Models : disk[n] = "bad" =>
         verdict[n] # "matches" /\ (verdict[n] = "failed" \/ n \in checking.todo)
    BY <1>1 DEF ProvisionInv, BadIsFound
<1>4. CASE CheckNext
  <2>1. PICK m \in checking.todo :
              /\ checking'.todo = checking.todo \ {m}
              /\ \/ checking'.at = "hash" /\ checking'.model = m
                 \/ /\ disk[m] = "absent" \/ verdict[m] = "matches"
                    /\ checking'.at = "next"
    BY <1>4, CheckTakes DEF ProvisionInv
  <2>2. BadIsFound'
    BY <1>1, <1>3, <2>1 DEF BadIsFound
  <2>3. QED
    BY <1>2, <2>2
<1>5. CASE CheckEnds
  <2>1. checking.todo = {}
    BY <1>5 DEF CheckEnds
  <2>2. BadIsFound'
    BY <1>1, <1>3, <2>1 DEF BadIsFound
  <2>3. QED
    BY <1>2, <2>2
<1>6. QED
    BY <1>4, <1>5

LEMMA CheckedKeeps ==
    ASSUME ProvisionInv, Checked
    PROVE  FetchesLocked' /\ LoadedIsGood' /\ EnsureAnswers' /\ EnsureAtWork' /\ BadIsFound'
<1> DEFINE m == checking.model
<1>1. m \in Models /\ checking \in Checks /\ verdict \in [Models -> Verdicts]
    BY DEF ProvisionInv, ProvisionShape, Checked
<1>2. checking.at = "hash"
    BY DEF Checked
<1>3. PICK v \in Verdicts :
         /\ Verdict(v)
         /\ disk[m] = "bad" => v = "failed"
         /\ v = "matches" => disk[m] # "bad"
    BY <1>1 DEF Checked, Verdicts
<1>4. /\ UNCHANGED <<disk, locks, loads, ensure>>
      /\ verdict' = [verdict EXCEPT ![m] = v]
      /\ lost' = IF v = "failed" THEN LostNow(m) ELSE lost
      /\ checking'.at = "next" /\ checking'.todo = checking.todo
    BY <1>1, <1>3 DEF Verdict, Checks
<1>5. /\ verdict'[m] = v /\ \A n \in Models \ {m} : verdict'[n] = verdict[n]
    BY <1>1, <1>4
<1> HIDE DEF m
<1>6. FetchesLocked' /\ LoadedIsGood'
    BY <1>4, LoadsKeep DEF ProvisionInv
<1>7. EnsureAtWork'
    BY <1>4 DEF ProvisionInv, EnsureAtWork
<1>8. EnsureAnswers'
  <2> SUFFICES ASSUME NEW n \in ensure.for \ lost' PROVE Answered(n)'
    BY <1>4 DEF EnsureAnswers
  <2>1. n \in ensure.for \ lost /\ (v = "failed" => n # m) /\ n \in Models
    BY <1>1, <1>4, LostGrows DEF ProvisionInv, ProvisionShape, Ensures
  <2>2. Answered(n)
    BY <2>1 DEF ProvisionInv, EnsureAnswers
  <2>3. verdict'[n] = "failed" => verdict[n] = "failed"
    BY <1>5, <2>1
  <2>4. QED
    BY <1>4, <2>2, <2>3 DEF Answered
<1>9. BadIsFound'
    BY <1>2, <1>3, <1>4, <1>5 DEF ProvisionInv, BadIsFound, m
<1>10. QED
    BY <1>6, <1>7, <1>8, <1>9

LEMMA RestartEngineKeeps ==
    ASSUME ProvisionInv, RestartEngine
    PROVE  FetchesLocked' /\ LoadedIsGood' /\ EnsureAnswers' /\ EnsureAtWork' /\ BadIsFound'
<1>1. PICK S \in SUBSET {m \in Models : disk[m] = "good"} :
         /\ Migrated([m \in Models |-> IF m \in S THEN "bad" ELSE disk[m]])
         /\ verdict' = [m \in Models |-> IF m \in S /\ verdict[m] = "matches" THEN "stale"
                                         ELSE verdict[m]]
    BY DEF RestartEngine
<1> DEFINE d == [m \in Models |-> IF m \in S THEN "bad" ELSE disk[m]]
<1>2. d \in [Models -> OnDisk] /\ legacy \in {"absent", "good"}
    BY DEF ProvisionInv, ProvisionShape, OnDisk
<1>3. \A m \in Models : disk'[m] = "bad" => d[m] = "bad"
    BY <1>1, <1>2, Migrates
<1>4. \A m \in Models : disk'[m] = "bad" => verdict'[m] # "matches"
    BY <1>1, <1>3 DEF ProvisionInv, BadIsFound
<1>5. checking'.at = "next" /\ checking'.todo = Models
    BY DEF RestartEngine, AllModels
<1>6. BadIsFound'
    BY <1>4, <1>5 DEF BadIsFound
<1>7. FetchesLocked' /\ LoadedIsGood'
    BY DEF RestartEngine, NoLoad, FetchesLocked, LoadedIsGood, Loaders
<1>8. EnsureAnswers' /\ EnsureAtWork'
    BY DEF RestartEngine, NoEnsure, EnsureAnswers, EnsureAtWork
<1>9. QED
    BY <1>6, <1>7, <1>8

LEMMA ProvisionInvNext ==
    ASSUME ProvisionInv, [ProvisionNext]_provisionVars PROVE ProvisionInv'
<1>1. ProvisionShape'
    BY ProvisionShapeNext DEF ProvisionInv
<1>2. SUFFICES FetchesLocked' /\ LoadedIsGood' /\ EnsureAnswers' /\ EnsureAtWork' /\ BadIsFound'
    BY <1>1 DEF ProvisionInv
<1>3. CASE ChoosePreset \/ BeginFree \/ UNCHANGED provisionVars
  <2>1. UNCHANGED <<disk, verdict, locks, loads, ensure, checking, lost>>
    BY <1>3 DEF ChoosePreset, BeginFree, provisionVars
  <2>2. QED
    BY <2>1, LoadsKeep, EnsureKeeps, BadKeeps DEF ProvisionInv
<1>4. ASSUME NEW m \in Models, CommandDownload(m)
      PROVE  FetchesLocked' /\ LoadedIsGood' /\ EnsureAnswers' /\ EnsureAtWork' /\ BadIsFound'
  <2>1. /\ UNCHANGED <<disk, verdict, locks, ensure, checking, lost>>
        /\ loads'["command"].at = "lock" /\ loads'["ensure"] = loads["ensure"]
        /\ \A k \in Loaders \ {"command"} : loads'[k] = loads[k]
    BY <1>4, LoadBegins DEF ProvisionInv, CommandDownload, Loaders
  <2>2. FetchesLocked' /\ LoadedIsGood'
    BY <2>1 DEF ProvisionInv, FetchesLocked, LoadedIsGood
  <2>3. EnsureAnswers' /\ EnsureAtWork'
    BY <2>1 DEF ProvisionInv, EnsureAnswers, EnsureAtWork, Answered
  <2>4. QED
    BY <2>1, <2>2, <2>3, BadKeeps DEF ProvisionInv
<1>5. QED
    BY <1>3, <1>4, RemovalKeeps, LockModelKeeps, FetchKeeps, EnsureStepKeeps,
       EnsureLoadedKeeps, CheckNextKeeps, CheckedKeeps, RestartEngineKeeps DEF ProvisionNext

LEMMA ProvisionInvInit == ProvisionInit => ProvisionInv
<1> SUFFICES ASSUME ProvisionInit PROVE ProvisionInv
    OBVIOUS
<1>1. FetchesLocked /\ LoadedIsGood
    BY DEF ProvisionInit, NoLoad, FetchesLocked, LoadedIsGood, Loaders
<1>2. EnsureAnswers /\ EnsureAtWork
    BY DEF ProvisionInit, NoEnsure, EnsureAnswers, EnsureAtWork
<1>3. BadIsFound
    BY DEF ProvisionInit, BadIsFound
<1>4. QED
    BY <1>1, <1>2, <1>3, ProvisionShapeInit DEF ProvisionInv

LEMMA EngineSoundFollows == ProvisionInv => EngineSound
<1> SUFFICES ASSUME ProvisionInv PROVE EngineSound
    OBVIOUS
<1>1. ReadyIsSound
  <2> SUFFICES ASSUME checking.at = "done", Missing(chosenPreset) = {},
                      NEW m \in Required(chosenPreset)
               PROVE  disk[m] = "good"
    BY DEF ReadyIsSound, ReadyNow
  <2>1. m \in Models /\ disk \in [Models -> OnDisk]
    BY RequiredAreModels DEF ProvisionInv, ProvisionShape
  <2>2. disk[m] # "absent" /\ verdict[m] # "failed"
    BY DEF Missing, PresentBySize
  <2>3. QED
    BY <2>1, <2>2 DEF ProvisionInv, BadIsFound, OnDisk
<1>2. NoNeedlessFetch
    BY DEF ProvisionInv, FetchesLocked, NoNeedlessFetch
<1>3. EnsureKeepsWord
    BY DEF ProvisionInv, EnsureAnswers, EnsureAtWork, Answered, EnsureKeepsWord
<1>4. QED
    BY <1>1, <1>2, <1>3 DEF EngineSound

\* What the local engine says of the models on disk is true of them, whoever downloads,
\* removes and checks them meanwhile: for any presets and models.
THEOREM EngineSoundHolds == ProvisionSpec => []EngineSound
<1>1. ProvisionSpec => []ProvisionInv
    BY ProvisionInvInit, ProvisionInvNext, PTL DEF ProvisionSpec
<1>2. QED
    BY <1>1, EngineSoundFollows, PTL

(***************************************************************************)
(* CallDetect: the probe that suggests to record.                          *)
(***************************************************************************)
DetectShape ==
    /\ probe \in {"none", "starting", "running", "dead"}
    /\ childHeld \in BOOLEAN /\ dispatcher \in BOOLEAN
    /\ cooldownMin \in Cooldowns /\ minute \in Nat
    /\ handling \in Apps \cup {Never}
    /\ lastSuggested \in [Apps -> Nat \cup {Never}]
    /\ suggestions \in [Apps -> Seq(Nat)]

\* A probe that was acknowledged has its child until a disable takes it.
ChildKept == childHeld <=> probe \in {"running", "dead"}
\* A disable forgets what was suggested; else the last suggestion is remembered.
LastRemembered ==
    /\ ~childHeld => \A a \in Apps : suggestions[a] = <<>>
    /\ \A a \in Apps : suggestions[a] # <<>> =>
          lastSuggested[a] = suggestions[a][Len(suggestions[a])]

DetectInv ==
    /\ DetectShape /\ ChildKept /\ NoOrphanProbe /\ LastRemembered /\ OnePerCooldown

LEMMA NothingSuggested ==
    /\ NoSuggestion \in [Apps -> Nat \cup {Never}]
    /\ [a \in Apps |-> <<>>] \in [Apps -> Seq(Nat)]
<1>1. <<>> \in Seq(Nat)
    OBVIOUS
<1>2. QED
    BY <1>1 DEF NoSuggestion

LEMMA DetectInvInit == DetectInit => DetectInv
<1> SUFFICES ASSUME DetectInit PROVE DetectInv
    OBVIOUS
<1>1. cooldownMin \in Cooldowns
    BY DetectAssumption DEF DetectInit
<1>2. DetectShape
    BY <1>1, NothingSuggested DEF DetectInit, DetectShape
<1>3. ChildKept /\ NoOrphanProbe /\ LastRemembered
    BY DEF DetectInit, ChildKept, NoOrphanProbe, LastRemembered
<1>4. OnePerCooldown
    BY DEF DetectInit, OnePerCooldown
<1>5. QED
    BY <1>2, <1>3, <1>4 DEF DetectInv

\* A suggestion that the cooldown allows comes late enough after the one before it.
LEMMA SuggestKeeps ==
    ASSUME DetectInv, Suggest PROVE LastRemembered' /\ OnePerCooldown' /\ DetectShape'
<1> DEFINE a == handling
           s == suggestions[a]
<1>1. /\ dispatcher /\ probe = "running" /\ childHeld /\ a \in Apps
      /\ UNCHANGED <<probe, childHeld, dispatcher, cooldownMin, recordingOn, minute>>
      /\ handling' = Never
    BY DEF Suggest, DetectInv, DetectShape, NoOrphanProbe
<1>2. CASE ~CooledDown(a)
  <2>1. UNCHANGED <<lastSuggested, suggestions>>
    BY <1>2 DEF Suggest
  <2>2. QED
    BY <1>1, <2>1 DEF DetectInv, DetectShape, LastRemembered, OnePerCooldown
<1>3. CASE CooledDown(a)
  <2>1. /\ lastSuggested' = [lastSuggested EXCEPT ![a] = minute]
        /\ suggestions' = [suggestions EXCEPT ![a] = Append(@, minute)]
    BY <1>3 DEF Suggest
  <2>2. minute \in Nat /\ s \in Seq(Nat) /\ Append(s, minute) \in Seq(Nat)
    BY <1>1 DEF DetectInv, DetectShape
  <2>3. /\ suggestions'[a] = Append(s, minute)
        /\ \A b \in Apps \ {a} : suggestions'[b] = suggestions[b]
        /\ lastSuggested'[a] = minute
        /\ \A b \in Apps \ {a} : lastSuggested'[b] = lastSuggested[b]
    BY <1>1, <2>1 DEF DetectInv, DetectShape
  <2>4. DetectShape'
    BY <1>1, <2>1, <2>2 DEF DetectInv, DetectShape
  <2>5. /\ Len(Append(s, minute)) = Len(s) + 1 /\ Append(s, minute)[Len(s) + 1] = minute
        /\ \A i \in 1..Len(s) : Append(s, minute)[i] = s[i]
        /\ Len(s) \in Nat /\ (s = <<>> <=> Len(s) = 0)
    BY <2>2
  <2>6. LastRemembered'
    BY <1>1, <2>3, <2>5 DEF DetectInv, LastRemembered
  <2>7. ASSUME s # <<>>
        PROVE  \E c \in Cooldowns : minute - s[Len(s)] >= c
    <3>1. lastSuggested[a] = s[Len(s)] /\ s[Len(s)] \in Nat
      BY <1>1, <2>2, <2>5, <2>7 DEF DetectInv, LastRemembered
    <3>2. QED
      BY <1>3, <3>1, DetectAssumption DEF CooledDown, DetectInv, DetectShape
  <2>8. OnePerCooldown'
    <3> SUFFICES ASSUME NEW b \in Apps, NEW i \in 2..Len(suggestions'[b])
                 PROVE  \E c \in Cooldowns : suggestions'[b][i] - suggestions'[b][i - 1] >= c
      BY DEF OnePerCooldown
    <3>1. CASE b # a
      BY <2>3, <3>1 DEF DetectInv, OnePerCooldown
    <3>2. CASE b = a /\ i <= Len(s)
      <4>1. /\ i \in 2..Len(s) /\ i \in 1..Len(s) /\ i - 1 \in 1..Len(s)
        BY <2>5, <3>2
      <4>2. \E c \in Cooldowns : s[i] - s[i - 1] >= c
        BY <1>1, <4>1 DEF DetectInv, OnePerCooldown
      <4>3. QED
        BY <2>3, <2>5, <3>2, <4>1, <4>2
    <3>3. CASE b = a /\ i > Len(s)
      <4>1. i = Len(s) + 1 /\ i - 1 = Len(s) /\ Len(s) \in 1..Len(s) /\ s # <<>>
        BY <2>3, <2>5, <3>3
      <4>2. QED
        BY <2>3, <2>5, <2>7, <3>3, <4>1
    <3>4. QED
      BY <2>5, <3>1, <3>2, <3>3
  <2>9. QED
    BY <2>4, <2>6, <2>8
<1>4. QED
    BY <1>2, <1>3

LEMMA DetectInvNext ==
    ASSUME DetectInv, [DetectNext]_detectVars PROVE DetectInv'
<1>1. CASE Suggest
  <2>1. ChildKept' /\ NoOrphanProbe'
    BY <1>1 DEF Suggest, DetectInv, ChildKept, NoOrphanProbe
  <2>2. QED
    BY <1>1, <2>1, SuggestKeeps DEF DetectInv
<1>2. CASE \/ EnableAgain \/ EnableBegins \/ EnableFails \/ ProbeDies \/ RecordingToggles
           \/ MinutePasses \/ (\E a \in Apps : CallSuggested(a)) \/ UNCHANGED detectVars
  <2>1. UNCHANGED <<childHeld, lastSuggested, suggestions>>
    BY <1>2 DEF EnableAgain, EnableBegins, EnableFails, ProbeDies, RecordingToggles,
       MinutePasses, CallSuggested, detectVars
  <2>2. LastRemembered' /\ OnePerCooldown'
    BY <2>1 DEF DetectInv, LastRemembered, OnePerCooldown
  <2>3. /\ probe' \in {"none", "starting", "running", "dead"} /\ dispatcher' \in BOOLEAN
        /\ ChildKept' /\ NoOrphanProbe'
    <3>1. \/ UNCHANGED <<probe, dispatcher>>
          \/ /\ probe \in {"none", "starting"} /\ probe' \in {"none", "starting"}
             /\ UNCHANGED dispatcher
          \/ probe = "running" /\ probe' = "dead" /\ dispatcher' = FALSE
      BY <1>2 DEF EnableAgain, EnableBegins, EnableFails, ProbeDies, RecordingToggles,
         MinutePasses, CallSuggested, detectVars
    <3>2. probe' \in {"none", "starting", "running", "dead"} /\ dispatcher' \in BOOLEAN
      BY <3>1 DEF DetectInv, DetectShape
    <3>3. probe' \in {"running", "dead"} <=> probe \in {"running", "dead"}
      BY <3>1
    <3>4. ChildKept'
      BY <2>1, <3>3 DEF DetectInv, ChildKept
    <3>5. dispatcher' => dispatcher /\ probe' = probe
      BY <3>1 DEF DetectInv, NoOrphanProbe
    <3>6. NoOrphanProbe'
      BY <3>4, <3>5 DEF DetectInv, ChildKept, NoOrphanProbe
    <3>7. QED
      BY <3>2, <3>4, <3>6
  <2>4. /\ cooldownMin' \in Cooldowns /\ minute' \in Nat /\ handling' \in Apps \cup {Never}
    BY <1>2 DEF EnableAgain, EnableBegins, EnableFails, ProbeDies, RecordingToggles,
       MinutePasses, CallSuggested, detectVars, DetectInv, DetectShape
  <2>5. QED
    BY <2>1, <2>2, <2>3, <2>4 DEF DetectInv, DetectShape
<1>3. CASE EnableAcked
  <2>1. ~childHeld /\ UNCHANGED <<minute, handling, suggestions>> /\ cooldownMin' \in Cooldowns
    BY <1>3 DEF EnableAcked, DetectInv, ChildKept
  <2>2. \A a \in Apps : suggestions[a] = <<>>
    BY <2>1 DEF DetectInv, LastRemembered
  <2>3. DetectShape' /\ ChildKept' /\ NoOrphanProbe'
    BY <1>3, <2>1 DEF EnableAcked, NoSuggestion, DetectInv, DetectShape, ChildKept,
       NoOrphanProbe
  <2>4. LastRemembered' /\ OnePerCooldown'
    BY <2>1, <2>2 DEF LastRemembered, OnePerCooldown
  <2>5. QED
    BY <2>3, <2>4 DEF DetectInv
<1>4. CASE Disable
  <2>1. \A a \in Apps : suggestions'[a] = <<>>
    BY <1>4 DEF Disable
  <2>2. DetectShape' /\ ChildKept' /\ NoOrphanProbe'
    BY <1>4, NothingSuggested DEF Disable, DetectInv, DetectShape, ChildKept, NoOrphanProbe
  <2>3. LastRemembered' /\ OnePerCooldown'
    BY <2>1 DEF LastRemembered, OnePerCooldown
  <2>4. QED
    BY <2>2, <2>3 DEF DetectInv
<1>5. QED
    BY <1>1, <1>2, <1>3, <1>4 DEF DetectNext

\* The probe has a child by which it can be ended, and suggests an application once in a
\* cooldown: for any applications, cooldowns and length of time.
THEOREM ProbeKeptHolds == DetectSpec => []ProbeKept
<1>1. DetectSpec => []DetectInv
    BY DetectInvInit, DetectInvNext, PTL DEF DetectSpec
<1>2. DetectInv => ProbeKept
    BY DEF DetectInv, ProbeKept
<1>3. QED
    BY <1>1, <1>2, PTL

(***************************************************************************)
(* RecapGeneration: six writes with no transaction around them.            *)
(***************************************************************************)
WriterSteps == Passes \cup {"idle", "provider", "check", "write", "settle"}
WriterRecs == [at : WriterSteps, call : RecapCalls \cup {NoCall}, pipeline : BOOLEAN,
               gen : 0..MaxGen, chunk : Nat, try : Nat, good : SUBSET Nat,
               valid : SUBSET Nat, part : 0..FilePart, ok : BOOLEAN]

RecapShape ==
    /\ art \in [RecapCalls -> [Parts -> 0..MaxGen]]
    /\ banner \subseteq RecapCalls /\ torn \subseteq RecapCalls
    /\ lastEnd \in [RecapCalls -> {"none", "ok", "failed"}]
    /\ writer \in [Writers -> WriterRecs]
    /\ ticking \subseteq 1..begun /\ begun \in 0..MaxGen
    /\ targets \in [Bulks -> SUBSET RecapCalls]
    /\ bulkAt \in [Bulks -> {"off", "found", "run"}]
    /\ bulkCancel \in BOOLEAN /\ told \subseteq Bulks
    /\ written \in [Bulks -> SUBSET RecapCalls]

\* The generation a writer is at, which is over when it settles.
Generating(r) == r.at \notin {"idle", "settle"}
WriterSound(r) ==
    /\ r.at = "idle" <=> r.call = NoCall
    /\ IF Generating(r) THEN r.gen \in 1..begun ELSE r.gen = 0
    /\ r.good = r.valid
    /\ r.at = "write" => r.part \in Parts
WritersSound == \A w \in Writers : WriterSound(writer[w])

\* No generation is two writers', and a call that is not torn has one at a time.
GensApart ==
    \A w, v \in Writers : writer[w].gen = writer[v].gen => w = v \/ writer[w].gen = 0
OneWriter ==
    \A c \in RecapCalls \ torn : \A w, v \in Writers :
        writer[w].call = c /\ writer[v].call = c => w = v

\* The recap of a call that is not torn is of one generation; while it is being
\* written, the parts before the one at hand are of the new, the rest of one old.
Whole == Parts \ {TitlePart}
HalfWritten ==
    \A c \in RecapCalls \ torn :
        /\ (\A w \in Writers : writer[w].call = c => writer[w].at # "write")
              => \A p, q \in Whole : art[c][p] = art[c][q]
        /\ \A w \in Writers : writer[w].call = c /\ writer[w].at = "write" =>
              \A p, q \in Whole :
                 /\ p < writer[w].part => art[c][p] = writer[w].gen
                 /\ p >= writer[w].part /\ q >= writer[w].part => art[c][p] = art[c][q]

\* What is written is of a generation that was not blank; one that is not yet
\* written is in no recap.
ArtOfGens ==
    /\ blankGens \subseteq 1..begun
    /\ \A c \in RecapCalls, p \in Parts : art[c][p] <= begun /\ art[c][p] \notin blankGens
    /\ \A w \in Writers :
        /\ writer[w].gen \notin blankGens
        /\ Generating(writer[w]) /\ writer[w].at # "write" =>
              \A c \in RecapCalls, p \in Parts : art[c][p] # writer[w].gen

\* The run over the blank recaps works at one of those it found, which has none
\* but what was written since.
StillBlank(b, c) == c \in written[b] \/ art[c][FilePart] = 0
BulkInv ==
    /\ BulkKeepsToBlank /\ (told # {} => bulkCancel)
    /\ \A b \in Bulks :
        /\ bulkAt[b] # "run" => writer[b].at = "idle"
        /\ bulkAt[b] # "off" => \A c \in targets[b] : StillBlank(b, c)
        /\ Generating(writer[b]) =>
              writer[b].call \notin targets[b] /\ StillBlank(b, writer[b].call)

RecapInv ==
    /\ RecapShape /\ WritersSound /\ GensApart /\ OneWriter /\ HalfWritten
    /\ ArtOfGens /\ TickerEnds /\ BannerTells /\ BulkInv

LEMMA SetWriter ==
    ASSUME RecapShape, NEW w \in Writers, NEW x \in WriterRecs, Set(w, x)
    PROVE  /\ writer' \in [Writers -> WriterRecs] /\ writer'[w] = x
           /\ \A v \in Writers \ {w} : writer'[v] = writer[v]
BY DEF RecapShape, Set

LEMMA WriterIs ==
    ASSUME RecapShape, WritersSound, NEW w \in Writers
    PROVE  writer[w] \in WriterRecs /\ WriterSound(writer[w])
BY DEF RecapShape, WritersSound

LEMMA SomeParts ==
    /\ FilePart = 6 /\ ItemsPart = 1 /\ TitlePart = 4
    /\ \A p : p \in Parts <=> p \in 1..6
    /\ \A p \in Whole : p \in 1..6 /\ p # 4
    /\ FilePart \in Parts /\ ItemsPart \in Parts /\ FilePart \in Whole
BY DEF Parts, ItemsPart, DecisionsPart, QuestionsPart, TitlePart, MetaPart, FilePart, Whole

LEMMA IdleWriterIs ==
    /\ IdleWriter \in WriterRecs
    /\ IdleWriter.at = "idle" /\ IdleWriter.call = NoCall /\ IdleWriter.gen = 0
    /\ IdleWriter.good = {} /\ IdleWriter.valid = {} /\ IdleWriter.part = 0
BY RecapAssumption, SomeParts DEF IdleWriter, WriterRecs, WriterSteps

\* A writer that goes on with its generation and writes nothing, or gives it up.
Moves(w, x) ==
    /\ x.good = x.valid
    /\ \/ x.at = "idle" /\ x.call = NoCall /\ x.gen = 0
       \/ x.at = "settle" /\ x.call = writer[w].call /\ x.gen = 0
       \/ /\ Generating(x) /\ Generating(writer[w]) /\ writer[w].at # "write"
          /\ x.call = writer[w].call /\ x.gen = writer[w].gen
          /\ x.at = "write" => x.part = ItemsPart

\* It writes the parts of its call to the end, or leaves it torn; and a generation
\* that is known to be blank is over.
LEMMA MoveKeeps ==
    ASSUME RecapInv, NEW w \in Writers, NEW x \in WriterRecs, Set(w, x), Moves(w, x),
           writer[w].at # "idle", UNCHANGED <<art, begun>>, torn \subseteq torn',
           writer[w].at = "write" => writer[w].call \in torn',
           \/ UNCHANGED blankGens
           \/ /\ Generating(writer[w]) /\ writer[w].at # "write" /\ ~Generating(x)
              /\ blankGens' = blankGens \cup {writer[w].gen}
    PROVE  WritersSound' /\ GensApart' /\ OneWriter' /\ HalfWritten' /\ ArtOfGens'
<1>1. /\ writer'[w] = x /\ \A v \in Writers \ {w} : writer'[v] = writer[v]
      /\ \A v \in Writers : writer[v] \in WriterRecs /\ WriterSound(writer[v])
    BY SetWriter, WriterIs DEF RecapInv
<1>2. WriterSound(x)
    BY <1>1, SomeParts DEF Moves, WriterSound, Generating
<1>3. WritersSound'
  <2> SUFFICES ASSUME NEW v \in Writers PROVE WriterSound(writer[v])'
    BY DEF WritersSound
  <2>1. WriterSound(writer[v]) /\ WriterSound(x)
    BY <1>1, <1>2
  <2>2. writer'[v] = writer[v] \/ writer'[v] = x
    BY <1>1
  <2>3. QED
    BY <2>1, <2>2 DEF WriterSound, Generating
<1>4. x.gen = writer[w].gen \/ x.gen = 0
    BY DEF Moves
<1>5. GensApart'
    BY <1>1, <1>4 DEF RecapInv, GensApart
<1>6. /\ x.call = writer[w].call \/ x.call = NoCall
      /\ NoCall \notin RecapCalls
    BY RecapAssumption DEF Moves
<1>7. OneWriter'
    BY <1>1, <1>6 DEF RecapInv, OneWriter
<1>8. HalfWritten'
  <2> SUFFICES ASSUME NEW c \in RecapCalls \ torn'
      PROVE  /\ (\A v \in Writers : writer'[v].call = c => writer'[v].at # "write")
                    => \A p, q \in Whole : art[c][p] = art[c][q]
             /\ \A v \in Writers : writer'[v].call = c /\ writer'[v].at = "write" =>
                   \A p, q \in Whole :
                      /\ p < writer'[v].part => art[c][p] = writer'[v].gen
                      /\ p >= writer'[v].part /\ q >= writer'[v].part
                            => art[c][p] = art[c][q]
    BY DEF HalfWritten
  <2>1. /\ (\A v \in Writers : writer[v].call = c => writer[v].at # "write")
              => \A p, q \in Whole : art[c][p] = art[c][q]
        /\ \A v \in Writers : writer[v].call = c /\ writer[v].at = "write" =>
              \A p, q \in Whole :
                 /\ p < writer[v].part => art[c][p] = writer[v].gen
                 /\ p >= writer[v].part /\ q >= writer[v].part => art[c][p] = art[c][q]
    BY DEF RecapInv, HalfWritten
  <2>2. CASE writer[w].call = c
    <3>1. writer[w].at # "write" /\ \A v \in Writers : writer[v].call = c => v = w
      BY <2>2 DEF RecapInv, OneWriter
    <3>2. \A p, q \in Whole : art[c][p] = art[c][q]
      BY <2>1, <3>1
    <3>3. \A v \in Writers : writer'[v].call = c /\ writer'[v].at = "write" =>
             v = w /\ writer'[v].part = 1
      <4>1. x.at = "write" => x.part = 1
        BY SomeParts DEF Moves, Generating
      <4>2. \A v \in Writers \ {w} : writer'[v].call # c
        BY <1>1, <3>1
      <4>3. QED
        BY <1>1, <4>1, <4>2
    <3>4. \A p \in Whole : ~(p < 1)
      BY SomeParts
    <3>5. ASSUME NEW v \in Writers, writer'[v].call = c, writer'[v].at = "write",
                 NEW p \in Whole, NEW q \in Whole
          PROVE  /\ p < writer'[v].part => art[c][p] = writer'[v].gen
                 /\ p >= writer'[v].part /\ q >= writer'[v].part => art[c][p] = art[c][q]
      BY <3>2, <3>3, <3>4, <3>5
    <3>6. QED
      BY <3>2, <3>5
  <2>3. CASE writer[w].call # c
    <3>1. \A v \in Writers : writer'[v].call = c <=> writer[v].call = c
      BY <1>1, <1>6, <2>3
    <3>2. \A v \in Writers : writer[v].call = c => writer'[v] = writer[v]
      BY <1>1, <2>3
    <3>3. QED
      BY <2>1, <3>1, <3>2
  <2>4. QED
    BY <2>2, <2>3
<1>9. ArtOfGens'
  <2>1. blankGens' \subseteq 1..begun
    BY <1>1 DEF RecapInv, ArtOfGens, WriterSound
  <2>2. \A c \in RecapCalls, p \in Parts : art[c][p] <= begun /\ art[c][p] \notin blankGens'
    BY DEF RecapInv, ArtOfGens
  <2>3. ASSUME NEW v \in Writers PROVE writer'[v].gen \notin blankGens'
    <3>1. CASE UNCHANGED blankGens
      BY <1>1, <1>4, <2>1, <3>1 DEF RecapInv, ArtOfGens
    <3>2. CASE ~Generating(x) /\ blankGens' = blankGens \cup {writer[w].gen}
      <4>1. x.gen = 0
        BY <3>2 DEF Moves, Generating
      <4>2. v # w => writer[v].gen = 0 \/ writer[v].gen # writer[w].gen
        BY DEF RecapInv, GensApart
      <4>3. 0 \notin blankGens'
        BY <2>1
      <4>4. QED
        BY <1>1, <3>2, <4>1, <4>2, <4>3 DEF RecapInv, ArtOfGens
    <3>3. QED
      BY <3>1, <3>2
  <2>4. ASSUME NEW v \in Writers, Generating(writer'[v]), writer'[v].at # "write",
               NEW c \in RecapCalls, NEW p \in Parts
        PROVE  art[c][p] # writer'[v].gen
    <3>1. CASE v = w
      BY <1>1, <2>4, <3>1 DEF RecapInv, ArtOfGens, Moves, Generating
    <3>2. CASE v # w
      BY <1>1, <2>4, <3>2 DEF RecapInv, ArtOfGens
    <3>3. QED
      BY <3>1, <3>2
  <2>5. QED
    BY <2>1, <2>2, <2>3, <2>4 DEF ArtOfGens, Generating
<1>10. QED
    BY <1>3, <1>5, <1>7, <1>8, <1>9

LEMMA BeginKeeps ==
    ASSUME RecapInv, NEW w \in Writers, NEW c \in RecapCalls, NEW pipeline \in BOOLEAN,
           Begin(w, c, pipeline)
    PROVE  /\ WritersSound' /\ GensApart' /\ OneWriter' /\ HalfWritten' /\ ArtOfGens'
           /\ TickerEnds' /\ BannerTells'
           /\ \E x \in WriterRecs : Set(w, x) /\ x.call = c /\ x.at = "provider"
           /\ begun' \in 0..MaxGen /\ torn' \subseteq RecapCalls /\ banner' \subseteq RecapCalls
           /\ lastEnd' \in [RecapCalls -> {"none", "ok", "failed"}]
           /\ ticking' \subseteq 1..begun'
           /\ UNCHANGED <<art, blankGens>> /\ writer[w].at = "idle"
<1> DEFINE x == [IdleWriter EXCEPT !.at = "provider", !.call = c, !.pipeline = pipeline,
                                   !.gen = begun + 1]
<1>1. /\ writer[w].at = "idle" /\ begun < MaxGen /\ begun \in 0..MaxGen
      /\ begun' = begun + 1 /\ Set(w, x)
      /\ torn' = IF Busy(c) THEN torn \cup {c} ELSE torn
      /\ UNCHANGED <<art, ticking, blankGens, cutShort>>
    BY DEF Begin, RecapInv, RecapShape
<1>2. MaxGen \in Nat
    BY RecapAssumption
<1>3. /\ x \in WriterRecs /\ x.at = "provider" /\ x.call = c /\ x.gen = begun + 1
      /\ x.good = {} /\ x.valid = {}
  <2>1. PICK g \in 0..MaxGen : g = begun + 1
    BY <1>1, <1>2
  <2>2. PICK y : y = [IdleWriter EXCEPT !.at = "provider", !.call = c, !.pipeline = pipeline,
                                        !.gen = g]
    OBVIOUS
  <2>3. /\ y \in WriterRecs /\ y.at = "provider" /\ y.call = c /\ y.gen = g
        /\ y.good = {} /\ y.valid = {}
    BY <2>2, IdleWriterIs DEF WriterRecs, WriterSteps
  <2>4. x = y
    BY <2>1, <2>2
  <2>5. QED
    BY <2>1, <2>3, <2>4
<1> HIDE DEF x
<1>4. /\ writer'[w] = x /\ \A v \in Writers \ {w} : writer'[v] = writer[v]
      /\ \A v \in Writers : writer[v] \in WriterRecs /\ WriterSound(writer[v])
    BY <1>1, <1>3, SetWriter, WriterIs DEF RecapInv
<1>5. \A v \in Writers : writer[v].gen \in 0..begun /\ writer[v].gen # x.gen
    BY <1>1, <1>3, <1>4 DEF WriterSound
<1>6. WritersSound'
  <2> SUFFICES ASSUME NEW v \in Writers PROVE WriterSound(writer[v])'
    BY DEF WritersSound
  <2>1. CASE v = w
    <3>1. x.call # NoCall /\ begun + 1 \in 1..begun'
      BY <1>1, <1>2, <1>3, RecapAssumption
    <3>2. QED
      BY <1>3, <1>4, <2>1, <3>1 DEF WriterSound, Generating
  <2>2. CASE v # w
    <3>1. 1..begun \subseteq 1..begun'
      BY <1>1, <1>2
    <3>2. writer'[v] = writer[v] /\ WriterSound(writer[v])
      BY <1>4, <2>2
    <3>3. QED
      BY <3>1, <3>2 DEF WriterSound, Generating
  <2>3. QED
    BY <2>1, <2>2
<1>7. GensApart'
    BY <1>4, <1>5 DEF RecapInv, GensApart
<1>8. writer[w].call = NoCall /\ NoCall \notin RecapCalls
    BY <1>1, <1>4, RecapAssumption DEF WriterSound
<1>9. \A d \in RecapCalls \ torn' :
          d \notin torn /\ (d = c => \A v \in Writers : writer[v].call # d)
    BY <1>1 DEF Busy
<1>10. OneWriter'
    BY <1>3, <1>4, <1>9 DEF RecapInv, OneWriter
<1>11. HalfWritten'
  <2> SUFFICES ASSUME NEW d \in RecapCalls \ torn'
      PROVE  /\ (\A v \in Writers : writer'[v].call = d => writer'[v].at # "write")
                    => \A p, q \in Whole : art[d][p] = art[d][q]
             /\ \A v \in Writers : writer'[v].call = d /\ writer'[v].at = "write" =>
                   \A p, q \in Whole :
                      /\ p < writer'[v].part => art[d][p] = writer'[v].gen
                      /\ p >= writer'[v].part /\ q >= writer'[v].part
                            => art[d][p] = art[d][q]
    BY <1>1 DEF HalfWritten
  <2>1. /\ (\A v \in Writers : writer[v].call = d => writer[v].at # "write")
              => \A p, q \in Whole : art[d][p] = art[d][q]
        /\ \A v \in Writers : writer[v].call = d /\ writer[v].at = "write" =>
              \A p, q \in Whole :
                 /\ p < writer[v].part => art[d][p] = writer[v].gen
                 /\ p >= writer[v].part /\ q >= writer[v].part => art[d][p] = art[d][q]
    BY <1>9 DEF RecapInv, HalfWritten
  <2>2. /\ writer'[w].at # "write" /\ writer[w].at # "write"
        /\ \A v \in Writers \ {w} : writer'[v] = writer[v]
    BY <1>1, <1>3, <1>4
  <2>3. (\A v \in Writers : writer'[v].call = d => writer'[v].at # "write")
              => \A v \in Writers : writer[v].call = d => writer[v].at # "write"
    BY <2>2
  <2>4. ASSUME NEW v \in Writers, writer'[v].at = "write"
        PROVE  writer'[v] = writer[v]
    BY <2>2, <2>4
  <2>5. QED
    BY <2>1, <2>3, <2>4
<1>12. ArtOfGens'
  <2>1. blankGens' \subseteq 1..begun'
    BY <1>1 DEF RecapInv, ArtOfGens
  <2>2. \A d \in RecapCalls, p \in Parts :
           /\ art[d][p] \in 0..MaxGen /\ art[d][p] <= begun /\ art[d][p] \notin blankGens
    BY DEF RecapInv, ArtOfGens, RecapShape
  <2>3. \A v \in Writers : writer'[v].gen \notin blankGens'
    BY <1>1, <1>3, <1>4 DEF RecapInv, ArtOfGens
  <2>4. ASSUME NEW v \in Writers, Generating(writer'[v]), writer'[v].at # "write",
               NEW d \in RecapCalls, NEW p \in Parts
        PROVE  art[d][p] # writer'[v].gen
    <3>1. CASE v = w
      BY <1>1, <1>3, <1>4, <2>2, <3>1
    <3>2. CASE v # w
      BY <1>4, <2>4, <3>2 DEF RecapInv, ArtOfGens
    <3>3. QED
      BY <3>1, <3>2
  <2>5. \A d \in RecapCalls, p \in Parts : art'[d][p] <= begun' /\ art'[d][p] \notin blankGens'
    BY <1>1, <2>2
  <2>6. QED
    BY <1>1, <2>1, <2>3, <2>4, <2>5 DEF ArtOfGens, Generating
<1>13. TickerEnds'
    BY <1>1, <1>4 DEF RecapInv, TickerEnds, Passes
<1>14. /\ BannerTells' /\ banner' \subseteq RecapCalls
       /\ lastEnd' \in [RecapCalls -> {"none", "ok", "failed"}]
    BY DEF Begin, RecapInv, RecapShape, BannerTells
<1>15. torn' \subseteq RecapCalls /\ ticking' \subseteq 1..begun' /\ begun' \in 0..MaxGen
    BY <1>1, <1>2 DEF RecapInv, RecapShape
<1>16. QED
    BY <1>1, <1>3, <1>6, <1>7, <1>10, <1>11, <1>12, <1>13, <1>14, <1>15

\* One of the six writes: the new generation has one part more.
LEMMA WritePartKeeps ==
    ASSUME RecapInv, NEW w \in Writers, WritePart(w)
    PROVE  /\ WritersSound' /\ GensApart' /\ OneWriter' /\ HalfWritten' /\ ArtOfGens'
           /\ art' \in [RecapCalls -> [Parts -> 0..MaxGen]]
           /\ \E x \in WriterRecs :
                 /\ Set(w, x) /\ x.call = writer[w].call /\ x.good = x.valid
                 /\ writer[w].part = FilePart => x.at = "settle"
                 /\ writer[w].part # FilePart => x.at = "write" /\ x.gen = writer[w].gen
<1> DEFINE c == writer[w].call
           k == writer[w].part
           g == writer[w].gen
           x == NextPart(w)
<1>1. /\ writer[w].at = "write" /\ Set(w, x)
      /\ \/ art' = [art EXCEPT ![c][k] = g]
         \/ k = TitlePart /\ UNCHANGED art
      /\ UNCHANGED <<torn, begun, blankGens>>
    BY DEF WritePart
<1>2. \A v \in Writers : writer[v] \in WriterRecs /\ WriterSound(writer[v])
    BY WriterIs DEF RecapInv
<1>3. /\ c \in RecapCalls /\ k \in Parts /\ k \in 1..6 /\ g \in 1..begun /\ g \in 0..MaxGen
      /\ writer[w] \in WriterRecs /\ writer[w].good = writer[w].valid
    BY <1>1, <1>2, SomeParts DEF WriterSound, Generating, WriterRecs
<1>4. \/ /\ k = 6 /\ x \in WriterRecs /\ x.at = "settle" /\ x.call = c /\ x.gen = 0
         /\ x.good = x.valid
      \/ /\ k \in 1..5 /\ x \in WriterRecs /\ x.at = "write" /\ x.call = c /\ x.gen = g
         /\ x.part = k + 1 /\ x.good = x.valid
  <2>1. CASE k = 6
    <3>1. x = [IdleWriter EXCEPT !.at = "settle", !.call = c, !.ok = TRUE]
      BY <2>1, SomeParts DEF NextPart, Settling
    <3>2. QED
      BY <1>3, <2>1, <3>1, IdleWriterIs DEF WriterRecs, WriterSteps
  <2>2. CASE k # 6
    <3>1. x = [writer[w] EXCEPT !.part = k + 1]
      BY <2>2, SomeParts DEF NextPart
    <3>2. PICK n \in 0..FilePart : n = k + 1
      BY <1>3, <2>2, SomeParts
    <3>3. QED
      BY <1>1, <1>3, <2>2, <3>1, <3>2 DEF WriterRecs, WriterSteps
  <2>3. QED
    BY <2>1, <2>2
<1>5. x \in WriterRecs
    BY <1>4
<1>6. /\ writer'[w] = x /\ \A v \in Writers \ {w} : writer'[v] = writer[v]
    BY <1>1, <1>5, SetWriter DEF RecapInv
<1>7. /\ art' \in [RecapCalls -> [Parts -> 0..MaxGen]]
      /\ \A d \in RecapCalls \ {c} : art'[d] = art[d]
      /\ \A p \in Parts \ {k} : art'[c][p] = art[c][p]
      /\ k # 4 => art'[c][k] = g
      /\ art'[c][k] = g \/ art'[c][k] = art[c][k]
  <2>1. /\ art \in [RecapCalls -> [Parts -> 0..MaxGen]] /\ art[c] \in [Parts -> 0..MaxGen]
        /\ TitlePart = 4
    BY <1>3, SomeParts DEF RecapInv, RecapShape
  <2>2. CASE art' = [art EXCEPT ![c][k] = g]
    <3>1. PICK row \in [Parts -> 0..MaxGen] : row = [art[c] EXCEPT ![k] = g]
      BY <1>3, <2>1
    <3>2. art' = [art EXCEPT ![c] = row]
      BY <2>2, <3>1
    <3>3. row[k] = g /\ \A p \in Parts \ {k} : row[p] = art[c][p]
      BY <1>3, <2>1, <3>1
    <3>4. /\ art' \in [RecapCalls -> [Parts -> 0..MaxGen]] /\ art'[c] = row
          /\ \A d \in RecapCalls \ {c} : art'[d] = art[d]
      BY <1>3, <2>1, <3>2
    <3>5. QED
      BY <3>3, <3>4
  <2>3. CASE k = TitlePart /\ UNCHANGED art
    BY <1>3, <2>1, <2>3
  <2>4. QED
    BY <1>1, <2>2, <2>3
<1> HIDE DEF c, k, g, x
<1>8. WritersSound'
  <2> SUFFICES ASSUME NEW v \in Writers PROVE WriterSound(writer[v])'
    BY DEF WritersSound
  <2>1. CASE v = w
    <3>1. c # NoCall
      BY <1>3, RecapAssumption
    <3>2. k \in 1..5 => k + 1 \in Parts
      BY SomeParts
    <3>3. QED
      BY <1>1, <1>3, <1>4, <1>6, <2>1, <3>1, <3>2 DEF WriterSound, Generating
  <2>2. CASE v # w
    <3>1. writer'[v] = writer[v] /\ WriterSound(writer[v]) /\ UNCHANGED begun
      BY <1>1, <1>2, <1>6, <2>2
    <3>2. QED
      BY <3>1 DEF WriterSound, Generating
  <2>3. QED
    BY <2>1, <2>2
<1>9. GensApart'
    BY <1>4, <1>6 DEF RecapInv, GensApart, g
<1>10. OneWriter'
    BY <1>1, <1>4, <1>6 DEF RecapInv, OneWriter, c
<1>11. HalfWritten'
  <2> SUFFICES ASSUME NEW d \in RecapCalls \ torn
      PROVE  /\ (\A v \in Writers : writer'[v].call = d => writer'[v].at # "write")
                    => \A p, q \in Whole : art'[d][p] = art'[d][q]
             /\ \A v \in Writers : writer'[v].call = d /\ writer'[v].at = "write" =>
                   \A p, q \in Whole :
                      /\ p < writer'[v].part => art'[d][p] = writer'[v].gen
                      /\ p >= writer'[v].part /\ q >= writer'[v].part
                            => art'[d][p] = art'[d][q]
    BY <1>1 DEF HalfWritten
  <2>1. CASE d = c
    <3>1. \A v \in Writers \ {w} : writer'[v].call # d
      BY <1>6, <2>1 DEF RecapInv, OneWriter, c
    <3>2. \A p, q \in Whole :
             /\ p < k => art[c][p] = g
             /\ p >= k /\ q >= k => art[c][p] = art[c][q]
      BY <1>1, <2>1 DEF RecapInv, HalfWritten, c, k, g
    <3>3. \A p \in Whole : p \in 1..6 /\ p # 4 /\ p \in Parts
      BY SomeParts
    <3>4. ASSUME NEW p \in Whole PROVE p <= k => art'[c][p] = g
      BY <1>3, <1>7, <3>2, <3>3
    <3>5. ASSUME NEW p \in Whole, p > k PROVE art'[c][p] = art[c][p]
      BY <1>3, <1>7, <3>3, <3>5
    <3>6. CASE k = 6
      <4>1. \A p \in Whole : art'[c][p] = g
        BY <3>3, <3>4, <3>6
      <4>2. x.at = "settle"
        BY <1>4, <3>6
      <4>3. QED
        BY <1>6, <2>1, <3>1, <4>1, <4>2
    <3>7. CASE k \in 1..5
      <4>1. x.at = "write" /\ x.gen = g /\ x.part = k + 1 /\ x.call = d
        BY <1>4, <2>1, <3>7
      <4>2. ASSUME NEW p \in Whole, NEW q \in Whole
            PROVE  /\ p < k + 1 => art'[c][p] = g
                   /\ p >= k + 1 /\ q >= k + 1 => art'[c][p] = art'[c][q]
        <5>1. p \in 1..6 /\ q \in 1..6
          BY <3>3
        <5>2. p < k + 1 => art'[c][p] = g
          BY <3>4, <3>7, <5>1
        <5>3. ASSUME p >= k + 1, q >= k + 1 PROVE art'[c][p] = art'[c][q]
          <6>1. p > k /\ q > k /\ p >= k /\ q >= k
            BY <3>7, <5>1, <5>3
          <6>2. QED
            BY <3>2, <3>5, <6>1
        <5>4. QED
          BY <5>2, <5>3
      <4>3. writer'[w].call = d /\ writer'[w].at = "write"
        BY <1>6, <4>1
      <4>4. QED
        BY <1>6, <2>1, <3>1, <4>1, <4>2, <4>3
    <3>8. QED
      BY <1>3, <3>6, <3>7
  <2>2. CASE d # c
    <3>1. /\ writer[w].call # d /\ writer'[w].call # d /\ art'[d] = art[d]
          /\ \A v \in Writers \ {w} : writer'[v] = writer[v]
      BY <1>4, <1>6, <1>7, <2>2 DEF c
    <3>2. \A v \in Writers : writer'[v].call = d => writer'[v] = writer[v]
      BY <3>1
    <3>3. \A v \in Writers : writer[v].call = d => writer'[v] = writer[v]
      BY <3>1
    <3>4. /\ (\A v \in Writers : writer[v].call = d => writer[v].at # "write")
                => \A p, q \in Whole : art[d][p] = art[d][q]
          /\ \A v \in Writers : writer[v].call = d /\ writer[v].at = "write" =>
                \A p, q \in Whole :
                   /\ p < writer[v].part => art[d][p] = writer[v].gen
                   /\ p >= writer[v].part /\ q >= writer[v].part => art[d][p] = art[d][q]
      BY DEF RecapInv, HalfWritten
    <3>5. QED
      BY <3>1, <3>2, <3>3, <3>4
  <2>3. QED
    BY <2>1, <2>2
<1>12. ArtOfGens'
  <2>1. g \notin blankGens /\ g <= begun
    BY <1>3 DEF RecapInv, ArtOfGens, g
  <2>2. \A d \in RecapCalls, p \in Parts : art'[d][p] = art[d][p] \/ art'[d][p] = g
    BY <1>3, <1>7
  <2>3. \A d \in RecapCalls, p \in Parts : art'[d][p] <= begun /\ art'[d][p] \notin blankGens
    BY <2>1, <2>2 DEF RecapInv, ArtOfGens
  <2>4. \A v \in Writers : writer'[v].gen \notin blankGens
    <3>1. 0 \notin blankGens
      BY DEF RecapInv, ArtOfGens, RecapShape
    <3>2. QED
      BY <1>4, <1>6, <2>1, <3>1 DEF RecapInv, ArtOfGens
  <2>5. ASSUME NEW v \in Writers, Generating(writer'[v]), writer'[v].at # "write",
               NEW d \in RecapCalls, NEW p \in Parts
        PROVE  art'[d][p] # writer'[v].gen
    <3>1. v # w
      BY <1>4, <1>6, <2>5 DEF Generating
    <3>2. /\ writer'[v] = writer[v] /\ art[d][p] # writer[v].gen
          /\ writer[v].gen \in 1..begun
      BY <1>2, <1>6, <2>5, <3>1 DEF RecapInv, ArtOfGens, WriterSound
    <3>3. writer[v].gen # g
      BY <3>1, <3>2 DEF RecapInv, GensApart, g
    <3>4. QED
      BY <2>2, <3>2, <3>3
  <2>6. QED
    BY <1>1, <2>3, <2>4, <2>5 DEF RecapInv, ArtOfGens, Generating
<1>13. \E y \in WriterRecs :
          /\ Set(w, y) /\ y.call = writer[w].call /\ y.good = y.valid
          /\ writer[w].part = FilePart => y.at = "settle"
          /\ writer[w].part # FilePart => y.at = "write" /\ y.gen = writer[w].gen
  <2>1. FilePart = 6
    BY SomeParts
  <2>2. QED
    BY <1>1, <1>4, <2>1 DEF c, k, g
<1>14. QED
    BY <1>7, <1>8, <1>9, <1>10, <1>11, <1>12, <1>13

\* What becomes of the tickers when a writer goes on or gives up.
TickerGoes(w, x) ==
    /\ cutShort \subseteq cutShort'
    /\ \/ /\ x.at \in Passes /\ x.gen = writer[w].gen
          /\ ticking' \subseteq ticking \cup {x.gen}
       \/ /\ ticking' \subseteq ticking
          /\ writer[w].at \in Passes => writer[w].gen \notin ticking' \ cutShort'

LEMMA TickerKeeps ==
    ASSUME RecapShape, TickerEnds, NEW w \in Writers, NEW x \in WriterRecs, Set(w, x),
           TickerGoes(w, x)
    PROVE  TickerEnds'
<1>1. writer'[w] = x /\ \A v \in Writers \ {w} : writer'[v] = writer[v]
    BY SetWriter
<1>2. SUFFICES ASSUME NEW g \in ticking' \ cutShort'
               PROVE  \E v \in Writers : writer'[v].gen = g /\ writer'[v].at \in Passes
    BY DEF TickerEnds
<1>3. CASE x.at \in Passes /\ x.gen = g
    BY <1>1, <1>3
<1>4. CASE ~(x.at \in Passes /\ x.gen = g)
  <2>1. g \in ticking \ cutShort
    BY <1>4 DEF TickerGoes
  <2>2. PICK v \in Writers : writer[v].gen = g /\ writer[v].at \in Passes
    BY <2>1 DEF TickerEnds
  <2>3. v # w
    BY <1>4, <2>2 DEF TickerGoes
  <2>4. QED
    BY <1>1, <2>2, <2>3
<1>5. QED
    BY <1>3, <1>4

MovesSo(w) == \E x \in WriterRecs : Set(w, x) /\ Moves(w, x) /\ TickerGoes(w, x)

LEMMA SettlingIs ==
    ASSUME NEW w \in Writers, writer[w].call \in RecapCalls, NEW ok \in BOOLEAN
    PROVE  /\ Settling(w, ok) \in WriterRecs /\ Settling(w, ok).at = "settle"
           /\ Settling(w, ok).call = writer[w].call /\ Settling(w, ok).gen = 0
           /\ Settling(w, ok).good = Settling(w, ok).valid
BY IdleWriterIs DEF Settling, WriterRecs, WriterSteps

LEMMA AfterChunkMoves ==
    ASSUME RecapInv, NEW w \in Writers, NEW good \in SUBSET Nat, writer[w].at = "model",
           AfterChunk(w, good, good), UNCHANGED cutShort
    PROVE  MovesSo(w)
<1>1. writer[w] \in WriterRecs /\ WriterSound(writer[w]) /\ writer[w].call \in RecapCalls
    BY WriterIs DEF RecapInv, WriterSound, WriterRecs
<1>2. CASE writer[w].chunk < Chunks(writer[w].call)
  <2> DEFINE x == [writer[w] EXCEPT !.chunk = @ + 1, !.try = 1, !.good = good, !.valid = good]
  <2>1. /\ x \in WriterRecs /\ x.at = "model" /\ x.call = writer[w].call
        /\ x.gen = writer[w].gen /\ x.good = x.valid
    <3>1. writer[w].chunk + 1 \in Nat /\ 1 \in Nat
      BY <1>1 DEF WriterRecs
    <3>2. QED
      BY <1>1, <3>1 DEF WriterRecs
  <2>2. Set(w, x) /\ UNCHANGED ticking
    BY <1>2 DEF AfterChunk
  <2>3. QED
    BY <2>1, <2>2 DEF MovesSo, Moves, TickerGoes, Generating, Passes
<1>3. CASE ~(writer[w].chunk < Chunks(writer[w].call)) /\ good = {}
  <2>1. Set(w, Settling(w, FALSE)) /\ ticking' = ticking \ {writer[w].gen}
    BY <1>3 DEF AfterChunk
  <2>2. QED
    BY <1>1, <2>1, SettlingIs DEF MovesSo, Moves, TickerGoes
<1>4. CASE ~(writer[w].chunk < Chunks(writer[w].call)) /\ good # {}
  <2> DEFINE x == [writer[w] EXCEPT !.at = "polish", !.chunk = 0, !.try = 0,
                                    !.good = good, !.valid = good]
  <2>1. /\ x \in WriterRecs /\ x.at = "polish" /\ x.call = writer[w].call
        /\ x.gen = writer[w].gen /\ x.good = x.valid
    BY <1>1 DEF WriterRecs, WriterSteps, Passes
  <2>2. Set(w, x) /\ UNCHANGED ticking
    BY <1>4 DEF AfterChunk
  <2>3. QED
    BY <1>1, <2>1, <2>2 DEF MovesSo, Moves, TickerGoes, Generating, Passes
<1>5. QED
    BY <1>2, <1>3, <1>4

LEMMA GeneratingMoves ==
    ASSUME RecapInv, NEW w \in Writers,
           \/ Provider(w) \/ Classify(w) \/ ValidAnswer(w) \/ BadAnswer(w) \/ PostPass(w)
           \/ Narrate(w) \/ CheckAnswer(w)
    PROVE  MovesSo(w)
<1>1. /\ writer[w] \in WriterRecs /\ WriterSound(writer[w])
      /\ writer[w].at # "idle" => writer[w].call \in RecapCalls
    BY WriterIs DEF RecapInv, WriterSound, WriterRecs
<1>2. CASE Provider(w)
  <2>1. CASE /\ Set(w, [writer[w] EXCEPT !.at = "classify", !.pipeline = FALSE])
             /\ ticking' = ticking \cup {writer[w].gen}
    <3> DEFINE x == [writer[w] EXCEPT !.at = "classify", !.pipeline = FALSE]
    <3>1. /\ x \in WriterRecs /\ x.at = "classify" /\ x.call = writer[w].call
          /\ x.gen = writer[w].gen /\ x.good = x.valid
      BY <1>1 DEF WriterRecs, WriterSteps, Passes, WriterSound
    <3>2. writer[w].at = "provider" /\ UNCHANGED cutShort
      BY <1>2 DEF Provider
    <3>3. QED
      BY <2>1, <3>1, <3>2 DEF MovesSo, Moves, TickerGoes, Generating, Passes
  <2>2. CASE /\ Set(w, IF writer[w].pipeline THEN IdleWriter ELSE Settling(w, FALSE))
             /\ UNCHANGED ticking
    <3>1. writer[w].at = "provider" /\ UNCHANGED cutShort
      BY <1>2 DEF Provider
    <3>2. CASE Set(w, IdleWriter)
      BY <2>2, <3>1, <3>2, IdleWriterIs DEF MovesSo, Moves, TickerGoes, Passes
    <3>3. CASE Set(w, Settling(w, FALSE))
      BY <1>1, <2>2, <3>1, <3>3, SettlingIs DEF MovesSo, Moves, TickerGoes, Passes
    <3>4. QED
      BY <2>2, <3>2, <3>3
  <2>3. QED
    BY <1>2, <2>1, <2>2 DEF Provider
<1>3. CASE Classify(w)
  <2> DEFINE x == [writer[w] EXCEPT !.at = "model", !.chunk = 1, !.try = 1]
  <2>1. /\ x \in WriterRecs /\ x.at = "model" /\ x.call = writer[w].call
        /\ x.gen = writer[w].gen /\ x.good = x.valid
    BY <1>1 DEF WriterRecs, WriterSteps, Passes, WriterSound
  <2>2. Set(w, x) /\ UNCHANGED <<ticking, cutShort>> /\ writer[w].at = "classify"
    BY <1>3 DEF Classify
  <2>3. QED
    BY <2>1, <2>2 DEF MovesSo, Moves, TickerGoes, Generating, Passes
<1>4. CASE ValidAnswer(w)
  <2> DEFINE good == writer[w].good \cup {writer[w].chunk}
  <2>1. good \in SUBSET Nat /\ writer[w].valid = writer[w].good
    BY <1>1 DEF WriterRecs, WriterSound
  <2>2. /\ AfterChunk(w, writer[w].good \cup {writer[w].chunk},
                         writer[w].valid \cup {writer[w].chunk})
        /\ writer[w].at = "model" /\ UNCHANGED cutShort
    BY <1>4 DEF ValidAnswer
  <2>3. AfterChunk(w, good, good)
    BY <2>1, <2>2
  <2>4. QED
    BY <2>1, <2>2, <2>3, AfterChunkMoves
<1>5. CASE BadAnswer(w)
  <2>1. writer[w].at = "model" /\ UNCHANGED cutShort
    BY <1>5 DEF BadAnswer
  <2>2. CASE Set(w, [writer[w] EXCEPT !.try = @ + 1]) /\ UNCHANGED ticking
    <3> DEFINE x == [writer[w] EXCEPT !.try = @ + 1]
    <3>1. writer[w].try + 1 \in Nat
      BY <1>1 DEF WriterRecs
    <3>2. /\ x \in WriterRecs /\ x.at = "model" /\ x.call = writer[w].call
          /\ x.gen = writer[w].gen /\ x.good = x.valid
      BY <1>1, <2>1, <3>1 DEF WriterRecs, WriterSound
    <3>3. QED
      BY <2>1, <2>2, <3>2 DEF MovesSo, Moves, TickerGoes, Generating, Passes
  <2>3. CASE AfterChunk(w, writer[w].good, writer[w].valid)
    <3>1. writer[w].good \in SUBSET Nat /\ writer[w].valid = writer[w].good
      BY <1>1 DEF WriterRecs, WriterSound
    <3>2. AfterChunk(w, writer[w].good, writer[w].good)
      BY <2>3, <3>1
    <3>3. QED
      BY <2>1, <3>1, <3>2, AfterChunkMoves
  <2>4. QED
    BY <1>5, <2>2, <2>3 DEF BadAnswer
<1>6. CASE PostPass(w)
  <2> DEFINE x == [writer[w] EXCEPT !.at = "narrate"]
  <2>1. /\ x \in WriterRecs /\ x.at = "narrate" /\ x.call = writer[w].call
        /\ x.gen = writer[w].gen /\ x.good = x.valid
    BY <1>1 DEF WriterRecs, WriterSteps, Passes, WriterSound
  <2>2. Set(w, x) /\ UNCHANGED <<ticking, cutShort>> /\ writer[w].at = "polish"
    BY <1>6 DEF PostPass
  <2>3. QED
    BY <2>1, <2>2 DEF MovesSo, Moves, TickerGoes, Generating, Passes
<1>7. CASE Narrate(w)
  <2> DEFINE x == [writer[w] EXCEPT !.at = "check"]
  <2>1. /\ x \in WriterRecs /\ x.at = "check" /\ x.call = writer[w].call
        /\ x.gen = writer[w].gen /\ x.good = x.valid
    BY <1>1 DEF WriterRecs, WriterSteps, WriterSound
  <2>2. /\ Set(w, x) /\ ticking' = ticking \ {writer[w].gen} /\ UNCHANGED cutShort
        /\ writer[w].at = "narrate"
    BY <1>7 DEF Narrate
  <2>3. QED
    BY <2>1, <2>2 DEF MovesSo, Moves, TickerGoes, Generating
<1>8. CASE CheckAnswer(w)
  <2>1. writer[w].at = "check" /\ UNCHANGED <<ticking, cutShort>>
    BY <1>8 DEF CheckAnswer
  <2>2. CASE Set(w, [writer[w] EXCEPT !.at = "write", !.good = {}, !.valid = {},
                                      !.part = ItemsPart])
    <3> DEFINE x == [writer[w] EXCEPT !.at = "write", !.good = {}, !.valid = {},
                                      !.part = ItemsPart]
    <3>1. ItemsPart \in 0..FilePart
      BY SomeParts
    <3>2. /\ x \in WriterRecs /\ x.at = "write" /\ x.call = writer[w].call
          /\ x.gen = writer[w].gen /\ x.good = x.valid /\ x.part = ItemsPart
      BY <1>1, <3>1 DEF WriterRecs, WriterSteps
    <3>3. QED
      BY <2>1, <2>2, <3>2 DEF MovesSo, Moves, TickerGoes, Generating, Passes
  <2>3. CASE Set(w, Settling(w, FALSE))
    BY <1>1, <2>1, <2>3, SettlingIs DEF MovesSo, Moves, TickerGoes, Passes
  <2>4. QED
    BY <1>8, <2>2, <2>3 DEF CheckAnswer
<1>9. QED
    BY <1>2, <1>3, <1>4, <1>5, <1>6, <1>7, <1>8

LEMMA EndingMoves ==
    ASSUME RecapInv, NEW w \in Writers,
           \/ WriteFails(w) \/ Settle(w) \/ (CutShort(w) /\ UNCHANGED ticking)
    PROVE  MovesSo(w)
<1>1. writer[w] \in WriterRecs /\ WriterSound(writer[w])
    BY WriterIs DEF RecapInv
<1>2. CASE WriteFails(w)
  <2>1. writer[w].at = "write" /\ UNCHANGED <<ticking, cutShort>> /\ Set(w, Settling(w, FALSE))
    BY <1>2 DEF WriteFails
  <2>2. writer[w].call \in RecapCalls
    BY <1>1, <2>1 DEF WriterSound, WriterRecs
  <2>3. QED
    BY <2>1, <2>2, SettlingIs DEF MovesSo, Moves, TickerGoes, Passes
<1>3. CASE Settle(w)
  <2>1. writer[w].at = "settle" /\ UNCHANGED <<ticking, cutShort>> /\ Set(w, IdleWriter)
    BY <1>3 DEF Settle
  <2>2. QED
    BY <2>1, IdleWriterIs DEF MovesSo, Moves, TickerGoes, Passes
<1>4. CASE CutShort(w) /\ UNCHANGED ticking
  <2>1. /\ cutShort' = cutShort \cup ({writer[w].gen} \cap ticking) /\ UNCHANGED ticking
        /\ Set(w, IdleWriter)
    BY <1>4 DEF CutShort
  <2>2. QED
    BY <2>1, IdleWriterIs DEF MovesSo, Moves, TickerGoes
<1>5. QED
    BY <1>2, <1>3, <1>4

\* The registry of the run over all: what a move of a writer leaves as it is.
LEMMA BulkMoves ==
    ASSUME RecapInv, NEW w \in Writers, NEW x \in WriterRecs, Set(w, x), Moves(w, x),
           writer[w].at # "idle",
           UNCHANGED <<art, targets, bulkCancel, written, told, misdeeds>>,
           \/ UNCHANGED bulkAt
           \/ w \in Bulks /\ bulkAt' = [bulkAt EXCEPT ![w] = "off"] /\ x.at = "idle"
    PROVE  BulkInv'
<1>1. writer'[w] = x /\ \A v \in Writers \ {w} : writer'[v] = writer[v]
    BY SetWriter DEF RecapInv
<1>2. BulkKeepsToBlank' /\ (told' # {} => bulkCancel')
    BY DEF RecapInv, BulkInv, BulkKeepsToBlank
<1>3. ASSUME NEW b \in Bulks
      PROVE  /\ bulkAt'[b] # "run" => writer'[b].at = "idle"
             /\ bulkAt'[b] # "off" => \A c \in targets[b] : StillBlank(b, c)
             /\ Generating(writer'[b]) =>
                   writer'[b].call \notin targets[b] /\ StillBlank(b, writer'[b].call)
  <2>1. b \in Writers
    BY DEF Writers
  <2>2. /\ bulkAt[b] # "run" => writer[b].at = "idle"
        /\ bulkAt[b] # "off" => \A c \in targets[b] : StillBlank(b, c)
        /\ Generating(writer[b]) =>
              writer[b].call \notin targets[b] /\ StillBlank(b, writer[b].call)
    BY DEF RecapInv, BulkInv
  <2>3. \/ bulkAt'[b] = bulkAt[b]
        \/ b = w /\ bulkAt'[b] = "off" /\ writer'[b].at = "idle"
    BY <1>1 DEF RecapInv, RecapShape
  <2>4. CASE b = w
    <3>1. Generating(x) => Generating(writer[w]) /\ x.call = writer[w].call
      BY DEF Moves, Generating
    <3>2. bulkAt[b] = "run"
      BY <2>2, <2>4
    <3>3. QED
      BY <1>1, <2>2, <2>3, <2>4, <3>1, <3>2
  <2>5. CASE b # w
    BY <1>1, <2>1, <2>2, <2>3, <2>5
  <2>6. QED
    BY <2>4, <2>5
<1>4. \A b \in Bulks, c \in RecapCalls \cup {NoCall} : StillBlank(b, c)' <=> StillBlank(b, c)
    BY DEF StillBlank
<1>5. /\ \A b \in Bulks : targets[b] \subseteq RecapCalls
      /\ \A v \in Writers : writer'[v].call \in RecapCalls \cup {NoCall}
      /\ Bulks \subseteq Writers
    BY <1>1 DEF RecapInv, RecapShape, WriterRecs, Writers
<1>6. QED
    BY <1>2, <1>3, <1>4, <1>5 DEF BulkInv, StillBlank, Generating

\* A write puts the call on the list of every other run that is on.
LEMMA WritePartBulk ==
    ASSUME RecapInv, NEW w \in Writers, WritePart(w)
    PROVE  BulkInv' /\ written' \in [Bulks -> SUBSET RecapCalls]
<1> DEFINE c == writer[w].call
<1>1. PICK x \in WriterRecs :
         /\ Set(w, x) /\ x.call = c
         /\ writer[w].part = FilePart => x.at = "settle"
         /\ writer[w].part # FilePart => x.at = "write" /\ x.gen = writer[w].gen
    BY WritePartKeeps
<1>2. /\ writer'[w] = x /\ \A v \in Writers \ {w} : writer'[v] = writer[v]
      /\ writer[w] \in WriterRecs /\ WriterSound(writer[w])
      /\ writer[w].at = "write"
    BY <1>1, SetWriter, WriterIs DEF RecapInv, WritePart
<1>3. c \in RecapCalls /\ writer[w].part \in Parts
    BY <1>2 DEF WriterSound, WriterRecs
<1>4. /\ UNCHANGED <<targets, bulkAt, bulkCancel, told>>
      /\ written' = [b \in Bulks |-> IF b = w \/ bulkAt[b] = "off" THEN written[b]
                                     ELSE written[b] \cup {c}]
      /\ misdeeds' = IF w \in Bulks /\ art[c][FilePart] # 0 /\ c \notin written[w]
                     THEN misdeeds \cup {"replaced"} ELSE misdeeds
    BY DEF WritePart, Observe
<1>5. written' \in [Bulks -> SUBSET RecapCalls]
    BY <1>3, <1>4 DEF RecapInv, RecapShape
<1>6. /\ \A d \in RecapCalls \ {c} : art'[d] = art[d]
      /\ writer[w].part # FilePart => art'[c][FilePart] = art[c][FilePart]
  <2>1. FilePart \in Parts
    BY SomeParts
  <2>2. CASE art' = [art EXCEPT ![c][writer[w].part] = writer[w].gen]
    <3>1. art[c] \in [Parts -> 0..MaxGen] /\ art \in [RecapCalls -> [Parts -> 0..MaxGen]]
      BY <1>3 DEF RecapInv, RecapShape
    <3>2. art' = [art EXCEPT ![c] = [art[c] EXCEPT ![writer[w].part] = writer[w].gen]]
      BY <2>2
    <3>3. QED
      BY <1>3, <2>1, <3>1, <3>2
  <2>3. CASE UNCHANGED art
    BY <2>3
  <2>4. QED
    BY <2>2, <2>3 DEF WritePart
<1> HIDE DEF c
<1>7. Generating(writer[w]) /\ Bulks \subseteq Writers
    BY <1>2 DEF Generating, Writers
<1>8. \A b \in Bulks :
         /\ bulkAt[b] # "run" => writer[b].at = "idle"
         /\ bulkAt[b] # "off" => \A d \in targets[b] : StillBlank(b, d)
         /\ Generating(writer[b]) =>
               writer[b].call \notin targets[b] /\ StillBlank(b, writer[b].call)
    BY DEF RecapInv, BulkInv
<1>9. misdeeds' = misdeeds
  <2>1. w \in Bulks => StillBlank(w, c)
    BY <1>7, <1>8 DEF c
  <2>2. QED
    BY <1>4, <2>1 DEF StillBlank
<1>10. \A b \in Bulks \ {w}, d \in RecapCalls :
          bulkAt[b] # "off" /\ StillBlank(b, d) => StillBlank(b, d)'
  <2> SUFFICES ASSUME NEW b \in Bulks \ {w}, NEW d \in RecapCalls,
                      bulkAt[b] # "off", StillBlank(b, d)
               PROVE  d \in written'[b] \/ art'[d][FilePart] = 0
    BY DEF StillBlank
  <2>1. written'[b] = written[b] \cup {c}
    BY <1>4
  <2>2. QED
    BY <1>6, <2>1 DEF StillBlank
<1>11. w \in Bulks => \A d \in RecapCalls :
          d # c \/ writer[w].part # FilePart => (StillBlank(w, d) => StillBlank(w, d)')
    BY <1>4, <1>6 DEF StillBlank
<1>13. ASSUME NEW b \in Bulks
      PROVE  /\ bulkAt[b] # "run" => writer'[b].at = "idle"
             /\ bulkAt[b] # "off" => \A d \in targets[b] : StillBlank(b, d)'
             /\ Generating(writer'[b]) =>
                   writer'[b].call \notin targets[b]
  <2>1. targets[b] \subseteq RecapCalls
    BY DEF RecapInv, RecapShape
  <2>2. CASE b = w
    <3>1. c \notin targets[b] /\ bulkAt[b] = "run"
      BY <1>2, <1>7, <1>8, <2>2 DEF c
    <3>2. QED
      BY <1>1, <1>2, <1>8, <1>11, <2>1, <2>2, <3>1
  <2>3. CASE b # w
    BY <1>2, <1>7, <1>8, <1>10, <2>1, <2>3
  <2>4. QED
    BY <2>2, <2>3
<1>14. ASSUME NEW b \in Bulks, Generating(writer'[b])
       PROVE  \E d \in RecapCalls : writer'[b].call = d /\ StillBlank(b, d)'
  <2>1. CASE b = w
    <3>1. writer[w].part # FilePart
      BY <1>1, <1>2, <1>14, <2>1 DEF Generating
    <3>2. PICK d \in RecapCalls : d = c
      BY <1>3
    <3>3. writer'[b].call = d /\ StillBlank(w, d)
      BY <1>1, <1>2, <1>7, <1>8, <2>1, <3>2 DEF c
    <3>4. QED
      BY <1>11, <2>1, <3>1, <3>3
  <2>2. CASE b # w
    <3>1. /\ writer'[b] = writer[b] /\ WriterSound(writer[b]) /\ writer[b] \in WriterRecs
          /\ Generating(writer[b])
      BY <1>2, <1>7, <1>14, <2>2, WriterIs DEF RecapInv
    <3>2. writer[b].call \in RecapCalls /\ bulkAt[b] = "run"
      BY <1>8, <3>1 DEF WriterSound, WriterRecs, Generating
    <3>3. PICK d \in RecapCalls : d = writer[b].call
      BY <3>2
    <3>4. StillBlank(b, d)
      BY <1>8, <3>1, <3>3
    <3>5. QED
      BY <1>10, <2>2, <3>1, <3>2, <3>3, <3>4
  <2>3. QED
    BY <2>1, <2>2
<1>15. BulkInv'
  <2>1. BulkKeepsToBlank' /\ (told' # {} => bulkCancel')
    BY <1>4, <1>9 DEF RecapInv, BulkInv, BulkKeepsToBlank
  <2>2. ASSUME NEW b \in Bulks
        PROVE  /\ bulkAt'[b] # "run" => writer'[b].at = "idle"
               /\ bulkAt'[b] # "off" => \A d \in targets'[b] : StillBlank(b, d)'
               /\ Generating(writer'[b]) =>
                     /\ writer'[b].call \notin targets'[b]
                     /\ \E d \in RecapCalls : writer'[b].call = d /\ StillBlank(b, d)'
    BY <1>4, <1>13, <1>14
  <2>3. QED
    BY <2>1, <2>2 DEF BulkInv, StillBlank, Generating
<1>16. QED
    BY <1>5, <1>15

LEMMA TickingStays ==
    ASSUME RecapInv, NEW w \in Writers, NEW x \in WriterRecs, Moves(w, x), TickerGoes(w, x),
           UNCHANGED begun
    PROVE  ticking' \subseteq 1..begun'
<1>1. x.at \in Passes /\ x.gen = writer[w].gen => x.gen \in 1..begun
    BY WriterIs DEF RecapInv, WriterSound, Moves, Generating, Passes
<1>2. QED
    BY <1>1 DEF RecapInv, RecapShape, TickerGoes

\* The steps of a generation up to its first write.
LEMMA GeneratingKeeps ==
    ASSUME RecapInv, NEW w \in Writers,
           \/ Provider(w) \/ Classify(w) \/ ValidAnswer(w) \/ BadAnswer(w) \/ PostPass(w)
           \/ Narrate(w) \/ CheckAnswer(w)
    PROVE  RecapInv'
<1>1. PICK x \in WriterRecs : Set(w, x) /\ Moves(w, x) /\ TickerGoes(w, x)
    BY GeneratingMoves DEF MovesSo
<1>2. /\ UNCHANGED <<art, banner, torn, lastEnd, begun, cutShort>>
      /\ UNCHANGED <<targets, bulkAt, bulkCancel, written, told, misdeeds>>
    BY DEF Provider, Classify, ValidAnswer, BadAnswer, PostPass, Narrate, CheckAnswer,
       callVars, bulkVars
<1>3. Generating(writer[w]) /\ writer[w].at # "write" /\ writer[w].at # "idle"
    BY DEF Provider, Classify, ValidAnswer, BadAnswer, PostPass, Narrate, CheckAnswer,
       Generating
<1>4. /\ writer' \in [Writers -> WriterRecs] /\ writer'[w] = x
    BY <1>1, SetWriter DEF RecapInv
<1>5. \/ UNCHANGED blankGens
      \/ ~Generating(x) /\ blankGens' = blankGens \cup {writer[w].gen}
  <2>1. CASE CheckAnswer(w) /\ Set(w, Settling(w, FALSE))
    <3>1. writer[w].call \in RecapCalls
      BY <1>3, WriterIs DEF RecapInv, WriterSound, WriterRecs
    <3>2. Settling(w, FALSE) \in WriterRecs /\ Settling(w, FALSE).at = "settle"
      BY <3>1, SettlingIs
    <3>3. writer'[w] = Settling(w, FALSE)
      BY <2>1, <3>2, SetWriter DEF RecapInv
    <3>4. ~Generating(x)
      BY <1>4, <3>2, <3>3 DEF Generating
    <3>5. QED
      BY <2>1, <3>4 DEF CheckAnswer
  <2>2. CASE ~(CheckAnswer(w) /\ Set(w, Settling(w, FALSE)))
    BY <2>2 DEF Provider, Classify, ValidAnswer, BadAnswer, PostPass, Narrate, CheckAnswer
  <2>3. QED
    BY <2>1, <2>2
<1>6. WritersSound' /\ GensApart' /\ OneWriter' /\ HalfWritten' /\ ArtOfGens'
    BY <1>1, <1>2, <1>3, <1>5, MoveKeeps
<1>7. TickerEnds'
    BY <1>1, TickerKeeps DEF RecapInv
<1>8. BannerTells'
    BY <1>2 DEF RecapInv, BannerTells
<1>9. BulkInv'
    BY <1>1, <1>2, <1>3, BulkMoves
<1>10. RecapShape'
  <2>1. ticking' \subseteq 1..begun'
    BY <1>1, <1>2, TickingStays
  <2>2. QED
    BY <1>2, <1>4, <2>1 DEF RecapInv, RecapShape
<1>11. QED
    BY <1>6, <1>7, <1>8, <1>9, <1>10 DEF RecapInv

\* A write that fails, the banner, and a generation that is cut short.
LEMMA EndingKeeps ==
    ASSUME RecapInv, NEW w \in Writers, writer[w].at # "idle",
           \/ WriteFails(w) \/ Settle(w) \/ Panics(w) \/ (w = "task" /\ AbortTask)
    PROVE  RecapInv'
<1>1. \/ WriteFails(w) \/ Settle(w) \/ (CutShort(w) /\ UNCHANGED ticking)
    BY DEF Panics, AbortTask, CutShort
<1>2. PICK x \in WriterRecs : Set(w, x) /\ Moves(w, x) /\ TickerGoes(w, x)
    BY <1>1, EndingMoves DEF MovesSo
<1>3. /\ writer' \in [Writers -> WriterRecs] /\ writer'[w] = x
      /\ writer[w] \in WriterRecs /\ WriterSound(writer[w])
    BY <1>2, SetWriter, WriterIs DEF RecapInv
<1>4. UNCHANGED <<art, begun, blankGens>>
    BY <1>1 DEF WriteFails, Settle, CutShort
<1>5. writer[w].call \in RecapCalls
    BY <1>3 DEF WriterSound, WriterRecs
<1>6. /\ torn \subseteq torn' /\ torn' \subseteq RecapCalls
      /\ writer[w].at = "write" => writer[w].call \in torn'
    BY <1>1, <1>5 DEF WriteFails, Settle, CutShort, RecapInv, RecapShape
<1>7. WritersSound' /\ GensApart' /\ OneWriter' /\ HalfWritten' /\ ArtOfGens'
    BY <1>2, <1>4, <1>6, MoveKeeps
<1>8. TickerEnds'
    BY <1>2, TickerKeeps DEF RecapInv
<1>9. /\ BannerTells' /\ banner' \subseteq RecapCalls
      /\ lastEnd' \in [RecapCalls -> {"none", "ok", "failed"}]
  <2>1. CASE UNCHANGED <<banner, lastEnd>>
    BY <2>1 DEF RecapInv, RecapShape, BannerTells
  <2>2. CASE Settle(w)
    <3> DEFINE c == writer[w].call
    <3>1. /\ banner' = IF writer[w].ok THEN banner \ {c} ELSE banner \cup {c}
          /\ lastEnd' = [lastEnd EXCEPT ![c] = IF writer[w].ok THEN "ok" ELSE "failed"]
      BY <2>2 DEF Settle
    <3>2. CASE writer[w].ok
      BY <1>5, <3>1, <3>2 DEF RecapInv, RecapShape, BannerTells
    <3>3. CASE ~writer[w].ok
      BY <1>5, <3>1, <3>3 DEF RecapInv, RecapShape, BannerTells
    <3>4. QED
      BY <3>2, <3>3
  <2>3. QED
    BY <1>1, <2>1, <2>2 DEF WriteFails, CutShort
<1>10. /\ UNCHANGED <<targets, bulkCancel, written, told, misdeeds>>
       /\ \/ UNCHANGED bulkAt
          \/ w \in Bulks /\ bulkAt' = [bulkAt EXCEPT ![w] = "off"] /\ x.at = "idle"
  <2>1. CASE Panics(w)
    <3>1. Set(w, IdleWriter)
      BY <2>1 DEF Panics, CutShort
    <3>2. x.at = "idle"
      BY <1>3, <3>1, SetWriter, IdleWriterIs DEF RecapInv
    <3>3. QED
      BY <2>1, <3>2 DEF Panics
  <2>2. CASE WriteFails(w) \/ Settle(w) \/ (w = "task" /\ AbortTask)
    BY <2>2 DEF WriteFails, Settle, AbortTask, bulkVars
  <2>3. QED
    BY <2>1, <2>2
<1>11. BulkInv'
    BY <1>2, <1>4, <1>10, BulkMoves
<1>12. RecapShape'
  <2>1. ticking' \subseteq 1..begun'
    BY <1>2, <1>4, TickingStays
  <2>2. bulkAt' \in [Bulks -> {"off", "found", "run"}]
    BY <1>10 DEF RecapInv, RecapShape
  <2>3. QED
    BY <1>3, <1>4, <1>6, <1>9, <1>10, <2>1, <2>2 DEF RecapInv, RecapShape
<1>13. QED
    BY <1>7, <1>8, <1>9, <1>11, <1>12 DEF RecapInv

LEMMA WriteKeeps ==
    ASSUME RecapInv, NEW w \in Writers, WritePart(w) PROVE RecapInv'
<1>1. PICK x \in WriterRecs :
         /\ Set(w, x) /\ x.call = writer[w].call /\ x.good = x.valid
         /\ writer[w].part = FilePart => x.at = "settle"
         /\ writer[w].part # FilePart => x.at = "write" /\ x.gen = writer[w].gen
    BY WritePartKeeps
<1>2. /\ writer[w].at = "write"
      /\ UNCHANGED <<banner, torn, lastEnd, ticking, begun, blankGens, cutShort, targets,
                     bulkAt, bulkCancel, told>>
    BY DEF WritePart
<1>3. writer' \in [Writers -> WriterRecs]
    BY <1>1, SetWriter DEF RecapInv
<1>4. TickerGoes(w, x)
    BY <1>2 DEF TickerGoes, Passes
<1>5. TickerEnds'
    BY <1>1, <1>4, TickerKeeps DEF RecapInv
<1>6. BannerTells'
    BY <1>2 DEF RecapInv, BannerTells
<1>7. RecapShape'
    BY <1>2, <1>3, WritePartKeeps, WritePartBulk DEF RecapInv, RecapShape
<1>8. QED
    BY <1>5, <1>6, <1>7, WritePartKeeps, WritePartBulk DEF RecapInv

LEMMA BeginTaskKeeps ==
    ASSUME RecapInv, NEW c \in RecapCalls, NEW pipeline \in BOOLEAN, BeginTask(c, pipeline)
    PROVE  RecapInv'
<1>1. "task" \in Writers /\ "task" \notin Bulks
    BY RecapAssumption DEF Writers
<1>2. Begin("task", c, pipeline)
    BY DEF BeginTask
<1>3. PICK x \in WriterRecs : Set("task", x)
    BY <1>1, <1>2, BeginKeeps
<1>4. /\ writer' \in [Writers -> WriterRecs]
      /\ \A v \in Writers \ {"task"} : writer'[v] = writer[v]
    BY <1>1, <1>3, SetWriter DEF RecapInv
<1>5. UNCHANGED art /\ UNCHANGED <<targets, bulkAt, bulkCancel, written, told, misdeeds>>
    BY <1>1, <1>2, BeginKeeps DEF BeginTask, bulkVars
<1>6. \A b \in Bulks : writer'[b] = writer[b]
    BY <1>1, <1>4 DEF Writers
<1>7. BulkInv'
    BY <1>5, <1>6 DEF RecapInv, BulkInv, BulkKeepsToBlank, StillBlank
<1>8. RecapShape'
    BY <1>1, <1>2, <1>4, <1>5, BeginKeeps DEF RecapInv, RecapShape
<1>9. QED
    BY <1>1, <1>2, <1>7, <1>8, BeginKeeps DEF RecapInv

\* The steps of a run over all that begin no generation.
LEMMA CallsStay ==
    ASSUME RecapInv, UNCHANGED <<callVars, writer, ticking, begun, blankGens, cutShort>>
    PROVE  /\ WritersSound' /\ GensApart' /\ OneWriter' /\ HalfWritten' /\ ArtOfGens'
           /\ TickerEnds' /\ BannerTells'
<1>1. UNCHANGED <<art, banner, torn, lastEnd, writer, ticking, begun, blankGens, cutShort>>
    BY DEF callVars
<1>2. WritersSound' /\ GensApart' /\ OneWriter'
    BY <1>1 DEF RecapInv, WritersSound, WriterSound, Generating, GensApart, OneWriter
<1>3. HalfWritten'
    BY <1>1 DEF RecapInv, HalfWritten
<1>4. ArtOfGens'
    BY <1>1 DEF RecapInv, ArtOfGens, Generating
<1>5. TickerEnds' /\ BannerTells'
    BY <1>1 DEF RecapInv, TickerEnds, BannerTells
<1>6. QED
    BY <1>2, <1>3, <1>4, <1>5

LEMMA BulkStepKeeps ==
    ASSUME RecapInv, NEW b \in Bulks, BulkScan(b) \/ BulkSpawn(b) \/ BulkEnds(b) \/ CancelBulk
    PROVE  RecapInv'
<1>1. /\ UNCHANGED <<callVars, writer, ticking, begun, blankGens, cutShort>>
      /\ UNCHANGED misdeeds
    BY DEF BulkScan, BulkSpawn, BulkEnds, CancelBulk
<1>2. UNCHANGED <<art, banner, torn, lastEnd, writer, ticking, begun>>
    BY <1>1 DEF callVars
<1>3. /\ targets' \in [Bulks -> SUBSET RecapCalls] /\ written' \in [Bulks -> SUBSET RecapCalls]
      /\ bulkAt' \in [Bulks -> {"off", "found", "run"}]
      /\ told' \subseteq Bulks /\ bulkCancel' \in BOOLEAN
  <2>1. CASE BulkScan(b)
    BY <2>1 DEF BulkScan, BlankCalls, RecapInv, RecapShape
  <2>2. CASE BulkSpawn(b)
    BY <2>2 DEF BulkSpawn, RecapInv, RecapShape
  <2>3. CASE BulkEnds(b)
    BY <2>3 DEF BulkEnds, RecapInv, RecapShape
  <2>4. CASE CancelBulk
    BY <2>4 DEF CancelBulk, RecapInv, RecapShape
  <2>5. QED
    BY <2>1, <2>2, <2>3, <2>4
<1>4. RecapShape'
    BY <1>2, <1>3 DEF RecapInv, RecapShape
<1>5. \A k \in Bulks :
         /\ bulkAt[k] # "run" => writer[k].at = "idle"
         /\ bulkAt[k] # "off" => \A d \in targets[k] : StillBlank(k, d)
         /\ Generating(writer[k]) =>
               writer[k].call \notin targets[k] /\ StillBlank(k, writer[k].call)
    BY DEF RecapInv, BulkInv
<1>6. ASSUME NEW k \in Bulks
      PROVE  /\ bulkAt'[k] # "run" => writer[k].at = "idle"
             /\ bulkAt'[k] # "off" =>
                   \A d \in targets'[k] : d \in written'[k] \/ art[d][FilePart] = 0
             /\ Generating(writer[k]) =>
                   /\ writer[k].call \notin targets'[k]
                   /\ writer[k].call \in written'[k] \/ art[writer[k].call][FilePart] = 0
  <2>1. CASE BulkScan(b)
    <3>1. /\ bulkAt' = [bulkAt EXCEPT ![b] = "found"] /\ writer[b].at = "idle"
          /\ targets' = [targets EXCEPT ![b] = BlankCalls]
          /\ written' = [written EXCEPT ![b] = {}]
      BY <2>1 DEF BulkScan
    <3>2. CASE k = b
      BY <3>1, <3>2 DEF BlankCalls, RecapInv, RecapShape, Generating
    <3>3. CASE k # b
      BY <1>5, <3>1, <3>3 DEF RecapInv, RecapShape, StillBlank
    <3>4. QED
      BY <3>2, <3>3
  <2>2. CASE BulkSpawn(b)
    BY <1>5, <2>2 DEF BulkSpawn, RecapInv, RecapShape, StillBlank
  <2>3. CASE BulkEnds(b)
    <3>1. /\ bulkAt' = [bulkAt EXCEPT ![b] = "off"] /\ writer[b].at = "idle"
          /\ targets' = [targets EXCEPT ![b] = {}] /\ written' = [written EXCEPT ![b] = {}]
      BY <2>3 DEF BulkEnds
    <3>2. CASE k = b
      BY <3>1, <3>2 DEF RecapInv, RecapShape, Generating
    <3>3. CASE k # b
      BY <1>5, <3>1, <3>3 DEF RecapInv, RecapShape, StillBlank
    <3>4. QED
      BY <3>2, <3>3
  <2>4. CASE CancelBulk
    BY <1>5, <2>4 DEF CancelBulk, StillBlank
  <2>5. QED
    BY <2>1, <2>2, <2>3, <2>4
<1>7. told' # {} => bulkCancel'
    BY DEF BulkScan, BulkSpawn, BulkEnds, CancelBulk, RecapInv, BulkInv
<1>8. BulkInv'
    BY <1>1, <1>2, <1>6, <1>7 DEF RecapInv, BulkInv, BulkKeepsToBlank, StillBlank, Generating
<1>9. QED
    BY <1>1, <1>4, <1>8, CallsStay DEF RecapInv

\* The next call of the run is one of those it found.
LEMMA BulkNextKeeps ==
    ASSUME RecapInv, NEW b \in Bulks, BulkNext(b) PROVE RecapInv'
<1>1. b \in Writers
    BY DEF Writers
<1>2. PICK c \in targets[b] :
         /\ targets' = [targets EXCEPT ![b] = @ \ {c}]
         /\ \/ Begin(b, c, FALSE)
            \/ UNCHANGED <<callVars, writer, ticking, begun, blankGens, cutShort>>
    BY DEF BulkNext
<1>3. /\ bulkAt[b] = "run" /\ writer[b].at = "idle" /\ ~bulkCancel
      /\ UNCHANGED <<bulkAt, bulkCancel, written, told>>
      /\ misdeeds' = IF b \in told THEN misdeeds \cup {"ignored"} ELSE misdeeds
    BY DEF BulkNext, GoesOn
<1>4. /\ c \in RecapCalls /\ targets' \in [Bulks -> SUBSET RecapCalls]
      /\ targets'[b] = targets[b] \ {c} /\ \A k \in Bulks \ {b} : targets'[k] = targets[k]
    BY <1>2 DEF RecapInv, RecapShape
<1>5. UNCHANGED misdeeds
    BY <1>3 DEF RecapInv, BulkInv
<1>6. /\ UNCHANGED art
      /\ \A k \in Bulks \ {b} : writer'[k] = writer[k]
      /\ \/ writer'[b] = writer[b]
         \/ writer'[b].call = c
  <2>1. CASE Begin(b, c, FALSE)
    <3>0. \E x \in WriterRecs : Set(b, x) /\ x.call = c /\ x.at = "provider"
      BY <1>1, <1>4, <2>1, BeginKeeps
    <3>1. PICK x \in WriterRecs : Set(b, x) /\ x.call = c
      BY <3>0
    <3>2. writer'[b] = x /\ \A v \in Writers \ {b} : writer'[v] = writer[v]
      BY <1>1, <3>1, SetWriter DEF RecapInv
    <3>3. UNCHANGED art
      BY <1>1, <1>4, <2>1, BeginKeeps
    <3>4. QED
      BY <3>1, <3>2, <3>3 DEF Writers
  <2>2. CASE UNCHANGED <<callVars, writer, ticking, begun, blankGens, cutShort>>
    BY <2>2 DEF callVars
  <2>3. QED
    BY <1>2, <2>1, <2>2
<1>7. BulkInv'
  <2>1. ASSUME NEW k \in Bulks
        PROVE  /\ bulkAt[k] # "run" => writer'[k].at = "idle"
               /\ bulkAt[k] # "off" => \A d \in targets'[k] : StillBlank(k, d)
               /\ Generating(writer'[k]) =>
                     writer'[k].call \notin targets'[k] /\ StillBlank(k, writer'[k].call)
    <3>1. /\ bulkAt[k] # "run" => writer[k].at = "idle"
          /\ bulkAt[k] # "off" => \A d \in targets[k] : StillBlank(k, d)
          /\ Generating(writer[k]) =>
                writer[k].call \notin targets[k] /\ StillBlank(k, writer[k].call)
      BY DEF RecapInv, BulkInv
    <3>2. CASE k = b
      BY <1>2, <1>3, <1>4, <1>6, <3>1, <3>2 DEF Generating
    <3>3. CASE k # b
      BY <1>4, <1>6, <3>1, <3>3
    <3>4. QED
      BY <3>2, <3>3
  <2>2. BulkKeepsToBlank' /\ (told' # {} => bulkCancel')
    BY <1>3, <1>5 DEF RecapInv, BulkInv, BulkKeepsToBlank
  <2>3. QED
    BY <1>3, <1>6, <2>1, <2>2 DEF BulkInv, StillBlank, Generating
<1>8. CASE Begin(b, c, FALSE)
  <2>1. PICK x \in WriterRecs : Set(b, x)
    BY <1>1, <1>4, <1>8, BeginKeeps
  <2>2. writer' \in [Writers -> WriterRecs]
    BY <1>1, <2>1, SetWriter DEF RecapInv
  <2>3. RecapShape'
    BY <1>1, <1>3, <1>4, <1>6, <1>8, <2>2, BeginKeeps DEF RecapInv, RecapShape
  <2>4. QED
    BY <1>1, <1>4, <1>7, <1>8, <2>3, BeginKeeps DEF RecapInv
<1>9. CASE UNCHANGED <<callVars, writer, ticking, begun, blankGens, cutShort>>
  <2>1. UNCHANGED <<art, banner, torn, lastEnd, writer, ticking, begun>>
    BY <1>9 DEF callVars
  <2>2. RecapShape'
    BY <1>3, <1>4, <2>1 DEF RecapInv, RecapShape
  <2>3. QED
    BY <1>7, <1>9, <2>2, CallsStay DEF RecapInv
<1>10. QED
    BY <1>2, <1>8, <1>9

LEMMA RecapInvInit == RecapInit => RecapInv
<1> SUFFICES ASSUME RecapInit PROVE RecapInv
    OBVIOUS
<1>1. MaxGen \in Nat /\ 0 \in 0..MaxGen
    BY RecapAssumption
<1>2. RecapShape
    BY <1>1, IdleWriterIs DEF RecapInit, RecapShape
<1>3. \A w \in Writers : writer[w] = IdleWriter
    BY DEF RecapInit
<1>4. WritersSound /\ GensApart /\ OneWriter /\ TickerEnds
    BY <1>3, IdleWriterIs, RecapAssumption DEF RecapInit, WritersSound, WriterSound,
       Generating, GensApart, OneWriter, TickerEnds
<1>5. \A c \in RecapCalls, p \in Parts : art[c][p] = 0
    BY DEF RecapInit
<1>6. HalfWritten
    BY <1>3, <1>5, IdleWriterIs, SomeParts DEF HalfWritten
<1>7. ArtOfGens
    BY <1>3, <1>5, IdleWriterIs DEF RecapInit, ArtOfGens, Generating
<1>8. BannerTells
    BY DEF RecapInit, BannerTells
<1>9. BulkInv
    BY <1>3, IdleWriterIs DEF RecapInit, BulkInv, BulkKeepsToBlank, Generating, Writers
<1>10. QED
    BY <1>2, <1>4, <1>6, <1>7, <1>8, <1>9 DEF RecapInv

LEMMA RecapInvNext ==
    ASSUME RecapInv, [RecapNext]_recapVars PROVE RecapInv'
<1>1. CASE \E c \in RecapCalls, pipeline \in BOOLEAN : BeginTask(c, pipeline)
    BY <1>1, BeginTaskKeeps
<1>2. CASE AbortTask
  <2>1. "task" \in Writers /\ writer["task"].at # "idle"
    BY <1>2 DEF AbortTask, Writers
  <2>2. QED
    BY <1>2, <2>1, EndingKeeps
<1>3. CASE CancelBulk
  <2>1. CASE Bulks # {}
    BY <1>3, <2>1, BulkStepKeeps
  <2>2. CASE Bulks = {}
    <3>1. /\ UNCHANGED <<callVars, writer, ticking, begun, blankGens, cutShort>>
          /\ UNCHANGED <<targets, bulkAt, written, misdeeds>> /\ told' = {}
          /\ bulkCancel' = TRUE
      BY <1>3, <2>2 DEF CancelBulk
    <3>2. RecapShape'
      BY <2>2, <3>1 DEF RecapInv, RecapShape, callVars
    <3>3. BulkInv'
      BY <2>2, <3>1 DEF RecapInv, BulkInv, BulkKeepsToBlank
    <3>4. QED
      BY <3>1, <3>2, <3>3, CallsStay DEF RecapInv
  <2>3. QED
    BY <2>1, <2>2
<1>4. ASSUME NEW w \in Writers, Writes(w) PROVE RecapInv'
  <2>1. CASE \/ Provider(w) \/ Classify(w) \/ ValidAnswer(w) \/ BadAnswer(w) \/ PostPass(w)
             \/ Narrate(w) \/ CheckAnswer(w)
    BY <2>1, GeneratingKeeps
  <2>2. CASE WriteFails(w) \/ Settle(w) \/ Panics(w)
    <3>1. writer[w].at # "idle"
      BY <2>2 DEF WriteFails, Settle, Panics
    <3>2. QED
      BY <2>2, <3>1, EndingKeeps
  <2>3. CASE WritePart(w)
    BY <2>3, WriteKeeps
  <2>4. QED
    BY <1>4, <2>1, <2>2, <2>3 DEF Writes, Generates, Persists
<1>5. ASSUME NEW b \in Bulks, BulkScan(b) \/ BulkSpawn(b) \/ BulkNext(b) \/ BulkEnds(b)
      PROVE  RecapInv'
    BY <1>5, BulkStepKeeps, BulkNextKeeps
<1>6. CASE UNCHANGED recapVars
  <2>1. /\ UNCHANGED <<callVars, writer, ticking, begun, blankGens, cutShort>>
        /\ UNCHANGED <<targets, bulkAt, bulkCancel, written, told, misdeeds>>
    BY <1>6 DEF recapVars, bulkVars
  <2>2. RecapShape'
    BY <2>1 DEF RecapInv, RecapShape, callVars
  <2>3. BulkInv'
    BY <2>1 DEF RecapInv, BulkInv, BulkKeepsToBlank, StillBlank, Generating, callVars
  <2>4. QED
    BY <2>1, <2>2, <2>3, CallsStay DEF RecapInv
<1>7. QED
    BY <1>1, <1>2, <1>3, <1>4, <1>5, <1>6 DEF RecapNext

LEMMA RecapKeptFollows == RecapInv => RecapKept
<1> SUFFICES ASSUME RecapInv PROVE RecapKept
    OBVIOUS
<1>1. RecapTypeOK
  <2>1. 1..begun \subseteq 1..MaxGen
    BY RecapAssumption DEF RecapInv, RecapShape
  <2>2. \A w \in Writers : /\ writer[w].at \in Passes \cup {"idle", "provider", "check", "write",
                                                            "settle"}
                           /\ writer[w].call \in RecapCalls \cup {NoCall}
                           /\ writer[w].part \in 0..FilePart
    BY WriterIs DEF RecapInv, WriterRecs, WriterSteps
  <2>3. QED
    BY <2>1, <2>2 DEF RecapInv, RecapShape, RecapTypeOK
<1>2. OneGeneration
  <2> SUFFICES ASSUME NEW c \in RecapCalls, c \notin torn, ~Busy(c),
                      NEW p \in Parts \ {TitlePart}, NEW q \in Parts \ {TitlePart}
               PROVE  art[c][p] = art[c][q]
    BY DEF OneGeneration
  <2>1. \A w \in Writers : writer[w].call # c
    BY DEF Busy
  <2>2. QED
    BY <2>1 DEF RecapInv, HalfWritten, Whole
<1>3. BlankKeepsOld
    BY DEF RecapInv, ArtOfGens, BlankKeepsOld
<1>4. LosesOnlyBadChunks
    BY DEF RecapInv, WritersSound, WriterSound, LosesOnlyBadChunks
<1>5. BannerTells /\ TickerEnds /\ BulkKeepsToBlank
    BY DEF RecapInv, BulkInv
<1>6. QED
    BY <1>1, <1>2, <1>3, <1>4, <1>5 DEF RecapKept, RecapIsWhole, PassesEnd

\* A recap is of one generation that says something, and the run over the blank recaps
\* keeps to those: for any calls, lengths of a transcript and number of generations.
THEOREM RecapKeptHolds == RecapSpec => []RecapKept
<1>1. RecapSpec => []RecapInv
    BY RecapInvInit, RecapInvNext, PTL DEF RecapSpec
<1>2. QED
    BY <1>1, RecapKeptFollows, PTL

(***************************************************************************)
(* AppLifecycle: from one start to the next.                               *)
(***************************************************************************)
RowStatus == {"none", "recording", "processing", "ready", "failed"}
Holds == {"nothing", "chunks", "short", "long"}
Bases == [health : {"sound", "damaged"}, row : [AppCalls -> RowStatus]]
Somebody == AppCalls \cup {NoOne}

AppShape ==
    /\ phase \in {"down", "opening", "sweeping", "orphans", "strays", "up"}
    /\ base \in Bases /\ folder \in [AppCalls -> Holds]
    /\ aside \subseteq AppCalls /\ working \subseteq AppCalls /\ todo \subseteq AppCalls
    /\ used \subseteq AppCalls /\ removed \subseteq AppCalls
    /\ held \in Somebody /\ begins \in Somebody
    /\ ending \in [user : Somebody, quit : Somebody]
    /\ window \in {"shown", "asked", "gone"}
    /\ leaving \in {"no", "take", "stop", "drain"} /\ update \in {"no", "applying"}
    /\ wiping \in {"no", "calls", "base", "done"} /\ open \in BOOLEAN
    /\ late \in [recorded : SUBSET AppCalls, cut : SUBSET AppCalls]

\* Before the application is up nobody works in it.
Asleep ==
    phase # "up" =>
        /\ ~open /\ held = NoOne /\ begins = NoOne /\ ending = NoStop
        /\ working = {} /\ leaving = "no" /\ update = "no" /\ wiping = "no"

\* One call at a time is begun or recorded, and each that is ending was another one.
SessionsApart ==
    /\ begins # NoOne => held = NoOne
    /\ ending.user # NoOne => ending.user \notin {held, begins, ending.quit}
    /\ ending.quit # NoOne => ending.quit \notin {held, begins}
    /\ ending.quit # NoOne <=> leaving = "stop"

\* The call of a session has its row and its directory, until a wipe takes them.
Wiped(c) == ~open /\ c \in removed
SessionKept(c) == Row(c) = "recording" \/ Wiped(c)
SessionsKept ==
    /\ \A c \in {held, begins, ending.user, ending.quit} \ {NoOne} :
          c \in used /\ SessionKept(c)
    /\ \A c \in {held, ending.user, ending.quit} \ {NoOne} : HasDir(c) \/ Wiped(c)

WorkIsMarked == open => \A c \in working : Row(c) = "processing"
WipeIsTold == wiping # "no" => ~open /\ used \subseteq removed
UnusedIsBlank == \A c \in AppCalls \ used : Row(c) = "none" /\ ~HasDir(c)

\* How far the start has come.
StartGoesOn ==
    /\ phase = "orphans" =>
          /\ \A c \in todo : Row(c) = "recording"
          /\ \A c \in AppCalls \ left :
                Row(c) # "processing" /\ (Row(c) = "recording" => c \in todo)
    /\ phase = "strays" =>
          /\ \A c \in todo : Row(c) = "none"
          /\ \A c \in AppCalls \ left :
                /\ Row(c) \notin {"recording", "processing"}
                /\ HasDir(c) /\ Row(c) = "none" => c \in todo

UpdateSees ==
    UpdateWaits /\ (update = "applying" /\ held # NoOne => held \in late.recorded)

AppInv ==
    /\ AppShape /\ Asleep /\ SessionsApart /\ SessionsKept /\ WorkIsMarked /\ WipeIsTold
    /\ UnusedIsBlank /\ RowHasSound /\ StartGoesOn /\ SettledAfterStart /\ UpdateSees

LEMMA RowIsSet ==
    ASSUME base \in Bases, NEW c \in AppCalls, NEW status \in RowStatus, SetRow(c, status)
    PROVE  /\ base' \in Bases /\ base'.health = base.health
           /\ \A d \in AppCalls : Row(d)' = IF d = c THEN status ELSE Row(d)
<1>1. PICK row \in [AppCalls -> RowStatus] : row = base.row
    BY DEF Bases
<1>2. PICK next \in [AppCalls -> RowStatus] : next = [row EXCEPT ![c] = status]
    OBVIOUS
<1>3. base' = [base EXCEPT !.row = next]
    BY <1>1, <1>2 DEF SetRow
<1>4. base' \in Bases /\ base'.health = base.health /\ base'.row = next
    BY <1>3 DEF Bases
<1>5. QED
    BY <1>1, <1>2, <1>4 DEF Row

LEMMA DiskIsSet ==
    ASSUME folder \in [AppCalls -> Holds], NEW c \in AppCalls, NEW holds \in Holds,
           SetDisk(c, holds)
    PROVE  /\ folder' \in [AppCalls -> Holds]
           /\ \A d \in AppCalls : folder'[d] = IF d = c THEN holds ELSE folder[d]
BY DEF SetDisk

LEMMA RowsAreTyped ==
    ASSUME AppShape, NEW c \in AppCalls
    PROVE  Row(c) \in RowStatus /\ folder[c] \in Holds
BY DEF AppShape, Bases, Row

LEMMA AppInvInit == AppInit => AppInv
<1> SUFFICES ASSUME AppInit PROVE AppInv
    OBVIOUS
<1> USE AppAssumption DEF AppInit
<1>1. PICK row \in [AppCalls -> RowStatus] : row = [c \in AppCalls |-> "none"]
    BY DEF RowStatus
<1>2. base \in Bases /\ base.row = row
    BY <1>1 DEF Bases
<1>3. \A c \in AppCalls : Row(c) = "none" /\ ~HasDir(c)
    BY <1>1, <1>2 DEF Row, HasDir
<1>4. folder \in [AppCalls -> Holds]
    BY DEF Holds
<1>5. ending \in [user : Somebody, quit : Somebody] /\ ending.user = NoOne /\ ending.quit = NoOne
    BY DEF NoStop, Somebody
<1>6. late \in [recorded : SUBSET AppCalls, cut : SUBSET AppCalls] /\ late.cut = {}
    BY DEF NoUpdate
<1>7. AppShape
    BY <1>2, <1>4, <1>5, <1>6 DEF AppShape, Somebody
<1>8. Asleep /\ SessionsApart /\ SessionsKept /\ WorkIsMarked /\ WipeIsTold
    BY <1>5 DEF Asleep, SessionsApart, SessionsKept, WorkIsMarked, WipeIsTold
<1>9. UnusedIsBlank /\ RowHasSound /\ StartGoesOn /\ SettledAfterStart
    BY <1>3 DEF UnusedIsBlank, RowHasSound, LongCallKept, StartGoesOn, SettledAfterStart
<1>10. UpdateSees
    BY <1>6 DEF UpdateSees, UpdateWaits
<1>11. QED
    BY <1>7, <1>8, <1>9, <1>10 DEF AppInv

\* While it starts nobody works in it.
LEMMA StartSleepsOn ==
    ASSUME AppInv, phase # "up", phase' # "up", UNCHANGED <<runVars, used>>,
           late' \in {late, NoUpdate}
    PROVE  /\ Asleep' /\ SessionsApart' /\ SessionsKept' /\ WorkIsMarked' /\ WipeIsTold'
           /\ SettledAfterStart' /\ UpdateSees'
<1> USE DEF runVars
<1>1. Asleep /\ SessionsApart /\ UpdateWaits
    BY DEF AppInv, UpdateSees
<1>2. ending.user = NoOne /\ ending.quit = NoOne
    BY <1>1 DEF Asleep, NoStop
<1>3. Asleep' /\ WipeIsTold' /\ WorkIsMarked' /\ SettledAfterStart'
    BY <1>1 DEF Asleep, WipeIsTold, WorkIsMarked, SettledAfterStart
<1>4. SessionsApart' /\ SessionsKept'
    BY <1>1, <1>2 DEF Asleep, SessionsApart, SessionsKept
<1>5. UpdateSees'
    BY <1>1 DEF Asleep, UpdateSees, UpdateWaits, NoUpdate
<1>6. QED
    BY <1>3, <1>4, <1>5

\* The process goes: what is on the disk stays as it is.
LEMMA GoneIsAsleep ==
    ASSUME AppInv, Gone, UNCHANGED <<aside, folder, used, removed, emptied>>,
           base' \in Bases, base'.row = base.row,
           late' \in [recorded : SUBSET AppCalls, cut : SUBSET AppCalls], UpdateWaits'
    PROVE  AppInv'
<1> USE AppAssumption DEF Gone
<1>1. ending' \in [user : Somebody, quit : Somebody] /\ ending'.user = NoOne
      /\ ending'.quit = NoOne
    BY DEF NoStop, Somebody
<1>2. AppShape'
    BY <1>1 DEF AppInv, AppShape, Somebody
<1>3. Asleep' /\ SessionsApart' /\ SessionsKept' /\ WorkIsMarked' /\ WipeIsTold'
    BY <1>1 DEF Asleep, SessionsApart, SessionsKept, WorkIsMarked, WipeIsTold
<1>4. UnusedIsBlank'
    BY DEF AppInv, UnusedIsBlank, Row, HasDir
<1>5. RowHasSound'
    BY DEF AppInv, RowHasSound, LongCallKept, Row, HasDir
<1>6. StartGoesOn' /\ SettledAfterStart' /\ UpdateSees'
    BY DEF StartGoesOn, SettledAfterStart, UpdateSees
<1>7. QED
    BY <1>2, <1>3, <1>4, <1>5, <1>6 DEF AppInv

LEMMA ExitKeeps == AppInv /\ Exit => AppInv'
BY GoneIsAsleep DEF Exit, AppInv, AppShape, UpdateSees, UpdateWaits, dataVars, pastVars

LEMMA StartRefusedKeeps == AppInv /\ StartRefused => AppInv'
BY GoneIsAsleep DEF StartRefused, AppInv, AppShape, UpdateSees, UpdateWaits, dataVars, pastVars

LEMMA CrashKeeps == AppInv /\ Crash => AppInv'
<1> SUFFICES ASSUME AppInv, Crash PROVE AppInv'
    OBVIOUS
<1>1. base \in Bases /\ late \in [recorded : SUBSET AppCalls, cut : SUBSET AppCalls]
      /\ UpdateWaits
    BY DEF AppInv, AppShape, UpdateSees
<1>2. base' \in Bases /\ base'.row = base.row
    BY <1>1 DEF Crash, Bases
<1>3. QED
    BY <1>1, <1>2, GoneIsAsleep DEF Crash, pastVars, UpdateWaits

LEMMA RestartUpdatedKeeps == AppInv /\ RestartUpdated => AppInv'
<1> SUFFICES ASSUME AppInv, RestartUpdated PROVE AppInv'
    OBVIOUS
<1>1. late \in [recorded : SUBSET AppCalls, cut : SUBSET AppCalls] /\ base \in Bases
      /\ held \in Somebody /\ UpdateSees
    BY DEF AppInv, AppShape
<1>2. late' \in [recorded : SUBSET AppCalls, cut : SUBSET AppCalls] /\ UpdateWaits'
  <2>1. CASE held = NoOne
    BY <1>1, <2>1 DEF RestartUpdated, UpdateSees, UpdateWaits
  <2>2. CASE held # NoOne
    <3>1. held \in AppCalls /\ held \in late.recorded
        BY <1>1, <2>2 DEF RestartUpdated, UpdateSees, Somebody
    <3>2. late' = [late EXCEPT !.cut = {held}]
        BY <2>2 DEF RestartUpdated
    <3>3. late'.cut = {held} /\ late'.recorded = late.recorded
        BY <1>1, <3>2
    <3>4. QED
        BY <1>1, <3>1, <3>2, <3>3 DEF UpdateWaits
  <2>3. QED
    BY <2>1, <2>2
<1>3. QED
    BY <1>1, <1>2, GoneIsAsleep DEF RestartUpdated, dataVars, pastVars

LEMMA LaunchKeeps == AppInv /\ Launch => AppInv'
<1> SUFFICES ASSUME AppInv, Launch PROVE AppInv'
    OBVIOUS
<1> USE DEF Launch, dataVars
<1>1. UNCHANGED <<base, folder, aside, used, removed, emptied, todo>> /\ late' = NoUpdate
    OBVIOUS
<1>2. AppShape'
    BY DEF AppInv, AppShape, runVars, NoUpdate
<1>3. UnusedIsBlank' /\ RowHasSound' /\ StartGoesOn'
    BY <1>1 DEF AppInv, UnusedIsBlank, RowHasSound, LongCallKept, StartGoesOn, Row, HasDir
<1>4. QED
    BY <1>1, <1>2, <1>3, StartSleepsOn DEF AppInv

LEMMA QuarantineKeeps == AppInv /\ Quarantine => AppInv'
<1> SUFFICES ASSUME AppInv, Quarantine PROVE AppInv'
    OBVIOUS
<1> USE DEF Quarantine, InStart
<1>1. CASE UNCHANGED <<aside, base, emptied>>
  <2>1. AppShape'
    BY <1>1 DEF AppInv, AppShape, runVars
  <2>2. UnusedIsBlank' /\ RowHasSound' /\ StartGoesOn'
    BY <1>1 DEF AppInv, UnusedIsBlank, RowHasSound, LongCallKept, StartGoesOn, Row, HasDir
  <2>3. QED
    BY <2>1, <2>2, StartSleepsOn DEF AppInv
<1>2. CASE /\ aside' = aside \cup {c \in AppCalls : Row(c) # "none"}
           /\ base' = [health |-> "sound", row |-> [c \in AppCalls |-> "none"]]
           /\ emptied' = TRUE
  <2>1. PICK row \in [AppCalls -> RowStatus] : row = [c \in AppCalls |-> "none"]
    BY DEF RowStatus
  <2>2. base' \in Bases /\ base'.row = row
    BY <1>2, <2>1 DEF Bases
  <2>3. \A c \in AppCalls : Row(c)' = "none"
    BY <2>1, <2>2 DEF Row
  <2>4. AppShape'
    BY <1>2, <2>2 DEF AppInv, AppShape, runVars
  <2>5. UnusedIsBlank' /\ StartGoesOn'
    BY <2>3 DEF AppInv, UnusedIsBlank, StartGoesOn, HasDir
  <2>6. RowHasSound'
    BY <1>2, <2>3 DEF AppInv, AppShape, RowHasSound, LongCallKept
  <2>7. QED
    BY <2>4, <2>5, <2>6, StartSleepsOn DEF AppInv
<1>3. QED
    BY <1>1, <1>2

LEMMA OpenDatabaseKeeps == AppInv /\ OpenDatabase => AppInv'
<1> SUFFICES ASSUME AppInv, OpenDatabase PROVE AppInv'
    OBVIOUS
<1> USE DEF OpenDatabase, dataVars, InStart
<1>1. AppShape'
    BY DEF AppInv, AppShape, runVars
<1>2. UnusedIsBlank' /\ RowHasSound' /\ StartGoesOn'
    BY DEF AppInv, UnusedIsBlank, RowHasSound, LongCallKept, StartGoesOn, Row, HasDir
<1>3. QED
    BY <1>1, <1>2, StartSleepsOn DEF AppInv

LEMMA SweepStaleKeeps == AppInv /\ SweepStale => AppInv'
<1> SUFFICES ASSUME AppInv, SweepStale PROVE AppInv'
    OBVIOUS
<1> USE DEF SweepStale, InStart
<1>1. base \in Bases
    BY DEF AppInv, AppShape
<1>2. PICK row \in [AppCalls -> RowStatus] : row = base.row
    BY <1>1 DEF Bases
<1>3. PICK next \in [AppCalls -> RowStatus] :
         next = [c \in AppCalls |-> IF row[c] = "processing" THEN "failed" ELSE row[c]]
    BY DEF RowStatus
<1>4. base' = [base EXCEPT !.row = next]
    BY <1>2, <1>3
<1>5. base' \in Bases /\ base'.row = next
    BY <1>1, <1>4 DEF Bases
<1>6. \A c \in AppCalls : Row(c)' = IF Row(c) = "processing" THEN "failed" ELSE Row(c)
    BY <1>2, <1>3, <1>5 DEF Row
<1>7. AppShape'
    BY <1>5 DEF AppInv, AppShape, runVars
<1>8. UnusedIsBlank' /\ StartGoesOn'
    BY <1>6 DEF AppInv, UnusedIsBlank, StartGoesOn, HasDir
<1>9. RowHasSound'
    BY <1>6 DEF AppInv, AppShape, RowHasSound, LongCallKept, HasDir
<1>10. QED
    BY <1>7, <1>8, <1>9, StartSleepsOn DEF AppInv

LEMMA ReconcileOrphanKeeps ==
    ASSUME AppInv, NEW c \in AppCalls, ReconcileOrphan(c)
    PROVE  AppInv'
<1> USE DEF ReconcileOrphan, InStart
<1>1. /\ base \in Bases /\ folder \in [AppCalls -> Holds] /\ Row(c) = "recording"
      /\ c \in used
    BY DEF AppInv, AppShape, StartGoesOn, UnusedIsBlank
<1>2. PICK status \in RowStatus :
         /\ base' \in Bases
         /\ \A d \in AppCalls : Row(d)' = IF d = c THEN status ELSE Row(d)
         /\ status = "recording" => c \in left' /\ UNCHANGED folder
         /\ status \in {"recording", "failed", "none"}
         /\ status = "none" => folder[c] # "long"
         /\ left \subseteq left'
  <2>1. CASE KeepsOrphan(c) /\ SetRow(c, "failed") /\ UNCHANGED <<folder, left>>
    BY <1>1, <2>1, RowIsSet DEF RowStatus
  <2>2. CASE ~KeepsOrphan(c) /\ SetRow(c, "none") /\ UNCHANGED left
    BY <1>1, <2>2, RowIsSet DEF RowStatus, KeepsOrphan
  <2>3. CASE UNCHANGED <<base, folder>> /\ left' = left \cup {c}
    BY <1>1, <2>3 DEF RowStatus, Row
  <2>4. QED
    BY <2>1, <2>2, <2>3
<1>3. /\ folder' \in [AppCalls -> Holds]
      /\ \A d \in AppCalls : folder'[d] = folder[d] \/ (d = c /\ status = "none" /\ ~HasDir(d)')
  <2>1. CASE UNCHANGED folder
    BY <1>1, <2>1
  <2>2. CASE SetDisk(c, "nothing") /\ SetRow(c, "none")
    <3>1. "nothing" \in Holds /\ "none" \in RowStatus
        BY DEF Holds, RowStatus
    <3>2. Row(c)' = "none"
        BY <1>1, <2>2, <3>1, RowIsSet
    <3>3. status = "none"
        BY <1>2, <3>2
    <3>4. QED
        BY <1>1, <2>2, <3>1, <3>3, DiskIsSet DEF HasDir
  <2>3. QED
    BY <2>1, <2>2
<1>4. AppShape'
    BY <1>2, <1>3 DEF AppInv, AppShape, runVars
<1>5. UnusedIsBlank'
    BY <1>1, <1>2, <1>3 DEF AppInv, UnusedIsBlank, HasDir
<1>6. RowHasSound'
  <2> SUFFICES ASSUME NEW d \in AppCalls, d \in used \ removed
               PROVE  /\ folder'[d] = "long" => Row(d)' # "none" \/ d \in aside
                      /\ Row(d)' \in {"processing", "ready"} /\ ~emptied => HasDir(d)'
    BY DEF AppInv, AppShape, RowHasSound, LongCallKept
  <2>1. /\ folder[d] = "long" => Row(d) # "none" \/ d \in aside
        /\ Row(d) \in {"processing", "ready"} /\ ~emptied => HasDir(d)
    BY DEF AppInv, RowHasSound, LongCallKept
  <2>2. CASE d = c
    <3>1. Row(c)' = status
        BY <1>2
    <3>2. folder'[c] = "long" => status # "none"
        BY <1>2, <1>3 DEF HasDir
    <3>3. QED
        BY <1>2, <2>2, <3>1, <3>2
  <2>3. CASE d # c
    BY <1>2, <1>3, <2>1, <2>3 DEF HasDir
  <2>4. QED
    BY <2>2, <2>3
<1>7. StartGoesOn'
  <2>1. Row(c)' \in {"processing", "recording"} => c \in left'
    BY <1>2
  <2>2. phase' = "orphans" /\ todo' = todo \ {c} /\ left \subseteq left'
    BY <1>2
  <2>3. \A d \in todo' : Row(d)' = "recording"
    BY <1>2, <2>2 DEF AppInv, AppShape, StartGoesOn
  <2>4. ASSUME NEW d \in AppCalls \ left'
        PROVE  Row(d)' # "processing" /\ (Row(d)' = "recording" => d \in todo')
    <3>1. CASE d = c
        BY <2>1, <2>4, <3>1
    <3>2. CASE d # c
        BY <1>2, <2>2, <2>4, <3>2 DEF AppInv, StartGoesOn
    <3>3. QED
        BY <3>1, <3>2
  <2>5. QED
    BY <2>2, <2>3, <2>4 DEF StartGoesOn
<1>8. QED
    BY <1>4, <1>5, <1>6, <1>7, StartSleepsOn DEF AppInv

LEMMA LookForStraysKeeps == AppInv /\ LookForStrays => AppInv'
<1> SUFFICES ASSUME AppInv, LookForStrays PROVE AppInv'
    OBVIOUS
<1> USE DEF LookForStrays, dataVars, InStart
<1>1. todo' \subseteq Strays /\ (Strays \ left') \subseteq todo' /\ left \subseteq left'
    OBVIOUS
<1>2. AppShape'
    BY <1>1 DEF AppInv, AppShape, runVars, Strays
<1>3. UnusedIsBlank' /\ RowHasSound'
    BY DEF AppInv, UnusedIsBlank, RowHasSound, LongCallKept, Row, HasDir
<1>4. StartGoesOn'
    BY <1>1 DEF AppInv, StartGoesOn, Row, HasDir, Strays
<1>5. QED
    BY <1>2, <1>3, <1>4, StartSleepsOn DEF AppInv

LEMMA RemoveStrayKeeps ==
    ASSUME AppInv, NEW c \in AppCalls, RemoveStray(c)
    PROVE  AppInv'
<1> USE DEF RemoveStray, InStart
<1>1. folder \in [AppCalls -> Holds] /\ Row(c) = "none"
    BY DEF AppInv, AppShape, StartGoesOn
<1>2. /\ folder' \in [AppCalls -> Holds] /\ left \subseteq left'
      /\ \A d \in AppCalls : folder'[d] = folder[d] \/ (d = c /\ ~HasDir(d)')
      /\ HasDir(c)' => c \in left'
  <2>1. CASE UNCHANGED folder /\ left' = left \cup {c}
    BY <1>1, <2>1
  <2>2. CASE SetDisk(c, "nothing") /\ UNCHANGED left
    BY <1>1, <2>2, DiskIsSet DEF HasDir, Holds
  <2>3. QED
    BY <2>1, <2>2
<1>3. AppShape'
    BY <1>2 DEF AppInv, AppShape, runVars
<1>4. \A d \in AppCalls : Row(d)' = Row(d)
    BY DEF Row
<1>5. UnusedIsBlank'
    BY <1>2, <1>4 DEF AppInv, UnusedIsBlank, HasDir
<1>6. RowHasSound'
  <2> SUFFICES ASSUME NEW d \in AppCalls, d \in used \ removed
               PROVE  /\ folder'[d] = "long" => Row(d)' # "none" \/ d \in aside
                      /\ Row(d)' \in {"processing", "ready"} /\ ~emptied => HasDir(d)'
    BY DEF AppInv, AppShape, RowHasSound, LongCallKept
  <2>1. /\ folder[d] = "long" => Row(d) # "none" \/ d \in aside
        /\ Row(d) \in {"processing", "ready"} /\ ~emptied => HasDir(d)
    BY DEF AppInv, RowHasSound, LongCallKept
  <2>2. QED
    BY <1>1, <1>2, <1>4, <2>1 DEF HasDir
<1>7. StartGoesOn'
    BY <1>2 DEF AppInv, StartGoesOn, Row, HasDir
<1>8. QED
    BY <1>3, <1>5, <1>6, <1>7, StartSleepsOn DEF AppInv

LEMMA StartedKeeps == AppInv /\ Started => AppInv'
<1> SUFFICES ASSUME AppInv, Started PROVE AppInv'
    OBVIOUS
<1> USE DEF Started, dataVars, pastVars
<1>1. Asleep /\ ending.user = NoOne /\ ending.quit = NoOne
    BY DEF AppInv, Asleep, NoStop
<1>2. AppShape' /\ Asleep'
    BY DEF AppInv, AppShape, Asleep
<1>3. SessionsApart' /\ SessionsKept'
    BY <1>1 DEF Asleep, SessionsApart, SessionsKept
<1>4. WorkIsMarked' /\ WipeIsTold'
    BY <1>1 DEF Asleep, WorkIsMarked, WipeIsTold
<1>5. UnusedIsBlank' /\ RowHasSound' /\ StartGoesOn'
    BY DEF AppInv, UnusedIsBlank, RowHasSound, LongCallKept, StartGoesOn, Row, HasDir
<1>6. SettledAfterStart'
    BY DEF AppInv, StartGoesOn, SettledAfterStart, Row, HasDir
<1>7. UpdateSees'
    BY DEF AppInv, UpdateSees, UpdateWaits
<1>8. QED
    BY <1>2, <1>3, <1>4, <1>5, <1>6, <1>7 DEF AppInv

LEMMA StartUpKeeps == AppInv /\ StartUp => AppInv'
BY LaunchKeeps, StartRefusedKeeps, QuarantineKeeps, OpenDatabaseKeeps, SweepStaleKeeps,
   LookForStraysKeeps, ReconcileOrphanKeeps, RemoveStrayKeeps, StartedKeeps DEF StartUp

\* As long as the pool is open the row of a call in a session tells of it, and no task
\* works on that call.
LEMMA SessionRows ==
    ASSUME AppInv, open,
           NEW c \in {held, begins, ending.user, ending.quit} \ {NoOne}
    PROVE  /\ c \in AppCalls /\ c \in used /\ Row(c) = "recording" /\ c \notin working
BY DEF AppInv, AppShape, SessionsKept, SessionKept, Wiped, WorkIsMarked

\* The call of a session that no wipe has taken.
LEMMA SessionsAreTyped ==
    ASSUME AppInv, NEW c \in {held, begins, ending.user, ending.quit} \ {NoOne}
    PROVE  /\ c \in AppCalls /\ c \in used /\ phase = "up"
           /\ c \notin removed => Row(c) = "recording"
<1>1. c \in used /\ used \subseteq AppCalls /\ SessionKept(c)
    BY DEF AppInv, AppShape, SessionsKept
<1>2. phase = "up"
    BY DEF AppInv, Asleep, NoStop
<1>3. QED
    BY <1>1, <1>2 DEF SessionKept, Wiped

LEMMA InsertRowKeeps ==
    ASSUME AppInv, NEW c \in AppCalls, InsertRow(c)
    PROVE  AppInv'
<1> USE AppAssumption DEF InsertRow, InApp, NoExit
<1>1. /\ base \in Bases /\ folder \in [AppCalls -> Holds] /\ "recording" \in RowStatus
      /\ Row(c) = "none" /\ ~HasDir(c)
    BY DEF AppInv, AppShape, UnusedIsBlank, RowStatus
<1>2. /\ base' \in Bases
      /\ \A d \in AppCalls : Row(d)' = IF d = c THEN "recording" ELSE Row(d)
    BY <1>1, RowIsSet
<1>3. AppShape' /\ Asleep' /\ StartGoesOn'
    BY <1>2 DEF AppInv, AppShape, Asleep, StartGoesOn, Somebody
<1>4. \A d \in {held, ending.user, ending.quit} \ {NoOne} :
         d \in AppCalls /\ d # c /\ d \in used /\ Row(d)' = "recording" /\ HasDir(d)
  <2> TAKE d \in {held, ending.user, ending.quit} \ {NoOne}
  <2>1. d \in AppCalls /\ d \in used /\ Row(d) = "recording"
    BY SessionRows
  <2>2. HasDir(d)
    BY DEF AppInv, SessionsKept, Wiped
  <2>3. QED
    BY <1>2, <2>1, <2>2
<1>5. SessionsApart'
    BY <1>4 DEF AppInv, SessionsApart
<1>6. SessionsKept'
    BY <1>2, <1>4 DEF AppInv, SessionsKept, SessionKept, Wiped, HasDir
<1>7. WorkIsMarked' /\ WipeIsTold'
    BY <1>1, <1>2 DEF AppInv, AppShape, WorkIsMarked, WipeIsTold
<1>8. UnusedIsBlank'
    BY <1>2 DEF AppInv, UnusedIsBlank, HasDir
<1>9. RowHasSound'
    BY <1>1, <1>2 DEF AppInv, AppShape, RowHasSound, LongCallKept, HasDir
<1>10. SettledAfterStart'
  <2> SUFFICES ASSUME NEW d \in AppCalls \ left
               PROVE  /\ Row(d)' = "recording" => d \in {held, c, ending.user, ending.quit}
                      /\ Row(d)' = "processing" => d \in working
                      /\ HasDir(d) => Row(d)' # "none"
    BY DEF SettledAfterStart, HasDir
  <2>1. QED
    BY <1>1, <1>2 DEF AppInv, SettledAfterStart
<1>11. UpdateSees'
    BY DEF AppInv, UpdateSees, UpdateWaits
<1>12. QED
    BY <1>3, <1>5, <1>6, <1>7, <1>8, <1>9, <1>10, <1>11 DEF AppInv

LEMMA TaskBeginsKeeps ==
    ASSUME AppInv, NEW c \in AppCalls, TaskBegins(c)
    PROVE  AppInv'
<1> USE AppAssumption DEF TaskBegins, InApp, NoExit
<1>1. base \in Bases /\ folder \in [AppCalls -> Holds] /\ "processing" \in RowStatus
    BY DEF AppInv, AppShape, RowStatus
<1>2. /\ base' \in Bases
      /\ \A d \in AppCalls : Row(d)' = IF d = c THEN "processing" ELSE Row(d)
    BY <1>1, RowIsSet
<1>3. AppShape' /\ Asleep' /\ StartGoesOn'
    BY <1>2 DEF AppInv, AppShape, Asleep, StartGoesOn, Somebody
<1>4. \A d \in {held, begins, ending.user, ending.quit} \ {NoOne} :
         d \in AppCalls /\ d \in used /\ Row(d)' = "recording" /\ d # c
    BY <1>2, SessionRows
<1>5. SessionsApart'
    BY DEF AppInv, SessionsApart
<1>6. SessionsKept'
    BY <1>4 DEF AppInv, SessionsKept, SessionKept, Wiped, HasDir
<1>7. WorkIsMarked' /\ WipeIsTold'
    BY <1>1, <1>2 DEF AppInv, AppShape, WorkIsMarked, WipeIsTold
<1>8. UnusedIsBlank'
    BY <1>2 DEF AppInv, UnusedIsBlank, HasDir
<1>9. RowHasSound'
    BY <1>1, <1>2 DEF AppInv, AppShape, RowHasSound, LongCallKept, HasDir
<1>10. SettledAfterStart'
  <2> SUFFICES ASSUME NEW d \in AppCalls \ left
               PROVE  /\ Row(d)' = "recording" => d \in {held, begins, ending.user, ending.quit}
                      /\ Row(d)' = "processing" => d \in working'
                      /\ HasDir(d) => Row(d)' # "none"
    BY DEF SettledAfterStart, HasDir
  <2>1. QED
    BY <1>1, <1>2 DEF AppInv, SettledAfterStart
<1>11. UpdateSees'
    BY DEF AppInv, UpdateSees, UpdateWaits
<1>12. QED
    BY <1>3, <1>5, <1>6, <1>7, <1>8, <1>9, <1>10, <1>11 DEF AppInv

LEMMA RecordOnKeeps == AppInv /\ RecordOn => AppInv'
<1> SUFFICES ASSUME AppInv, RecordOn PROVE AppInv'
    OBVIOUS
<1> USE AppAssumption DEF RecordOn, InApp, NoExit
<1>1. /\ folder \in [AppCalls -> Holds] /\ held \in AppCalls /\ held \in used /\ phase = "up"
      /\ held \notin removed => Row(held) = "recording"
    BY SessionsAreTyped DEF AppInv, AppShape
<1>2. PICK holds \in {"long", "chunks"} :
         /\ folder' \in [AppCalls -> Holds]
         /\ \A d \in AppCalls : folder'[d] = IF d = held THEN holds ELSE folder[d]
    BY <1>1, DiskIsSet DEF Holds
<1>3. AppShape' /\ Asleep' /\ StartGoesOn'
    BY <1>1, <1>2 DEF AppInv, AppShape, Asleep, StartGoesOn, Somebody
<1>4. \A d \in AppCalls : Row(d)' = Row(d) /\ (HasDir(d) => HasDir(d)')
    BY <1>2 DEF Row, HasDir
<1>5. SessionsApart' /\ WorkIsMarked' /\ WipeIsTold'
    BY <1>4 DEF AppInv, AppShape, SessionsApart, WorkIsMarked, WipeIsTold
<1>6. SessionsKept'
    BY <1>4, SessionsAreTyped DEF AppInv, SessionsKept, SessionKept, Wiped
<1>7. UnusedIsBlank'
    BY <1>1, <1>2, <1>4 DEF AppInv, UnusedIsBlank, HasDir
<1>8. RowHasSound'
    BY <1>1, <1>2, <1>4 DEF AppInv, AppShape, RowHasSound, LongCallKept
<1>9. SettledAfterStart'
  <2> SUFFICES ASSUME open, NEW d \in AppCalls \ left
               PROVE  /\ Row(d) = "recording" => d \in {held, begins, ending.user, ending.quit}
                      /\ Row(d) = "processing" => d \in working
                      /\ HasDir(d)' => Row(d) # "none"
    BY <1>4 DEF SettledAfterStart
  <2>1. Row(held) = "recording"
    BY SessionRows
  <2>2. QED
    BY <1>1, <1>2, <2>1 DEF AppInv, SettledAfterStart, HasDir
<1>10. UpdateSees'
    BY DEF AppInv, UpdateSees, UpdateWaits
<1>11. QED
    BY <1>3, <1>5, <1>6, <1>7, <1>8, <1>9, <1>10 DEF AppInv

LEMMA BeginSessionKeeps == AppInv /\ BeginSession => AppInv'
<1> SUFFICES ASSUME AppInv, BeginSession PROVE AppInv'
    OBVIOUS
<1> USE AppAssumption DEF BeginSession, InApp, NoExit
<1>1. PICK b \in AppCalls :
         b = begins /\ b \in used /\ phase = "up" /\ (b \notin removed => Row(b) = "recording")
    BY SessionsAreTyped
<1>2. /\ base \in Bases /\ folder \in [AppCalls -> Holds] /\ "failed" \in RowStatus
      /\ late \in [recorded : SUBSET AppCalls, cut : SUBSET AppCalls]
    BY DEF AppInv, AppShape, RowStatus
<1>3. /\ held = NoOne /\ b \notin {ending.user, ending.quit}
    BY <1>1 DEF AppInv, SessionsApart
<1>4. \A d \in {ending.user, ending.quit} \ {NoOne} :
         d \in AppCalls /\ d \in used /\ d # b /\ SessionKept(d) /\ (HasDir(d) \/ Wiped(d))
    BY <1>1, <1>3, SessionsAreTyped DEF AppInv, SessionsKept
<1>5. CASE /\ \E holds \in {"chunks", "short"} : SetDisk(begins, holds)
           /\ held' = begins /\ UNCHANGED <<base, left>>
           /\ late' = IF update = "applying" THEN [late EXCEPT !.recorded = @ \cup {begins}]
                      ELSE late
  <2>1. PICK holds \in {"chunks", "short"} :
           /\ folder' \in [AppCalls -> Holds]
           /\ \A d \in AppCalls : folder'[d] = IF d = b THEN holds ELSE folder[d]
    BY <1>1, <1>2, <1>5, DiskIsSet DEF Holds
  <2>2. /\ late' \in [recorded : SUBSET AppCalls, cut : SUBSET AppCalls]
        /\ late'.cut = late.cut /\ late.recorded \subseteq late'.recorded
        /\ update = "applying" => b \in late'.recorded
    <3>1. CASE update = "applying"
        BY <1>1, <1>2, <1>5, <3>1
    <3>2. CASE update # "applying"
        BY <1>2, <1>5, <3>2
    <3>3. QED
        BY <3>1, <3>2
  <2>3. AppShape' /\ Asleep' /\ StartGoesOn'
    BY <1>1, <1>5, <2>1, <2>2 DEF AppInv, AppShape, Asleep, StartGoesOn, Somebody
  <2>4. \A d \in AppCalls : Row(d)' = Row(d) /\ (HasDir(d) => HasDir(d)')
    BY <1>5, <2>1 DEF Row, HasDir
  <2>5. SessionsApart' /\ WorkIsMarked' /\ WipeIsTold'
    BY <1>1, <1>3, <1>5, <2>4 DEF AppInv, AppShape, SessionsApart, WorkIsMarked, WipeIsTold
  <2>6. SessionsKept'
    <3>1. SessionKept(b)' /\ HasDir(b)'
        BY <1>1, <2>1, <2>4 DEF AppInv, SessionsKept, SessionKept, Wiped, HasDir
    <3>2. \A d \in {ending.user, ending.quit} \ {NoOne} :
             d \in used /\ SessionKept(d)' /\ (HasDir(d)' \/ Wiped(d)')
        BY <1>4, <2>4 DEF SessionKept, Wiped
    <3>3. QED
        BY <1>1, <1>5, <3>1, <3>2 DEF SessionsKept
  <2>7. UnusedIsBlank'
    BY <1>1, <2>1, <2>4 DEF AppInv, UnusedIsBlank, HasDir
  <2>8. RowHasSound'
    BY <1>1, <2>1, <2>4 DEF AppInv, AppShape, RowHasSound, LongCallKept
  <2>9. SettledAfterStart'
    <3> SUFFICES ASSUME open, NEW d \in AppCalls \ left
                 PROVE  /\ Row(d) = "recording" => d \in {b, ending.user, ending.quit}
                        /\ Row(d) = "processing" => d \in working
                        /\ HasDir(d)' => Row(d) # "none"
        BY <1>1, <1>5, <2>4 DEF SettledAfterStart
    <3>1. Row(b) = "recording"
        BY <1>1, SessionRows
    <3>2. QED
        BY <1>1, <1>3, <2>1, <3>1 DEF AppInv, SettledAfterStart, HasDir
  <2>10. UpdateSees'
    BY <1>1, <1>5, <2>2 DEF AppInv, UpdateSees, UpdateWaits
  <2>11. QED
    BY <2>3, <2>5, <2>6, <2>7, <2>8, <2>9, <2>10 DEF AppInv
<1>6. CASE /\ open /\ SetRow(begins, "failed")
           /\ \E holds \in {"chunks", "nothing"} : SetDisk(begins, holds)
           /\ UNCHANGED <<held, left, late>>
  <2>1. PICK holds \in {"chunks", "nothing"} :
           /\ folder' \in [AppCalls -> Holds]
           /\ \A d \in AppCalls : folder'[d] = IF d = b THEN holds ELSE folder[d]
    BY <1>1, <1>2, <1>6, DiskIsSet DEF Holds
  <2>2. /\ base' \in Bases
        /\ \A d \in AppCalls : Row(d)' = IF d = b THEN "failed" ELSE Row(d)
    BY <1>1, <1>2, <1>6, RowIsSet
  <2>3. AppShape' /\ Asleep' /\ StartGoesOn'
    BY <1>1, <1>6, <2>1, <2>2 DEF AppInv, AppShape, Asleep, StartGoesOn, Somebody
  <2>4. Row(b) = "recording" /\ b \notin working
    BY <1>1, <1>6, SessionRows
  <2>5. SessionsApart' /\ WorkIsMarked' /\ WipeIsTold'
    BY <1>3, <1>6, <2>2, <2>4 DEF AppInv, AppShape, SessionsApart, WorkIsMarked, WipeIsTold
  <2>6. SessionsKept'
    BY <1>3, <1>4, <1>6, <2>1, <2>2 DEF SessionsKept, SessionKept, Wiped, HasDir
  <2>7. UnusedIsBlank'
    BY <1>1, <2>1, <2>2 DEF AppInv, UnusedIsBlank, HasDir
  <2>8. RowHasSound'
    BY <1>1, <2>1, <2>2 DEF AppInv, AppShape, RowHasSound, LongCallKept, HasDir
  <2>9. SettledAfterStart'
    <3> SUFFICES ASSUME NEW d \in AppCalls \ left
                 PROVE  /\ Row(d)' = "recording" => d \in {ending.user, ending.quit}
                        /\ Row(d)' = "processing" => d \in working
                        /\ HasDir(d)' => Row(d)' # "none"
        BY <1>6 DEF SettledAfterStart
    <3>1. QED
        BY <1>1, <1>3, <1>6, <2>1, <2>2 DEF AppInv, SettledAfterStart, HasDir
  <2>10. UpdateSees'
    BY <1>6 DEF AppInv, UpdateSees, UpdateWaits
  <2>11. QED
    BY <2>3, <2>5, <2>6, <2>7, <2>8, <2>9, <2>10 DEF AppInv
<1>7. CASE left' = left \cup {begins} /\ UNCHANGED <<base, folder, held, late>>
  <2>1. AppShape' /\ Asleep' /\ StartGoesOn'
    BY <1>1, <1>7 DEF AppInv, AppShape, Asleep, StartGoesOn, Somebody
  <2>2. SessionsApart' /\ WorkIsMarked' /\ WipeIsTold'
    BY <1>7 DEF AppInv, SessionsApart, WorkIsMarked, WipeIsTold, Row
  <2>3. SessionsKept'
    BY <1>7 DEF AppInv, SessionsKept, SessionKept, Wiped, Row, HasDir
  <2>4. UnusedIsBlank' /\ RowHasSound'
    BY <1>7 DEF AppInv, UnusedIsBlank, RowHasSound, LongCallKept, Row, HasDir
  <2>5. SettledAfterStart'
    BY <1>1, <1>7 DEF AppInv, SettledAfterStart, Row, HasDir
  <2>6. UpdateSees'
    BY <1>7 DEF AppInv, UpdateSees, UpdateWaits
  <2>7. QED
    BY <2>1, <2>2, <2>3, <2>4, <2>5, <2>6 DEF AppInv
<1>8. QED
    BY <1>5, <1>6, <1>7

LEMMA TakeHeldKeeps == AppInv /\ TakeHeld => AppInv'
<1> SUFFICES ASSUME AppInv, TakeHeld PROVE AppInv'
    OBVIOUS
<1> USE AppAssumption DEF TakeHeld, InApp, NoExit
<1>1. phase = "up" /\ held \in AppCalls /\ begins = NoOne
    BY SessionsAreTyped DEF AppInv, SessionsApart
<1>2. /\ ending' \in [user : Somebody, quit : Somebody]
      /\ ending'.user = held /\ ending'.quit = ending.quit
    BY <1>1 DEF AppInv, AppShape, Somebody
<1>3. late' \in [recorded : SUBSET AppCalls, cut : SUBSET AppCalls] /\ late'.cut = {}
    BY DEF NoUpdate
<1>4. AppShape' /\ Asleep' /\ StartGoesOn'
    BY <1>1, <1>2, <1>3 DEF AppInv, AppShape, Asleep, StartGoesOn, Somebody
<1>5. SessionsApart'
    BY <1>1, <1>2 DEF AppInv, SessionsApart
<1>6. SessionsKept'
    BY <1>1, <1>2 DEF AppInv, SessionsKept, SessionKept, Wiped, Row, HasDir
<1>7. WorkIsMarked' /\ WipeIsTold' /\ UnusedIsBlank' /\ RowHasSound'
    BY DEF AppInv, WorkIsMarked, WipeIsTold, UnusedIsBlank, RowHasSound, LongCallKept,
           Row, HasDir
<1>8. SettledAfterStart'
    BY <1>1, <1>2 DEF AppInv, SettledAfterStart, Row, HasDir
<1>9. UpdateSees'
    BY <1>3 DEF UpdateSees, UpdateWaits
<1>10. QED
    BY <1>4, <1>5, <1>6, <1>7, <1>8, <1>9 DEF AppInv

LEMMA EndHeldKeeps == AppInv /\ EndHeld => AppInv'
<1> SUFFICES ASSUME AppInv, EndHeld PROVE AppInv'
    OBVIOUS
<1> USE AppAssumption DEF EndHeld, InApp, NoExit
<1>1. PICK c \in AppCalls :
         /\ c = ending.user /\ c \in used /\ phase = "up"
         /\ c \notin removed => Row(c) = "recording"
    BY SessionsAreTyped
<1>2. /\ base \in Bases /\ folder \in [AppCalls -> Holds]
      /\ {"none", "processing"} \subseteq RowStatus /\ "nothing" \in Holds
    BY DEF AppInv, AppShape, RowStatus, Holds
<1>3. /\ ending' \in [user : Somebody, quit : Somebody]
      /\ ending'.user = NoOne /\ ending'.quit = ending.quit
    BY DEF AppInv, AppShape, Somebody
<1>4. c \notin {held, begins, ending.quit}
    BY <1>1 DEF AppInv, SessionsApart
<1>5. SessionsApart' /\ WipeIsTold' /\ UpdateSees'
    BY <1>3 DEF AppInv, SessionsApart, WipeIsTold, UpdateSees, UpdateWaits
<1>6. \A d \in {held, begins, ending.quit} \ {NoOne} :
         d \in AppCalls /\ d \in used /\ d # c /\ SessionKept(d)
    BY <1>1, <1>4, SessionsAreTyped DEF AppInv, SessionsKept
<1>7. CASE ~open
  <2>1. UNCHANGED <<base, folder, working>>
    BY <1>7
  <2>2. AppShape' /\ Asleep' /\ StartGoesOn'
    BY <1>1, <1>3, <2>1 DEF AppInv, AppShape, Asleep, StartGoesOn
  <2>3. SessionsKept'
    BY <1>3, <2>1 DEF AppInv, SessionsKept, SessionKept, Wiped, Row, HasDir
  <2>4. WorkIsMarked' /\ UnusedIsBlank' /\ RowHasSound' /\ SettledAfterStart'
    BY <1>7, <2>1 DEF AppInv, WorkIsMarked, UnusedIsBlank, RowHasSound, LongCallKept,
                      SettledAfterStart, Row, HasDir
  <2>5. QED
    BY <1>5, <2>2, <2>3, <2>4 DEF AppInv
<1>8. CASE open
  <2>1. Row(c) = "recording" /\ c \notin working
    BY <1>1, <1>8, SessionRows
  <2>2. HasDir(c) \/ Wiped(c)
    BY <1>1 DEF AppInv, SessionsKept
  <2>3. CASE /\ folder[c] # "long"
             /\ SetRow(c, "none") /\ UNCHANGED working
             /\ \/ SetDisk(c, "nothing") /\ UNCHANGED left
                \/ UNCHANGED folder /\ left' = left \cup {c}
    <3>1. /\ base' \in Bases
          /\ \A d \in AppCalls : Row(d)' = IF d = c THEN "none" ELSE Row(d)
        BY <1>2, <2>3, RowIsSet
    <3>2. /\ folder' \in [AppCalls -> Holds] /\ folder'[c] # "long"
          /\ \A d \in AppCalls \ {c} : folder'[d] = folder[d]
          /\ HasDir(c)' => c \in left'
          /\ left \subseteq left'
        BY <1>2, <2>3, DiskIsSet DEF HasDir
    <3>3. AppShape' /\ Asleep' /\ StartGoesOn'
        BY <1>1, <1>3, <2>3, <3>1, <3>2 DEF AppInv, AppShape, Asleep, StartGoesOn
    <3>4. SessionsKept'
        BY <1>3, <1>6, <3>1, <3>2 DEF AppInv, SessionsKept, SessionKept, Wiped, HasDir
    <3>5. WorkIsMarked'
        BY <2>1, <2>3, <3>1 DEF AppInv, AppShape, WorkIsMarked
    <3>6. UnusedIsBlank'
        BY <1>1, <3>1, <3>2 DEF AppInv, UnusedIsBlank, HasDir
    <3>7. RowHasSound'
        BY <3>1, <3>2 DEF AppInv, AppShape, RowHasSound, LongCallKept, HasDir
    <3>8. SettledAfterStart'
      <4> SUFFICES ASSUME NEW d \in AppCalls \ left'
                   PROVE  /\ Row(d)' = "recording" => d \in {held, begins, ending.quit}
                          /\ Row(d)' = "processing" => d \in working
                          /\ HasDir(d)' => Row(d)' # "none"
        BY <1>3, <2>3 DEF SettledAfterStart
      <4>1. CASE d = c
        BY <3>1, <3>2, <4>1
      <4>2. CASE d # c
        BY <1>1, <1>8, <3>1, <3>2, <4>2 DEF AppInv, SettledAfterStart, HasDir
      <4>3. QED
        BY <4>1, <4>2
    <3>9. QED
        BY <1>5, <3>3, <3>4, <3>5, <3>6, <3>7, <3>8 DEF AppInv
  <2>4. CASE SetRow(c, "processing") /\ working' = working \cup {c} /\ UNCHANGED <<folder, left>>
    <3>1. /\ base' \in Bases
          /\ \A d \in AppCalls : Row(d)' = IF d = c THEN "processing" ELSE Row(d)
        BY <1>2, <2>4, RowIsSet
    <3>2. AppShape' /\ Asleep' /\ StartGoesOn'
        BY <1>1, <1>3, <2>4, <3>1 DEF AppInv, AppShape, Asleep, StartGoesOn
    <3>3. SessionsKept'
        BY <1>3, <1>6, <2>4, <3>1 DEF AppInv, SessionsKept, SessionKept, Wiped, HasDir
    <3>4. WorkIsMarked'
        BY <2>4, <3>1 DEF AppInv, AppShape, WorkIsMarked
    <3>5. UnusedIsBlank'
        BY <1>1, <2>4, <3>1 DEF AppInv, UnusedIsBlank, HasDir
    <3>6. RowHasSound'
        BY <1>8, <2>2, <2>4, <3>1 DEF AppInv, AppShape, RowHasSound, LongCallKept, HasDir, Wiped
    <3>7. SettledAfterStart'
      <4> SUFFICES ASSUME NEW d \in AppCalls \ left
                   PROVE  /\ Row(d)' = "recording" => d \in {held, begins, ending.quit}
                          /\ Row(d)' = "processing" => d \in working'
                          /\ HasDir(d)' => Row(d)' # "none"
        BY <1>3, <2>4 DEF SettledAfterStart
      <4>1. QED
        BY <1>1, <1>8, <2>4, <3>1 DEF AppInv, SettledAfterStart, HasDir
    <3>8. QED
        BY <1>5, <3>2, <3>3, <3>4, <3>5, <3>6, <3>7 DEF AppInv
  <2>5. QED
    BY <1>1, <1>8, <2>3, <2>4
<1>9. QED
    BY <1>7, <1>8

LEMMA TaskEndsKeeps ==
    ASSUME AppInv, NEW c \in AppCalls, TaskEnds(c)
    PROVE  AppInv'
<1> USE AppAssumption DEF TaskEnds, InApp, NoExit
<1>1. /\ base \in Bases /\ folder \in [AppCalls -> Holds]
      /\ {"ready", "failed"} \subseteq RowStatus /\ phase = "up"
    BY DEF AppInv, AppShape, RowStatus, Asleep
<1>2. SessionsApart' /\ WipeIsTold' /\ UpdateSees'
    BY DEF AppInv, SessionsApart, WipeIsTold, UpdateSees, UpdateWaits
<1>3. CASE ~open
  <2>1. UNCHANGED <<base, folder>>
    BY <1>3
  <2>2. AppShape' /\ Asleep' /\ StartGoesOn'
    BY <1>1, <2>1 DEF AppInv, AppShape, Asleep, StartGoesOn
  <2>3. SessionsKept'
    BY <2>1 DEF AppInv, SessionsKept, SessionKept, Wiped, Row, HasDir
  <2>4. WorkIsMarked' /\ UnusedIsBlank' /\ RowHasSound' /\ SettledAfterStart'
    BY <1>3, <2>1 DEF AppInv, WorkIsMarked, UnusedIsBlank, RowHasSound, LongCallKept,
                      SettledAfterStart, Row, HasDir
  <2>5. QED
    BY <1>2, <2>2, <2>3, <2>4 DEF AppInv
<1>4. CASE open
  <2>1. PICK status \in {"ready", "failed"} : SetRow(c, status)
    BY <1>4
  <2>2. /\ base' \in Bases
        /\ \A d \in AppCalls : Row(d)' = IF d = c THEN status ELSE Row(d)
    BY <1>1, <2>1, RowIsSet
  <2>3. folder' \in {folder, [folder EXCEPT ![c] = IF @ = "chunks" THEN "long" ELSE @]}
    BY <1>4
  <2>4. /\ folder' \in [AppCalls -> Holds]
        /\ \A d \in AppCalls : /\ HasDir(d)' <=> HasDir(d)
                               /\ folder'[d] = folder[d] \/ d = c
    BY <1>1, <2>3 DEF Holds, HasDir
  <2>5. Row(c) = "processing" /\ c \in used
    BY <1>4 DEF AppInv, WorkIsMarked, UnusedIsBlank
  <2>6. AppShape' /\ Asleep' /\ StartGoesOn'
    BY <1>1, <2>2, <2>4 DEF AppInv, AppShape, Asleep, StartGoesOn
  <2>7. \A d \in {held, begins, ending.user, ending.quit} \ {NoOne} :
           d \in AppCalls /\ d \in used /\ Row(d)' = "recording"
    BY <1>4, <2>2, <2>5, SessionRows
  <2>8. SessionsKept'
    BY <2>4, <2>7 DEF AppInv, SessionsKept, SessionKept, Wiped
  <2>9. WorkIsMarked' /\ UnusedIsBlank'
    BY <2>2, <2>4, <2>5 DEF AppInv, AppShape, WorkIsMarked, UnusedIsBlank
  <2>10. RowHasSound'
    <3> SUFFICES ASSUME NEW d \in AppCalls, d \in used \ removed
                 PROVE  /\ folder'[d] = "long" => Row(d)' # "none" \/ d \in aside
                        /\ Row(d)' \in {"processing", "ready"} /\ ~emptied => HasDir(d)'
        BY DEF AppInv, AppShape, RowHasSound, LongCallKept
    <3>1. /\ folder[d] = "long" => Row(d) # "none" \/ d \in aside
          /\ Row(d) \in {"processing", "ready"} /\ ~emptied => HasDir(d)
        BY DEF AppInv, RowHasSound, LongCallKept
    <3>2. CASE d = c
        BY <2>1, <2>2, <2>4, <2>5, <3>1, <3>2
    <3>3. CASE d # c
        BY <2>2, <2>4, <3>1, <3>3
    <3>4. QED
        BY <3>2, <3>3
  <2>11. SettledAfterStart'
    <3> SUFFICES ASSUME NEW d \in AppCalls \ left
                 PROVE  /\ Row(d)' = "recording" => d \in {held, begins, ending.user, ending.quit}
                        /\ Row(d)' = "processing" => d \in working'
                        /\ HasDir(d)' => Row(d)' # "none"
        BY DEF SettledAfterStart
    <3>1. CASE d = c
        BY <2>1, <2>2, <3>1
    <3>2. CASE d # c
        BY <1>1, <1>4, <2>2, <2>4, <3>2 DEF AppInv, SettledAfterStart
    <3>3. QED
        BY <3>1, <3>2
  <2>12. QED
    BY <1>2, <2>6, <2>8, <2>9, <2>10, <2>11 DEF AppInv
<1>5. QED
    BY <1>3, <1>4

LEMMA DeleteRowKeeps ==
    ASSUME AppInv, NEW c \in AppCalls, DeleteRow(c)
    PROVE  AppInv'
<1> USE AppAssumption DEF DeleteRow, InApp, NoExit
<1>1. /\ base \in Bases /\ folder \in [AppCalls -> Holds]
      /\ "none" \in RowStatus /\ "nothing" \in Holds
    BY DEF AppInv, AppShape, RowStatus, Holds
<1>2. /\ base' \in Bases
      /\ \A d \in AppCalls : Row(d)' = IF d = c THEN "none" ELSE Row(d)
    BY <1>1, RowIsSet
<1>3. /\ folder' \in [AppCalls -> Holds]
      /\ \A d \in AppCalls \ {c} : folder'[d] = folder[d]
      /\ HasDir(c)' => c \in left'
      /\ left \subseteq left' /\ (HasDir(c)' => HasDir(c))
    BY <1>1, DiskIsSet DEF HasDir
<1>4. AppShape' /\ Asleep' /\ StartGoesOn'
    BY <1>2, <1>3 DEF AppInv, AppShape, Asleep, StartGoesOn
<1>5. \A d \in {held, begins, ending.user, ending.quit} \ {NoOne} :
         d \in AppCalls /\ d \in used /\ Row(d)' = "recording" /\ d # c
    BY <1>2, SessionRows
<1>6. SessionsKept'
    BY <1>3, <1>5 DEF AppInv, SessionsKept, SessionKept, Wiped, HasDir
<1>7. SessionsApart' /\ WipeIsTold' /\ UpdateSees'
    BY DEF AppInv, AppShape, SessionsApart, WipeIsTold, UpdateSees, UpdateWaits
<1>8. WorkIsMarked'
    BY <1>2 DEF AppInv, AppShape, WorkIsMarked
<1>9. UnusedIsBlank'
    BY <1>2, <1>3 DEF AppInv, UnusedIsBlank, HasDir
<1>10. RowHasSound'
    BY <1>2, <1>3 DEF AppInv, AppShape, RowHasSound, LongCallKept, HasDir
<1>11. SettledAfterStart'
  <2> SUFFICES ASSUME NEW d \in AppCalls \ left'
               PROVE  /\ Row(d)' = "recording" => d \in {held, begins, ending.user, ending.quit}
                      /\ Row(d)' = "processing" => d \in working
                      /\ HasDir(d)' => Row(d)' # "none"
    BY DEF SettledAfterStart
  <2>1. CASE d = c
    BY <1>2, <1>3, <2>1
  <2>2. CASE d # c
    BY <1>2, <1>3, <2>2 DEF AppInv, SettledAfterStart, HasDir
  <2>3. QED
    BY <2>1, <2>2
<1>12. QED
    BY <1>4, <1>6, <1>7, <1>8, <1>9, <1>10, <1>11 DEF AppInv

LEMMA WipeClosesKeeps == AppInv /\ WipeCloses => AppInv'
<1> SUFFICES ASSUME AppInv, WipeCloses PROVE AppInv'
    OBVIOUS
<1> USE DEF WipeCloses, InApp
<1>1. AppShape' /\ Asleep' /\ SessionsApart' /\ WorkIsMarked' /\ WipeIsTold'
    BY DEF AppInv, AppShape, Asleep, SessionsApart, WorkIsMarked, WipeIsTold
<1>2. SessionsKept'
    BY DEF AppInv, SessionsKept, SessionKept, Wiped
<1>3. UnusedIsBlank' /\ RowHasSound'
    BY DEF AppInv, UnusedIsBlank, RowHasSound, LongCallKept, Row, HasDir
<1>4. StartGoesOn' /\ SettledAfterStart' /\ UpdateSees'
    BY DEF AppInv, StartGoesOn, SettledAfterStart, UpdateSees, UpdateWaits
<1>5. QED
    BY <1>1, <1>2, <1>3, <1>4 DEF AppInv

LEMMA WipeCallsKeeps == AppInv /\ WipeCalls => AppInv'
<1> SUFFICES ASSUME AppInv, WipeCalls PROVE AppInv'
    OBVIOUS
<1> USE AppAssumption DEF WipeCalls, InApp
<1>1. ~open /\ phase = "up" /\ used \subseteq removed
    BY DEF AppInv, WipeIsTold, Asleep
<1>2. folder' \in [AppCalls -> Holds] /\ \A c \in AppCalls : HasDir(c)' => HasDir(c)
    BY DEF AppInv, AppShape, Holds, HasDir
<1>3. AppShape' /\ Asleep' /\ SessionsApart' /\ WorkIsMarked' /\ WipeIsTold'
    BY <1>1, <1>2 DEF AppInv, AppShape, Asleep, SessionsApart, WorkIsMarked, WipeIsTold
<1>4. SessionsKept'
    BY <1>1 DEF AppInv, SessionsKept, SessionKept, Wiped, Row
<1>5. UnusedIsBlank'
    BY <1>2 DEF AppInv, UnusedIsBlank, Row
<1>6. RowHasSound'
    BY <1>1 DEF RowHasSound, LongCallKept
<1>7. StartGoesOn' /\ SettledAfterStart' /\ UpdateSees'
    BY <1>1 DEF AppInv, StartGoesOn, SettledAfterStart, UpdateSees, UpdateWaits
<1>8. QED
    BY <1>3, <1>4, <1>5, <1>6, <1>7 DEF AppInv

LEMMA WipeBaseKeeps == AppInv /\ WipeBase => AppInv'
<1> SUFFICES ASSUME AppInv, WipeBase PROVE AppInv'
    OBVIOUS
<1> USE AppAssumption DEF WipeBase, InApp
<1>1. ~open /\ phase = "up" /\ used \subseteq removed
    BY DEF AppInv, WipeIsTold, Asleep
<1>2. PICK row \in [AppCalls -> RowStatus] : row = [c \in AppCalls |-> "none"]
    BY DEF RowStatus
<1>3. base' \in Bases /\ base'.row = row
    BY <1>2 DEF Bases
<1>4. \A c \in AppCalls : Row(c)' = "none"
    BY <1>2, <1>3 DEF Row
<1>5. AppShape' /\ Asleep' /\ SessionsApart' /\ WorkIsMarked' /\ WipeIsTold'
    BY <1>1, <1>3 DEF AppInv, AppShape, Asleep, SessionsApart, WorkIsMarked, WipeIsTold
<1>6. SessionsKept'
    BY <1>1 DEF AppInv, SessionsKept, SessionKept, Wiped
<1>7. UnusedIsBlank'
    BY <1>4 DEF AppInv, UnusedIsBlank, HasDir
<1>8. RowHasSound'
    BY <1>1 DEF RowHasSound, LongCallKept
<1>9. StartGoesOn' /\ SettledAfterStart' /\ UpdateSees'
    BY <1>1 DEF AppInv, StartGoesOn, SettledAfterStart, UpdateSees, UpdateWaits
<1>10. QED
    BY <1>5, <1>6, <1>7, <1>8, <1>9 DEF AppInv

\* What a step of the window, of the quit or of an update leaves as it was.
LEMMA OnlyExitKeeps ==
    ASSUME AppInv, OnlyExit, phase = "up", UNCHANGED <<held, ending, working>>,
           window' \in {"shown", "asked", "gone"}, leaving' \in {"no", "take", "stop", "drain"},
           leaving' = "stop" <=> leaving = "stop", update' \in {"no", "applying"},
           late' \in [recorded : SUBSET AppCalls, cut : SUBSET AppCalls], UpdateSees'
    PROVE  AppInv'
<1> USE DEF OnlyExit, dataVars, pastVars
<1>1. AppShape' /\ Asleep' /\ SessionsApart' /\ WorkIsMarked' /\ WipeIsTold'
    BY DEF AppInv, AppShape, Asleep, SessionsApart, WorkIsMarked, WipeIsTold, Row
<1>2. SessionsKept' /\ UnusedIsBlank' /\ RowHasSound'
    BY DEF AppInv, SessionsKept, SessionKept, Wiped, UnusedIsBlank, RowHasSound, LongCallKept,
           Row, HasDir
<1>3. StartGoesOn' /\ SettledAfterStart'
    BY DEF AppInv, StartGoesOn, SettledAfterStart, Row, HasDir
<1>4. QED
    BY <1>1, <1>2, <1>3 DEF AppInv

LEMMA WindowGoesKeeps ==
    ASSUME AppInv, phase = "up", NEW to \in {"asked", "gone"}, WindowGoes(to)
    PROVE  AppInv'
<1>1. UpdateSees'
    BY DEF AppInv, WindowGoes, UpdateSees, UpdateWaits
<1>2. QED
    BY <1>1, OnlyExitKeeps DEF WindowGoes, AppInv, AppShape

LEMMA PressQuitKeeps == AppInv /\ PressQuit => AppInv'
BY ExitKeeps, WindowGoesKeeps DEF PressQuit

LEMMA CloseRequestedKeeps == AppInv /\ CloseRequested => AppInv'
<1> SUFFICES ASSUME AppInv, CloseRequested PROVE AppInv'
    OBVIOUS
<1>1. CASE /\ held # NoOne /\ leaving' = IF leaving = "no" THEN "take" ELSE leaving
           /\ window' = "shown"
           /\ OnlyExit /\ UNCHANGED <<late, held, ending, working, update>>
  <2>1. /\ leaving' \in {"no", "take", "stop", "drain"}
        /\ leaving' = "stop" <=> leaving = "stop"
    BY <1>1 DEF AppInv, AppShape
  <2>2. UpdateSees'
    BY <1>1 DEF AppInv, UpdateSees, UpdateWaits
  <2>3. QED
    BY <1>1, <2>1, <2>2, OnlyExitKeeps DEF CloseRequested, AppInv, AppShape
<1>2. CASE Exit
    BY <1>2, ExitKeeps
<1>3. CASE WindowGoes("gone")
    BY <1>3, WindowGoesKeeps DEF CloseRequested
<1>4. QED
    BY <1>1, <1>2, <1>3 DEF CloseRequested

LEMMA InstallWhenIdleKeeps == AppInv /\ InstallWhenIdle => AppInv'
<1> SUFFICES ASSUME AppInv, InstallWhenIdle PROVE AppInv'
    OBVIOUS
<1> USE DEF InstallWhenIdle, UpdateGoes
<1>1. late' \in [recorded : SUBSET AppCalls, cut : SUBSET AppCalls] /\ late'.cut = {}
    BY DEF NoUpdate
<1>2. UpdateSees'
    BY <1>1 DEF UpdateSees, UpdateWaits, SafeToRestart
<1>3. QED
    BY <1>1, <1>2, OnlyExitKeeps DEF AppInv, AppShape

LEMMA UpdateFailsKeeps == AppInv /\ UpdateFails => AppInv'
<1> SUFFICES ASSUME AppInv, UpdateFails PROVE AppInv'
    OBVIOUS
<1> USE DEF UpdateFails, UpdateGoes
<1>1. late' \in [recorded : SUBSET AppCalls, cut : SUBSET AppCalls] /\ late'.cut = {}
    BY DEF NoUpdate
<1>2. UpdateSees' /\ phase = "up"
    BY <1>1 DEF AppInv, Asleep, UpdateSees, UpdateWaits
<1>3. QED
    BY <1>1, <1>2, OnlyExitKeeps DEF AppInv, AppShape

LEMMA TakeLastKeeps == AppInv /\ TakeLast => AppInv'
<1> SUFFICES ASSUME AppInv, TakeLast PROVE AppInv'
    OBVIOUS
<1> USE AppAssumption DEF TakeLast, Leaves
<1>1. phase = "up" /\ held \in Somebody
    BY DEF AppInv, Asleep, AppShape
<1>2. ending.quit = NoOne /\ (ending.user # NoOne => ending.user # held)
    BY DEF AppInv, SessionsApart
<1>3. /\ ending' \in [user : Somebody, quit : Somebody]
      /\ ending'.user = ending.user /\ ending'.quit = held
    BY <1>1 DEF AppInv, AppShape
<1>4. late' \in [recorded : SUBSET AppCalls, cut : SUBSET AppCalls] /\ late'.cut = {}
    BY DEF NoUpdate
<1>5. leaving' = IF held = NoOne THEN "drain" ELSE "stop"
    OBVIOUS
<1>6. AppShape' /\ Asleep' /\ StartGoesOn'
    BY <1>1, <1>3, <1>4, <1>5 DEF AppInv, AppShape, Asleep, StartGoesOn, Somebody
<1>7. SessionsApart'
    BY <1>2, <1>3, <1>5 DEF SessionsApart
<1>8. SessionsKept'
    BY <1>3 DEF AppInv, SessionsKept, SessionKept, Wiped, Row, HasDir
<1>9. WorkIsMarked' /\ WipeIsTold' /\ UnusedIsBlank' /\ RowHasSound'
    BY DEF AppInv, WorkIsMarked, WipeIsTold, UnusedIsBlank, RowHasSound, LongCallKept,
           Row, HasDir
<1>10. SettledAfterStart'
    BY <1>2, <1>3 DEF AppInv, AppShape, SettledAfterStart, Row, HasDir
<1>11. UpdateSees'
    BY <1>4 DEF UpdateSees, UpdateWaits
<1>12. QED
    BY <1>6, <1>7, <1>8, <1>9, <1>10, <1>11 DEF AppInv

LEMMA StopLastKeeps == AppInv /\ StopLast => AppInv'
<1> SUFFICES ASSUME AppInv, StopLast PROVE AppInv'
    OBVIOUS
<1> USE AppAssumption DEF StopLast, Leaves
<1>1. ending.quit # NoOne
    BY DEF AppInv, SessionsApart
<1>2. PICK q \in AppCalls : q = ending.quit /\ q \in used /\ phase = "up"
    BY <1>1, SessionsAreTyped
<1>3. /\ ending' \in [user : Somebody, quit : Somebody]
      /\ ending'.user = ending.user /\ ending'.quit = NoOne
    BY DEF AppInv, AppShape, Somebody
<1>4. /\ q \notin {held, begins, ending.user} /\ left' = left \cup {q}
    BY <1>2 DEF AppInv, SessionsApart
<1>5. SessionsApart' /\ WipeIsTold' /\ UpdateSees'
    BY <1>3 DEF AppInv, SessionsApart, WipeIsTold, UpdateSees, UpdateWaits
<1>6. /\ base' \in Bases
      /\ \A d \in AppCalls : Row(d)' = Row(d) \/ (d = q /\ Row(d)' = "failed" /\ open)
  <2>1. base \in Bases /\ "failed" \in RowStatus
    BY DEF AppInv, AppShape, RowStatus
  <2>2. CASE UNCHANGED base
    BY <2>1, <2>2 DEF Row
  <2>3. CASE open /\ SetRow(ending.quit, "failed")
    BY <1>2, <2>1, <2>3, RowIsSet
  <2>4. QED
    BY <2>2, <2>3
<1>7. AppShape' /\ Asleep' /\ StartGoesOn'
    BY <1>2, <1>3, <1>6 DEF AppInv, AppShape, Asleep, StartGoesOn
<1>8. \A d \in {held, begins, ending.user} \ {NoOne} :
         d \in used /\ SessionKept(d)'
    BY <1>4, <1>6, SessionsAreTyped DEF AppInv, SessionsKept, SessionKept, Wiped
<1>9. SessionsKept'
    BY <1>3, <1>8 DEF AppInv, SessionsKept, Wiped, HasDir
<1>10. WorkIsMarked'
    BY <1>1, <1>2, <1>6, SessionRows DEF AppInv, AppShape, WorkIsMarked
<1>11. UnusedIsBlank'
    BY <1>2, <1>6 DEF AppInv, UnusedIsBlank, HasDir
<1>12. RowHasSound'
    BY <1>6 DEF AppInv, AppShape, RowHasSound, LongCallKept, HasDir
<1>13. SettledAfterStart'
  <2> SUFFICES ASSUME open, NEW d \in AppCalls \ left, d # q
               PROVE  /\ Row(d)' = "recording" => d \in {held, begins, ending.user}
                      /\ Row(d)' = "processing" => d \in working
                      /\ HasDir(d) => Row(d)' # "none"
    BY <1>3, <1>4 DEF SettledAfterStart, HasDir
  <2>1. Row(d)' = Row(d)
    BY <1>6
  <2>2. QED
    BY <1>2, <2>1 DEF AppInv, SettledAfterStart
<1>14. QED
    BY <1>5, <1>7, <1>9, <1>10, <1>11, <1>12, <1>13 DEF AppInv

LEMMA AppInvNext == AppInv /\ [AppNext]_appVars => AppInv'
<1> SUFFICES ASSUME AppInv, [AppNext]_appVars PROVE AppInv'
    OBVIOUS
<1>1. CASE StartUp
    BY <1>1, StartUpKeeps
<1>2. CASE \E c \in AppCalls : InsertRow(c) \/ TaskBegins(c) \/ TaskEnds(c) \/ DeleteRow(c)
    BY <1>2, InsertRowKeeps, TaskBeginsKeeps, TaskEndsKeeps, DeleteRowKeeps
<1>3. CASE BeginSession \/ RecordOn \/ TakeHeld \/ EndHeld
    BY <1>3, BeginSessionKeeps, RecordOnKeeps, TakeHeldKeeps, EndHeldKeeps
<1>4. CASE WipeCloses \/ WipeCalls \/ WipeBase
    BY <1>4, WipeClosesKeeps, WipeCallsKeeps, WipeBaseKeeps
<1>5. CASE PressQuit \/ CloseRequested \/ TakeLast \/ StopLast \/ DrainTasks \/ Crash
    BY <1>5, PressQuitKeeps, CloseRequestedKeeps, TakeLastKeeps, StopLastKeeps, ExitKeeps,
       CrashKeeps DEF DrainTasks
<1>6. CASE InstallWhenIdle \/ UpdateFails \/ RestartUpdated \/ ApplyUpdate
    BY <1>6, InstallWhenIdleKeeps, UpdateFailsKeeps, RestartUpdatedKeeps, ExitKeeps
    DEF ApplyUpdate
<1>7. CASE UNCHANGED appVars
  <2> USE <1>7 DEF appVars, dataVars, runVars, pastVars
  <2>1. AppShape' /\ Asleep' /\ SessionsApart' /\ WorkIsMarked' /\ WipeIsTold'
    BY DEF AppInv, AppShape, Asleep, SessionsApart, WorkIsMarked, WipeIsTold, Row
  <2>2. SessionsKept' /\ UnusedIsBlank' /\ RowHasSound'
    BY DEF AppInv, SessionsKept, SessionKept, Wiped, UnusedIsBlank, RowHasSound, LongCallKept,
           Row, HasDir
  <2>3. StartGoesOn' /\ SettledAfterStart' /\ UpdateSees'
    BY DEF AppInv, StartGoesOn, SettledAfterStart, UpdateSees, UpdateWaits, Row, HasDir
  <2>4. QED
    BY <2>1, <2>2, <2>3 DEF AppInv
<1>8. QED
    BY <1>1, <1>2, <1>3, <1>4, <1>5, <1>6, <1>7 DEF AppNext

LEMMA StartsCleanFollows == AppInv => StartsClean
<1> SUFFICES ASSUME AppInv PROVE StartsClean
    OBVIOUS
<1>1. AppTypeOK
    BY DEF AppInv, AppShape, AppTypeOK, Bases, RowStatus, Holds, Somebody
<1>2. QED
    BY <1>1 DEF AppInv, StartsClean, UpdateSees

\* However the application ends and starts: a long recording stays, every row of a started
\* application tells of work that somebody does, every directory has its row, and an update
\* cuts off no recording it could have waited for; for any calls and number of starts.
THEOREM StartsCleanHolds == AppSpec => []StartsClean
<1>1. AppSpec => []AppInv
    BY AppInvInit, AppInvNext, PTL DEF AppSpec
<1>2. QED
    BY <1>1, StartsCleanFollows, PTL
-----------------------------------------------------------------------------
(***************************************************************************)
(* ResourceQueue: one process per resource, for any tasks and any aborts.   *)
(*                                                                         *)
(* The property is not inductive: it rests on where the permit is while a   *)
(* task finds out that it has it, and on the queue holding no task twice.   *)
(***************************************************************************)
\* From the moment the semaphore hands the permit over until its drop.
Owning == {"granted", "holding", "running", "ended", "cleared"}

OwnerHasPermit == \A t \in Tasks : step[t] \in Owning => permit = t

PermitHasOwner == permit # Free => step[permit] \in Owning

ProcessIsRun == \A t \in processes : step[t] = "running"

BusyIsHeld == busy # Free => step[busy] \in {"holding", "running", "ended"}

QueueIsQueued == \A i \in 1..Len(semQueue) : step[semQueue[i]] = "queued"

QueuedOnce ==
    \A i, j \in 1..Len(semQueue) : semQueue[i] = semQueue[j] => i = j

ListedWaits ==
    \A t \in waitingList : step[t] \in {"listed", "queued", "granted", "leaving"}

QueueInv ==
    /\ QueueTypeOK
    /\ OwnerHasPermit
    /\ PermitHasOwner
    /\ ProcessIsRun
    /\ BusyIsHeld
    /\ QueueIsQueued
    /\ QueuedOnce
    /\ ListedWaits

LEMMA QueueInvInit == QueueInit => QueueInv
BY QueueAssumption
DEF QueueInit, QueueInv, QueueTypeOK, OwnerHasPermit, PermitHasOwner, ProcessIsRun,
    BusyIsHeld, QueueIsQueued, QueuedOnce, ListedWaits, QueueAssumption, Steps, Owning

\* A step of one task that leaves the permit and its queue alone.
PlainTo(t, to) ==
    /\ step' = [step EXCEPT ![t] = to]
    /\ UNCHANGED <<permit, semQueue>>
    /\ step[t] # "queued" /\ to # "queued"
    /\ (step[t] \in Owning) <=> (to \in Owning)
    /\ processes' \subseteq Tasks
    /\ \A u \in processes' : (u = t /\ to = "running") \/ (u # t /\ u \in processes)
    /\ busy' \in Tasks \cup {Free}
    /\ \/ busy' = Free
       \/ busy' = t /\ to \in {"holding", "running", "ended"}
       \/ busy' # t /\ busy' = busy
    /\ waitingList' \subseteq Tasks
    /\ \A u \in waitingList' :
          \/ u = t /\ to \in {"listed", "queued", "granted", "leaving"}
          \/ u # t /\ u \in waitingList

LEMMA PlainStep ==
    ASSUME QueueInv, NEW t \in Tasks, NEW to \in Steps, PlainTo(t, to)  PROVE QueueInv'
<1> USE DEF QueueInv, QueueTypeOK, PlainTo
<1>1. QueueTypeOK'
  OBVIOUS
<1>2. OwnerHasPermit' /\ PermitHasOwner'
  BY QueueAssumption DEF OwnerHasPermit, PermitHasOwner, QueueAssumption
<1>3. ProcessIsRun'
  BY DEF ProcessIsRun
<1>4. BusyIsHeld'
  BY QueueAssumption DEF BusyIsHeld, QueueAssumption
<1>5. QueueIsQueued' /\ QueuedOnce'
  BY DEF QueueIsQueued, QueuedOnce
<1>6. ListedWaits'
  BY DEF ListedWaits
<1> QED  BY <1>1, <1>2, <1>3, <1>4, <1>5, <1>6

LEMMA ListTicketKeeps ==
    ASSUME QueueInv, NEW t \in Tasks, ListTicket(t)  PROVE QueueInv'
<1>1. step[t] = "out" /\ step' = [step EXCEPT ![t] = "listed"]
  BY DEF ListTicket, Move
<1>2. t \notin processes /\ busy # t
  BY <1>1, QueueAssumption DEF QueueInv, ProcessIsRun, BusyIsHeld, QueueAssumption
<1>3. /\ UNCHANGED <<permit, semQueue, busy, processes>>
      /\ waitingList' = waitingList \cup {t}
  BY DEF ListTicket
<1>4. /\ waitingList' \subseteq Tasks
      /\ \A u \in waitingList' : u = t \/ (u # t /\ u \in waitingList)
  BY <1>3 DEF QueueInv, QueueTypeOK
<1>5. PlainTo(t, "listed")
  BY <1>1, <1>2, <1>3, <1>4 DEF PlainTo, QueueInv, QueueTypeOK, Owning
<1> QED  BY <1>5, PlainStep DEF Steps

LEMMA ShowBusyKeeps ==
    ASSUME QueueInv, NEW t \in Tasks, ShowBusy(t)  PROVE QueueInv'
<1>1. step[t] = "granted" /\ step' = [step EXCEPT ![t] = "holding"]
  BY DEF ShowBusy, Move
<1>2. t \notin processes
  BY <1>1 DEF QueueInv, ProcessIsRun
<1>3. PlainTo(t, "holding")
  BY <1>1, <1>2 DEF PlainTo, ShowBusy, QueueInv, QueueTypeOK, Owning
<1> QED  BY <1>3, PlainStep DEF Steps

LEMMA StartProcessKeeps ==
    ASSUME QueueInv, NEW t \in Tasks, StartProcess(t)  PROVE QueueInv'
<1>1. step[t] = "holding" /\ step' = [step EXCEPT ![t] = "running"]
  BY DEF StartProcess, Move
<1>2. t \notin processes /\ t \notin waitingList
  BY <1>1 DEF QueueInv, ProcessIsRun, ListedWaits
<1>3. PlainTo(t, "running")
  BY <1>1, <1>2 DEF PlainTo, StartProcess, QueueInv, QueueTypeOK, Owning
<1> QED  BY <1>3, PlainStep DEF Steps

LEMMA EndProcessKeeps ==
    ASSUME QueueInv, NEW t \in Tasks, EndProcess(t)  PROVE QueueInv'
<1>1. step[t] = "running" /\ step' = [step EXCEPT ![t] = "ended"]
  BY DEF EndProcess, Move
<1>2. t \notin waitingList
  BY <1>1 DEF QueueInv, ListedWaits
<1>3. PlainTo(t, "ended")
  BY <1>1, <1>2 DEF PlainTo, EndProcess, QueueInv, QueueTypeOK, Owning
<1> QED  BY <1>3, PlainStep DEF Steps

LEMMA ClearBusyKeeps ==
    ASSUME QueueInv, NEW t \in Tasks, ClearBusy(t)  PROVE QueueInv'
<1>1. step[t] \in {"ended", "holding"} /\ step' = [step EXCEPT ![t] = "cleared"]
  BY DEF ClearBusy
<1>2. t \notin waitingList /\ t \notin processes
  BY <1>1 DEF QueueInv, ListedWaits, ProcessIsRun
<1>3. PlainTo(t, "cleared")
  BY <1>1, <1>2 DEF PlainTo, ClearBusy, QueueInv, QueueTypeOK, Owning
<1> QED  BY <1>3, PlainStep DEF Steps

LEMMA DropWaitGuardKeeps ==
    ASSUME QueueInv, NEW t \in Tasks, DropWaitGuard(t)  PROVE QueueInv'
<1>1. step[t] = "leaving" /\ step' = [step EXCEPT ![t] = "done"]
  BY DEF DropWaitGuard, Move
<1>2. t \notin processes /\ busy # t
  BY <1>1, QueueAssumption DEF QueueInv, ProcessIsRun, BusyIsHeld, QueueAssumption
<1>3. PlainTo(t, "done")
  BY <1>1, <1>2 DEF PlainTo, DropWaitGuard, QueueInv, QueueTypeOK, Owning
<1> QED  BY <1>3, PlainStep DEF Steps

\* A free permit is taken at once; a task that has to wait is in no queue yet.
LEMMA AskSemaphoreKeeps ==
    ASSUME QueueInv, NEW t \in Tasks, AskSemaphore(t)  PROVE QueueInv'
<1> USE QueueAssumption DEF QueueInv, QueueTypeOK, AskSemaphore, Move, QueueAssumption
<1>1. step[t] = "listed"
  OBVIOUS
<1>2. t \notin processes /\ busy # t
  BY <1>1 DEF ProcessIsRun, BusyIsHeld
<1>3. CASE permit = Free
  <2>1. step' = [step EXCEPT ![t] = "granted"] /\ permit' = t /\ semQueue' = semQueue
    BY <1>3
  <2>2. UNCHANGED <<waitingList, busy, processes>>
    BY <1>3
  <2>3. QueueTypeOK'
    BY <2>1, <2>2 DEF Steps
  <2>4. OwnerHasPermit' /\ PermitHasOwner'
    BY <1>3, <2>1 DEF OwnerHasPermit, PermitHasOwner, Owning
  <2>5. ProcessIsRun' /\ BusyIsHeld'
    BY <1>2, <2>1, <2>2 DEF ProcessIsRun, BusyIsHeld
  <2>6. QueueIsQueued' /\ QueuedOnce'
    BY <1>1, <2>1 DEF QueueIsQueued, QueuedOnce
  <2>7. ListedWaits'
    BY <2>1, <2>2 DEF ListedWaits
  <2> QED  BY <2>3, <2>4, <2>5, <2>6, <2>7
<1>4. CASE permit # Free
  <2>1. step' = [step EXCEPT ![t] = "queued"] /\ semQueue' = Append(semQueue, t)
    BY <1>4
  <2>2. UNCHANGED <<permit, waitingList, busy, processes>>
    BY <1>4
  <2>3. QueueTypeOK'
    BY <2>1, <2>2 DEF Steps
  <2>4. OwnerHasPermit' /\ PermitHasOwner'
    BY <1>1, <1>4, <2>1, <2>2 DEF OwnerHasPermit, PermitHasOwner, Owning
  <2>5. ProcessIsRun' /\ BusyIsHeld'
    BY <1>2, <2>1, <2>2 DEF ProcessIsRun, BusyIsHeld
  <2>6. Len(semQueue') = Len(semQueue) + 1 /\ semQueue'[Len(semQueue) + 1] = t
    BY <2>1
  <2>7. \A i \in 1..Len(semQueue) : semQueue'[i] = semQueue[i] /\ semQueue[i] # t
    BY <1>1, <2>1 DEF QueueIsQueued
  <2>8. QueueIsQueued'
    BY <2>1, <2>6, <2>7 DEF QueueIsQueued
  <2>9. QueuedOnce'
    BY <2>6, <2>7 DEF QueuedOnce
  <2>10. ListedWaits'
    BY <2>1, <2>2 DEF ListedWaits
  <2> QED  BY <2>3, <2>4, <2>5, <2>8, <2>9, <2>10
<1> QED  BY <1>3, <1>4

\* The permit leaves a task that neither runs nor is shown, for the first in
\* the queue or for nobody.
LEMMA HandOnKeeps ==
    ASSUME QueueInv, NEW t \in Tasks, permit = t,
           step[t] \in {"granted", "cleared"}, NEW to \in {"leaving", "done"},
           step[t] = "cleared" \/ to = "leaving",
           HandOn([step EXCEPT ![t] = to]),
           UNCHANGED <<waitingList, busy, processes>>
    PROVE  QueueInv'
<1> USE QueueAssumption DEF QueueInv, QueueTypeOK, QueueAssumption
<1>1. t \notin processes /\ busy # t
  BY DEF ProcessIsRun, BusyIsHeld
<1>2. step[t] = "cleared" => t \notin waitingList
  BY DEF ListedWaits
<1>3. CASE semQueue = <<>>
  <2>1. step' = [step EXCEPT ![t] = to] /\ permit' = Free /\ semQueue' = <<>>
    BY <1>3 DEF HandOn
  <2>2. QueueTypeOK'
    BY <2>1 DEF Steps
  <2>3. OwnerHasPermit' /\ PermitHasOwner'
    BY <2>1 DEF OwnerHasPermit, PermitHasOwner, Owning
  <2>4. ProcessIsRun' /\ BusyIsHeld'
    BY <1>1, <2>1 DEF ProcessIsRun, BusyIsHeld
  <2>5. QueueIsQueued' /\ QueuedOnce'
    BY <2>1 DEF QueueIsQueued, QueuedOnce
  <2>6. ListedWaits'
    BY <1>2, <2>1 DEF ListedWaits
  <2> QED  BY <2>2, <2>3, <2>4, <2>5, <2>6
<1>4. CASE semQueue # <<>>
  <2> DEFINE n == Head(semQueue)
  <2>1. /\ n \in Tasks /\ semQueue[1] = n /\ Tail(semQueue) \in Seq(Tasks)
        /\ 1 \in 1..Len(semQueue) /\ Len(Tail(semQueue)) = Len(semQueue) - 1
    BY <1>4
  <2>2. \A i \in 1..Len(Tail(semQueue)) :
           Tail(semQueue)[i] = semQueue[i + 1] /\ i + 1 \in 1..Len(semQueue)
    BY <1>4, <2>1
  <2>3. step[n] = "queued" /\ n # t
    BY <2>1 DEF QueueIsQueued
  <2>4. /\ step' = [[step EXCEPT ![t] = to] EXCEPT ![n] = "granted"]
        /\ permit' = n /\ semQueue' = Tail(semQueue)
    BY <1>4 DEF HandOn
  <2> HIDE DEF n
  <2>5. step'[n] = "granted" /\ step'[t] = to /\ \A u \in Tasks \ {n, t} : step'[u] = step[u]
    BY <2>1, <2>3, <2>4
  <2>6. QueueTypeOK'
    BY <2>1, <2>4 DEF Steps
  <2>7. OwnerHasPermit' /\ PermitHasOwner'
    BY <2>1, <2>3, <2>4, <2>5 DEF OwnerHasPermit, PermitHasOwner, Owning
  <2>8. n \notin processes /\ busy # n
    BY <2>1, <2>3 DEF ProcessIsRun, BusyIsHeld
  <2>9. ProcessIsRun' /\ BusyIsHeld'
    BY <1>1, <2>5, <2>8 DEF ProcessIsRun, BusyIsHeld
  <2>10. \A i \in 1..Len(semQueue') : semQueue'[i] \in Tasks \ {n, t}
    <3> TAKE i \in 1..Len(semQueue')
    <3>1. semQueue'[i] = semQueue[i + 1] /\ i + 1 \in 1..Len(semQueue) /\ i + 1 # 1
      BY <2>2, <2>4
    <3>2. semQueue[i + 1] # n
      BY <2>1, <3>1 DEF QueuedOnce
    <3>3. step[semQueue[i + 1]] = "queued"
      BY <3>1 DEF QueueIsQueued
    <3> QED  BY <3>1, <3>2, <3>3
  <2>11. QueueIsQueued'
    <3> SUFFICES ASSUME NEW i \in 1..Len(semQueue')  PROVE step'[semQueue'[i]] = "queued"
      BY DEF QueueIsQueued
    <3>1. semQueue'[i] = semQueue[i + 1] /\ i + 1 \in 1..Len(semQueue)
      BY <2>2, <2>4
    <3>2. step[semQueue'[i]] = "queued"
      BY <3>1 DEF QueueIsQueued
    <3> QED  BY <3>2, <2>5, <2>10
  <2>12. QueuedOnce'
    <3> SUFFICES ASSUME NEW i \in 1..Len(semQueue'), NEW j \in 1..Len(semQueue'),
                        semQueue'[i] = semQueue'[j]
                 PROVE  i = j
      BY DEF QueuedOnce
    <3>1. semQueue'[i] = semQueue[i + 1] /\ i + 1 \in 1..Len(semQueue)
      BY <2>2, <2>4
    <3>2. semQueue'[j] = semQueue[j + 1] /\ j + 1 \in 1..Len(semQueue)
      BY <2>2, <2>4
    <3>3. i + 1 = j + 1
      BY <3>1, <3>2 DEF QueuedOnce
    <3> QED  BY <3>3
  <2>13. ListedWaits'
    BY <1>2, <2>1, <2>5 DEF ListedWaits
  <2> QED  BY <2>6, <2>7, <2>9, <2>11, <2>12, <2>13
<1> QED  BY <1>3, <1>4

LEMMA ReturnPermitKeeps ==
    ASSUME QueueInv, NEW t \in Tasks, ReturnPermit(t)  PROVE QueueInv'
<1>1. permit = t
  BY DEF ReturnPermit, QueueInv, OwnerHasPermit, Owning
<1> QED  BY <1>1, HandOnKeeps DEF ReturnPermit

\* A place given up in the middle of the queue leaves the others in turn.
LEMMA CancelWaitKeeps ==
    ASSUME QueueInv, NEW t \in Tasks, CancelWait(t)  PROVE QueueInv'
<1>1. CASE step[t] = "granted"
  <2>1. permit = t
    BY <1>1 DEF QueueInv, OwnerHasPermit, Owning
  <2>2. HandOn([step EXCEPT ![t] = "leaving"]) /\ UNCHANGED <<waitingList, busy, processes>>
    BY <1>1 DEF CancelWait, Move
  <2> QED  BY <1>1, <2>1, <2>2, HandOnKeeps
<1>2. CASE step[t] = "queued"
  <2> USE QueueAssumption DEF QueueInv, QueueTypeOK, QueueAssumption
  <2>1. PICK i \in 1..Len(semQueue) : semQueue[i] = t /\ semQueue' = Without(i)
    BY <1>2 DEF CancelWait
  <2>2. step' = [step EXCEPT ![t] = "leaving"] /\ UNCHANGED <<permit, waitingList, busy, processes>>
    BY <1>2 DEF CancelWait, Move
  <2>3. t \notin processes /\ busy # t /\ permit # t
    BY <1>2 DEF ProcessIsRun, BusyIsHeld, PermitHasOwner, Owning
  <2>4. semQueue' \in [1..(Len(semQueue) - 1) -> Tasks]
    BY <2>1 DEF Without
  <2>5. Len(semQueue) - 1 \in Nat
    BY <2>1
  <2>6. semQueue' \in Seq(Tasks) /\ Len(semQueue') = Len(semQueue) - 1
    BY <2>4, <2>5
  <2>7. \A j \in 1..Len(semQueue') :
           \E k \in 1..Len(semQueue) : /\ semQueue'[j] = semQueue[k] /\ k # i
                                       /\ k = IF j < i THEN j ELSE j + 1
    <3> TAKE j \in 1..Len(semQueue')
    <3>1. semQueue'[j] = IF j < i THEN semQueue[j] ELSE semQueue[j + 1]
      BY <2>1, <2>6 DEF Without
    <3>2. (IF j < i THEN j ELSE j + 1) \in 1..Len(semQueue)
      BY <2>5, <2>6
    <3> QED  BY <3>1, <3>2
  <2>8. QueueTypeOK'
    BY <2>2, <2>6 DEF Steps
  <2>9. OwnerHasPermit' /\ PermitHasOwner'
    BY <1>2, <2>2, <2>3 DEF OwnerHasPermit, PermitHasOwner, Owning
  <2>10. ProcessIsRun' /\ BusyIsHeld'
    BY <2>2, <2>3 DEF ProcessIsRun, BusyIsHeld
  <2>11. QueueIsQueued'
    <3> SUFFICES ASSUME NEW j \in 1..Len(semQueue')  PROVE step'[semQueue'[j]] = "queued"
      BY DEF QueueIsQueued
    <3>1. PICK k \in 1..Len(semQueue) : semQueue'[j] = semQueue[k] /\ k # i
      BY <2>7
    <3>2. semQueue[k] # t /\ semQueue[k] \in Tasks /\ step[semQueue[k]] = "queued"
      BY <2>1, <3>1 DEF QueuedOnce, QueueIsQueued
    <3> QED  BY <2>2, <3>1, <3>2
  <2>12. QueuedOnce'
    <3> SUFFICES ASSUME NEW j \in 1..Len(semQueue'), NEW l \in 1..Len(semQueue'),
                        semQueue'[j] = semQueue'[l]
                 PROVE  j = l
      BY DEF QueuedOnce
    <3>1. PICK k \in 1..Len(semQueue) : /\ semQueue'[j] = semQueue[k]
                                        /\ k = IF j < i THEN j ELSE j + 1
      BY <2>7
    <3>2. PICK m \in 1..Len(semQueue) : /\ semQueue'[l] = semQueue[m]
                                        /\ m = IF l < i THEN l ELSE l + 1
      BY <2>7
    <3>3. k = m
      BY <3>1, <3>2 DEF QueuedOnce
    <3> QED  BY <3>1, <3>2, <3>3
  <2>13. ListedWaits'
    BY <2>2 DEF ListedWaits
  <2> QED  BY <2>8, <2>9, <2>10, <2>11, <2>12, <2>13
<1> QED  BY <1>1, <1>2 DEF CancelWait, Move

LEMMA QueueInvNext == QueueInv /\ [QueueNext]_queueVars => QueueInv'
<1> SUFFICES ASSUME QueueInv, [QueueNext]_queueVars  PROVE QueueInv'
  OBVIOUS
<1>1. CASE UNCHANGED queueVars
  BY <1>1 DEF queueVars, QueueInv, QueueTypeOK, OwnerHasPermit, PermitHasOwner, ProcessIsRun,
              BusyIsHeld, QueueIsQueued, QueuedOnce, ListedWaits
<1>2. ASSUME NEW t \in Tasks, Advance(t)  PROVE QueueInv'
  BY <1>2, AskSemaphoreKeeps, ShowBusyKeeps, StartProcessKeeps, EndProcessKeeps,
     ClearBusyKeeps, ReturnPermitKeeps, DropWaitGuardKeeps DEF Advance
<1>3. ASSUME NEW t \in Tasks, ListTicket(t) \/ CancelWait(t)  PROVE QueueInv'
  BY <1>3, ListTicketKeeps, CancelWaitKeeps
<1> QED  BY <1>1, <1>2, <1>3 DEF QueueNext

\* A resource of the local engine never runs two processes, the monitor shows
\* as busy the task that has the permit and lists nobody who is gone, whatever
\* the number of tasks and wherever they are aborted.
THEOREM QueueSafeHolds == QueueSpec => []QueueSafe
<1>1. QueueInv => QueueSafe
  <2> SUFFICES ASSUME QueueInv  PROVE QueueSafe
    OBVIOUS
  <2>1. OneProcess
    BY QueueAssumption
    DEF QueueInv, QueueTypeOK, OneProcess, ProcessIsRun, OwnerHasPermit, Owning
  <2>2. BusyHasPermit
    BY DEF QueueInv, QueueTypeOK, BusyHasPermit, BusyIsHeld, OwnerHasPermit, Owning
  <2>3. NoGhostTicket
    BY DEF QueueInv, NoGhostTicket, ListedWaits
  <2> QED  BY <2>1, <2>2, <2>3 DEF QueueSafe, QueueInv
<1> QED  BY <1>1, QueueInvInit, QueueInvNext, PTL DEF QueueSpec
-----------------------------------------------------------------------------
(***************************************************************************)
(* ResidentServer: any presets, starts in progress and processes.          *)
(***************************************************************************)
Places == {"idle", "check", "stop", "kill", "spawn", "health", "store"}
ServerStates == {"none", "loading", "up", "dead"}
MaybePreset == Presets \cup {NoPreset}
MaybeServer == ServerIds \cup {NoServer}
Starts == [at : Places, preset : MaybePreset, server : MaybeServer]
Requests == [at : {"idle", "preset", "built"}, preset : MaybePreset, server : MaybeServer]

ServerShape ==
    /\ spawnedCount \in 0..MaxServers /\ slot \in MaybeServer /\ activePreset \in Presets
    /\ servers \in [ServerIds -> [preset : MaybePreset, state : ServerStates]]
    /\ starts \in [Starters -> Starts]
    /\ request \in Requests

(***************************************************************************)
(* What a step does to the processes and to the starts.                    *)
(***************************************************************************)
LEMMA KilledAreDead ==
    ASSUME ServerShape, NEW S, servers' = Killed(S)
    PROVE  /\ servers' \in [ServerIds -> [preset : MaybePreset, state : ServerStates]]
           /\ \A i \in ServerIds : ServerAlive(i)' <=> ServerAlive(i) /\ i \notin S
           /\ \A i \in ServerIds : servers'[i].preset = servers[i].preset
BY DEF ServerShape, Killed, ServerAlive, ServerStates

LEMMA StartMoves ==
    ASSUME ServerShape, NEW s \in Starters, NEW place \in Places, GoTo(s, place)
    PROVE  /\ starts' \in [Starters -> Starts]
           /\ starts'[s].at = place
           /\ starts'[s].server = IF place = "idle" THEN NoServer ELSE starts[s].server
           /\ \A t \in Starters \ {s} : starts'[t] = starts[t]
BY DEF ServerShape, GoTo, IdleStart, Starts, Places, MaybePreset, MaybeServer

\* A new process is the one after all that were spawned.
LEMMA NextServer ==
    ASSUME ServerShape, NEW s \in Starters, SpawnServer(s)
    PROVE  \E i \in ServerIds :
              /\ i = spawnedCount + 1 /\ spawnedCount' = i /\ pidfile' = i
              /\ servers' \in [ServerIds -> [preset : MaybePreset, state : ServerStates]]
              /\ \A j \in ServerIds \ {i} : servers'[j] = servers[j]
              /\ starts' \in [Starters -> Starts]
              /\ starts'[s].at = "health" /\ starts'[s].server = i
              /\ \A t \in Starters \ {s} : starts'[t] = starts[t]
<1> DEFINE i == spawnedCount + 1
<1>1. spawnedCount \in Nat /\ i \in ServerIds
    BY ServerAssumption DEF SpawnServer, ServerShape, ServerIds
<1>2. /\ spawnedCount' = i /\ pidfile' = i
      /\ servers' = [servers EXCEPT ![i] = [preset |-> starts[s].preset, state |-> "loading"]]
      /\ starts' = [starts EXCEPT ![s].at = "health", ![s].server = i]
    BY DEF SpawnServer
<1>3. starts \in [Starters -> Starts] /\ starts[s] \in Starts
      /\ servers \in [ServerIds -> [preset : MaybePreset, state : ServerStates]]
    BY DEF ServerShape
<1>4. /\ starts' \in [Starters -> Starts]
      /\ starts'[s].at = "health" /\ starts'[s].server = i
      /\ \A t \in Starters \ {s} : starts'[t] = starts[t]
    BY <1>1, <1>2, <1>3 DEF Starts, Places, MaybeServer
<1>5. [preset |-> starts[s].preset, state |-> "loading"]
         \in [preset : MaybePreset, state : ServerStates]
    BY <1>3 DEF Starts, ServerStates
<1>6. /\ servers' \in [ServerIds -> [preset : MaybePreset, state : ServerStates]]
      /\ \A j \in ServerIds \ {i} : servers'[j] = servers[j]
    BY <1>1, <1>2, <1>3, <1>5
<1>7. QED
    BY <1>1, <1>2, <1>4, <1>6

LEMMA BeginsAtCheck ==
    ASSUME ServerShape, NEW s \in Starters, BeginStart(s)
    PROVE  /\ starts' \in [Starters -> Starts]
           /\ starts'[s].at = "check" /\ starts'[s].server = NoServer
           /\ \A t \in Starters \ {s} : starts'[t] = starts[t]
BY DEF ServerShape, BeginStart, Starts, Places, MaybePreset, MaybeServer

LEMMA ServerShapeInit == ServerInit => ServerShape
BY ServerAssumption DEF ServerInit, ServerShape, IdleStart, IdleRequest, Starts, Requests,
   Places, ServerStates, MaybePreset, MaybeServer

LEMMA ServerShapeNext ==
    ASSUME ServerShape, [ServerNext]_residentVars PROVE ServerShape'
<1> USE DEF serverVars
<1>1. ASSUME NEW s \in Starters, BeginStart(s) PROVE ServerShape'
    BY <1>1, BeginsAtCheck DEF BeginStart, ServerShape
<1>2. ASSUME NEW s \in Starters,
             CheckSlot(s) \/ StopOld(s) \/ KillStale(s) \/ StartErrs(s) \/ HealthOk(s)
             \/ HealthFails(s) \/ StoreServer(s)
      PROVE  ServerShape'
  <2>1. starts' \in [Starters -> Starts]
    BY <1>2, StartMoves DEF CheckSlot, StopOld, KillStale, StartErrs, HealthOk, HealthFails,
       StoreServer, Places
  <2>2. servers' \in [ServerIds -> [preset : MaybePreset, state : ServerStates]]
    BY <1>2, KilledAreDead DEF CheckSlot, StopOld, KillStale, StartErrs, HealthOk,
       HealthFails, StoreServer, ServerShape
  <2>3. slot' \in MaybeServer
    BY <1>2 DEF CheckSlot, StopOld, KillStale, StartErrs, HealthOk, HealthFails, StoreServer,
       ServerShape, Starts, MaybeServer
  <2>4. UNCHANGED <<activePreset, spawnedCount, request>>
    BY <1>2 DEF CheckSlot, StopOld, KillStale, StartErrs, HealthOk, HealthFails, StoreServer
  <2>5. QED
    BY <2>1, <2>2, <2>3, <2>4 DEF ServerShape
<1>3. ASSUME NEW s \in Starters, SpawnServer(s) PROVE ServerShape'
  <2>1. UNCHANGED <<activePreset, slot, request>>
    BY <1>3 DEF SpawnServer
  <2>2. QED
    BY <1>3, <2>1, NextServer DEF ServerShape, ServerIds
<1>4. ASSUME NEW i \in ServerIds, ServerRuns(i) PROVE ServerShape'
  <2>1. servers' \in [ServerIds -> [preset : MaybePreset, state : ServerStates]]
    BY <1>4, KilledAreDead DEF ServerRuns, ServerShape, ServerStates
  <2>2. QED
    BY <1>4, <2>1 DEF ServerRuns, ServerShape
<1>5. CASE SetPreset \/ TurnOff
    BY <1>5 DEF SetPreset, TurnOff, ServerShape
<1>6. CASE StopResident \/ ExitAndRestart
  <2>1. servers' \in [ServerIds -> [preset : MaybePreset, state : ServerStates]]
    BY <1>6, KilledAreDead DEF StopResident, ExitAndRestart
  <2>2. IdleStart \in Starts /\ IdleRequest \in Requests
    BY DEF IdleStart, IdleRequest, Starts, Requests, Places, MaybePreset, MaybeServer
  <2>3. starts' \in [Starters -> Starts] /\ request' \in Requests /\ slot' = NoServer
    BY <1>6, <2>2 DEF StopResident, ExitAndRestart, ServerShape
  <2>4. QED
    BY <1>6, <2>1, <2>3 DEF StopResident, ExitAndRestart, ServerShape, MaybeServer
<1>7. CASE ReadPreset \/ BuildProvider \/ AskServer
  <2>1. CASE ReadPreset \/ AskServer
    <3>1. request' \in Requests
      BY <2>1 DEF ReadPreset, AskServer, IdleRequest, ServerShape, Requests, MaybePreset,
         MaybeServer
    <3>2. QED
      BY <2>1, <3>1 DEF ReadPreset, AskServer, ServerShape
  <2>2. CASE BuildProvider
    <3>1. ServerFor(request.preset) \in MaybeServer
      BY DEF ServerFor, ServerShape, MaybeServer
    <3>2. request' = [request EXCEPT !.at = "built", !.server = ServerFor(request.preset)]
      BY <2>2 DEF BuildProvider
    <3>3. request' \in Requests
      BY <3>1, <3>2 DEF ServerShape, Requests
    <3>4. QED
      BY <2>2, <3>3 DEF BuildProvider, ServerShape
  <2>3. QED
    BY <1>7, <2>1, <2>2
<1>8. CASE UNCHANGED residentVars
    BY <1>8 DEF residentVars, ServerShape
<1>9. QED
    BY <1>1, <1>2, <1>3, <1>4, <1>5, <1>6, <1>7, <1>8 DEF ServerNext
-----------------------------------------------------------------------------
(***************************************************************************)
(* Who has a live server.  Only a start that waits for /health or is about *)
(* to fill the slot has one in its hands, so nothing is dropped from a     *)
(* pair of hands but into the slot, or dead.                               *)
(***************************************************************************)
HandsInv ==
    /\ \A s \in Starters :
          starts[s].at \notin {"health", "store"} => starts[s].server = NoServer
    /\ ServersOwned

LEMMA HandsInit == ServerInit => HandsInv
BY DEF ServerInit, HandsInv, ServersOwned, ServerAlive, IdleStart

\* Whoever was owned is owned, or dead.
LEMMA HandsFrame ==
    ASSUME HandsInv,
           \A s \in Starters :
              starts'[s].at \notin {"health", "store"} => starts'[s].server = NoServer,
           \A i \in ServerIds : ServerAlive(i)' => ServerAlive(i),
           leftBehind' = leftBehind,
           \A i \in ServerIds : ServerAlive(i)' /\ i = slot => i = slot',
           \A i \in ServerIds, s \in Starters : ServerAlive(i)' /\ starts[s].server = i
              => i = slot' \/ starts'[s].server = i
    PROVE  HandsInv'
BY DEF HandsInv, ServersOwned

LEMMA HandsOfStart ==
    ASSUME ServerShape, HandsInv, NEW s \in Starters,
           \/ BeginStart(s) \/ CheckSlot(s) \/ StopOld(s) \/ KillStale(s) \/ SpawnServer(s)
           \/ StartErrs(s) \/ HealthOk(s) \/ HealthFails(s) \/ StoreServer(s)
    PROVE  HandsInv'
<1> USE ServerAssumption DEF AtStep
<1>0. /\ \A t \in Starters :
            starts[t].at \notin {"health", "store"} => starts[t].server = NoServer
      /\ NoServer \notin ServerIds
    BY DEF HandsInv, ServerIds
<1>1. CASE BeginStart(s)
  <2>1. UNCHANGED <<slot, servers, leftBehind>> /\ starts[s].at = "idle"
    BY <1>1 DEF BeginStart
  <2>2. QED
    BY <1>0, <1>1, <2>1, BeginsAtCheck, HandsFrame DEF ServerAlive
<1>2. CASE CheckSlot(s) \/ StartErrs(s) \/ HealthOk(s)
  <2>1. /\ UNCHANGED <<slot, servers, leftBehind>>
        /\ starts'[s].at \notin {"health", "store"} => starts[s].at \notin {"health", "store"}
        /\ starts'[s].at # "idle" => starts'[s].server = starts[s].server
        /\ starts'[s].at = "idle" => starts'[s].server = NoServer
        /\ \A t \in Starters \ {s} : starts'[t] = starts[t]
    BY <1>2, StartMoves DEF CheckSlot, StartErrs, HealthOk, Places
  <2>2. QED
    BY <1>0, <2>1, HandsFrame DEF ServerAlive
<1>3. CASE StopOld(s) \/ KillStale(s)
  <2>1. /\ starts'[s].at \in {"kill", "spawn"} /\ starts[s].at \in {"stop", "kill"}
        /\ starts'[s].server = starts[s].server
        /\ \A t \in Starters \ {s} : starts'[t] = starts[t]
    BY <1>3, StartMoves DEF StopOld, KillStale, Places
  <2>2. /\ leftBehind' = leftBehind
        /\ \A i \in ServerIds : ServerAlive(i)' => ServerAlive(i)
        /\ \A i \in ServerIds : ServerAlive(i)' /\ i = slot => i = slot'
    BY <1>3, KilledAreDead DEF StopOld, KillStale
  <2>3. QED
    BY <1>0, <2>1, <2>2, HandsFrame
<1>4. CASE SpawnServer(s)
  <2>1. PICK i \in ServerIds :
          /\ \A j \in ServerIds \ {i} : servers'[j] = servers[j]
          /\ starts'[s].at = "health" /\ starts'[s].server = i
          /\ \A t \in Starters \ {s} : starts'[t] = starts[t]
    BY <1>4, NextServer
  <2>2. UNCHANGED <<slot, leftBehind>> /\ starts[s].server = NoServer
    BY <1>0, <1>4 DEF SpawnServer
  <2>3. QED
    BY <1>0, <2>1, <2>2 DEF HandsInv, ServersOwned, ServerAlive
<1>5. CASE HealthFails(s)
  <2>1. /\ starts'[s].at = "idle" /\ starts'[s].server = NoServer
        /\ \A t \in Starters \ {s} : starts'[t] = starts[t]
    BY <1>5, StartMoves DEF HealthFails, Places
  <2>2. /\ UNCHANGED <<slot, leftBehind>>
        /\ \A i \in ServerIds : ServerAlive(i)' => ServerAlive(i) /\ i # starts[s].server
    BY <1>5, KilledAreDead DEF HealthFails
  <2>3. QED
    BY <1>0, <2>1, <2>2, HandsFrame
<1>6. CASE StoreServer(s)
  <2>1. /\ starts'[s].at = "idle" /\ starts'[s].server = NoServer
        /\ \A t \in Starters \ {s} : starts'[t] = starts[t]
    BY <1>6, StartMoves DEF StoreServer, Places
  <2>2. /\ slot' = starts[s].server /\ leftBehind' = leftBehind
        /\ \A i \in ServerIds : ServerAlive(i)' => ServerAlive(i) /\ i # slot
    BY <1>6, KilledAreDead DEF StoreServer
  <2>3. QED
    BY <1>0, <2>1, <2>2, HandsFrame
<1>7. QED
    BY <1>1, <1>2, <1>3, <1>4, <1>5, <1>6

LEMMA HandsNext ==
    ASSUME ServerShape, HandsInv, [ServerNext]_residentVars PROVE HandsInv'
<1>1. CASE ExitAndRestart
  <2>1. /\ \A s \in Starters : starts'[s] = IdleStart
        /\ leftBehind' = {i \in ServerIds : ServerAlive(i) /\ i # slot}
        /\ \A i \in ServerIds : ServerAlive(i)' => ServerAlive(i) /\ i # slot
    BY <1>1, KilledAreDead DEF ExitAndRestart
  <2>2. QED
    BY <2>1 DEF HandsInv, ServersOwned, IdleStart
<1>2. CASE StopResident
  <2>1. /\ UNCHANGED <<starts, leftBehind>>
        /\ \A i \in ServerIds : ServerAlive(i)' => ServerAlive(i) /\ i # slot
    BY <1>2, KilledAreDead DEF StopResident
  <2>2. QED
    BY <2>1, HandsFrame DEF HandsInv
<1>3. ASSUME NEW i \in ServerIds, ServerRuns(i) PROVE HandsInv'
  <2>1. UNCHANGED <<starts, leftBehind, slot>>
    BY <1>3 DEF ServerRuns
  <2>2. \A j \in ServerIds : ServerAlive(j)' => ServerAlive(j)
    BY <1>3, KilledAreDead DEF ServerRuns, ServerAlive, ServerShape
  <2>3. QED
    BY <2>1, <2>2, HandsFrame DEF HandsInv
<1>4. CASE \/ SetPreset \/ TurnOff \/ ReadPreset \/ BuildProvider \/ AskServer
           \/ UNCHANGED residentVars
  <2>1. UNCHANGED <<starts, leftBehind, slot, servers>>
    BY <1>4 DEF SetPreset, TurnOff, ReadPreset, BuildProvider, AskServer, serverVars,
       residentVars
  <2>2. QED
    BY <2>1, HandsFrame DEF HandsInv, ServerAlive
<1>5. QED
    BY <1>1, <1>2, <1>3, <1>4, HandsOfStart DEF ServerNext
-----------------------------------------------------------------------------
(***************************************************************************)
(* The pidfile.  While starts do not overlap, the start that has killed    *)
(* whom the file names is alone and nobody is alive; so the one it spawns  *)
(* and names is the only one.                                              *)
(***************************************************************************)
OneStart == \A s, t \in Starters : starts[s].at # "idle" /\ starts[t].at # "idle" => s = t

FileTells ==
    /\ OneStart
    /\ \A s \in Starters : starts[s].at = "spawn" => \A i \in ServerIds : ~ServerAlive(i)
    /\ \A i \in ServerIds : ServerAlive(i) => pidfile = i

FileInv == ~startsOverlapped => FileTells

LEMMA FileInit == ServerInit => FileInv
BY DEF ServerInit, FileInv, FileTells, OneStart, ServerAlive, IdleStart

LEMMA OverlapStays ==
    ASSUME [ServerNext]_residentVars, ~startsOverlapped' PROVE ~startsOverlapped
<1> USE DEF serverVars
<1>1. ASSUME NEW s \in Starters, BeginStart(s) PROVE ~startsOverlapped
    BY <1>1, Zenon DEF BeginStart
<1>2. ASSUME NEW s \in Starters,
             CheckSlot(s) \/ StopOld(s) \/ KillStale(s) \/ SpawnServer(s) \/ StartErrs(s)
             \/ HealthOk(s) \/ HealthFails(s) \/ StoreServer(s)
      PROVE  UNCHANGED startsOverlapped
    BY <1>2, Zenon DEF CheckSlot, StopOld, KillStale, SpawnServer, StartErrs, HealthOk,
       HealthFails, StoreServer
<1>3. ASSUME NEW i \in ServerIds, ServerRuns(i) PROVE UNCHANGED startsOverlapped
    BY <1>3, Zenon DEF ServerRuns
<1>4. ASSUME \/ SetPreset \/ TurnOff \/ StopResident \/ ExitAndRestart
             \/ ReadPreset \/ BuildProvider \/ AskServer \/ UNCHANGED residentVars
      PROVE  UNCHANGED startsOverlapped
    BY <1>4, Zenon DEF SetPreset, TurnOff, StopResident, ExitAndRestart, ReadPreset,
       BuildProvider, AskServer, residentVars
<1>5. ASSUME UNCHANGED startsOverlapped PROVE ~startsOverlapped
    BY <1>5, Zenon
<1>6. QED
    BY <1>1, <1>2, <1>3, <1>4, <1>5 DEF ServerNext

LEMMA FileNext ==
    ASSUME ServerShape, FileInv, [ServerNext]_residentVars PROVE FileInv'
<1> SUFFICES ASSUME ~startsOverlapped' PROVE FileTells'
    BY DEF FileInv
<1>1. FileTells
    BY OverlapStays DEF FileInv
<1> USE DEF FileTells, OneStart, AtStep
<1>2. ASSUME NEW s \in Starters, BeginStart(s) PROVE FileTells'
  <2>1. ~Starting
    BY <1>2, Zenon DEF BeginStart
  <2>2. UNCHANGED <<servers, pidfile>>
    BY <1>2 DEF BeginStart
  <2>3. \A t \in Starters \ {s} : starts'[t].at = "idle"
    BY <1>2, <2>1, BeginsAtCheck DEF Starting
  <2>4. starts'[s].at = "check"
    BY <1>2, BeginsAtCheck
  <2>5. QED
    BY <1>1, <2>2, <2>3, <2>4 DEF ServerAlive
<1>3. ASSUME NEW s \in Starters,
             \/ CheckSlot(s) \/ StopOld(s) \/ StartErrs(s) \/ HealthOk(s) \/ HealthFails(s)
             \/ StoreServer(s)
      PROVE  FileTells'
  <2>1. /\ starts'[s].at # "spawn" /\ starts[s].at # "idle"
        /\ \A t \in Starters \ {s} : starts'[t] = starts[t]
    BY <1>3, StartMoves DEF CheckSlot, StopOld, StartErrs, HealthOk, HealthFails, StoreServer,
       Places
  <2>2. \A i \in ServerIds : ServerAlive(i)' => ServerAlive(i)
    BY <1>3, KilledAreDead DEF CheckSlot, StopOld, StartErrs, HealthOk, HealthFails,
       StoreServer, ServerAlive
  <2>3. pidfile' = pidfile
    BY <1>3 DEF CheckSlot, StopOld, StartErrs, HealthOk, HealthFails, StoreServer
  <2>4. QED
    BY <1>1, <2>1, <2>2, <2>3
<1>4. ASSUME NEW s \in Starters, KillStale(s) PROVE FileTells'
  <2>1. /\ starts'[s].at = "spawn" /\ starts[s].at # "idle"
        /\ \A t \in Starters \ {s} : starts'[t] = starts[t]
    BY <1>4, StartMoves DEF KillStale, Places
  <2>2. \A i \in ServerIds : ServerAlive(i)' => ServerAlive(i) /\ i # pidfile
    BY <1>4, KilledAreDead DEF KillStale
  <2>3. \A i \in ServerIds : ~ServerAlive(i)'
    BY <1>1, <2>2
  <2>4. QED
    BY <1>1, <2>1, <2>3
<1>5. ASSUME NEW s \in Starters, SpawnServer(s) PROVE FileTells'
  <2>1. PICK i \in ServerIds :
          /\ pidfile' = i
          /\ \A j \in ServerIds \ {i} : servers'[j] = servers[j]
          /\ starts'[s].at = "health"
          /\ \A t \in Starters \ {s} : starts'[t] = starts[t]
    BY <1>5, NextServer
  <2>2. starts[s].at = "spawn" /\ \A j \in ServerIds : ~ServerAlive(j)
    BY <1>1, <1>5 DEF SpawnServer
  <2>3. QED
    BY <1>1, <2>1, <2>2 DEF ServerAlive
<1>6. ASSUME UNCHANGED pidfile, \A i \in ServerIds : ServerAlive(i)' => ServerAlive(i),
             UNCHANGED starts \/ \A s \in Starters : starts'[s] = IdleStart
      PROVE  FileTells'
    BY <1>1, <1>6 DEF IdleStart
<1>7. CASE \/ \E i \in ServerIds : ServerRuns(i)
           \/ StopResident \/ ExitAndRestart
  <2>1. UNCHANGED pidfile /\ (UNCHANGED starts \/ \A s \in Starters : starts'[s] = IdleStart)
    BY <1>7 DEF ServerRuns, StopResident, ExitAndRestart
  <2>2. \A i \in ServerIds : ServerAlive(i)' => ServerAlive(i)
    BY <1>7, KilledAreDead DEF ServerRuns, StopResident, ExitAndRestart, ServerAlive,
       ServerShape
  <2>3. QED
    BY <1>6, <2>1, <2>2
<1>8. CASE \/ SetPreset \/ TurnOff \/ ReadPreset \/ BuildProvider \/ AskServer
           \/ UNCHANGED residentVars
  <2>1. UNCHANGED <<pidfile, starts, servers>>
    BY <1>8 DEF SetPreset, TurnOff, ReadPreset, BuildProvider, AskServer, serverVars,
       residentVars
  <2>2. QED
    BY <1>6, <2>1 DEF ServerAlive
<1>9. QED
    BY <1>2, <1>3, <1>4, <1>5, <1>7, <1>8 DEF ServerNext
-----------------------------------------------------------------------------
(***************************************************************************)
(* The setting.  A server, or a start that will bring one, is there        *)
(* because the setting is on, or because its stop is still to come or came *)
(* in the middle of the start.                                             *)
(***************************************************************************)
OnIsWanted == slot # NoServer \/ Starting => keepResident \/ stopping \/ overtaken

LEMMA OnInit == ServerInit => OnIsWanted
BY DEF ServerInit, OnIsWanted, Starting, IdleStart

LEMMA OnNext ==
    ASSUME ServerShape, OnIsWanted, [ServerNext]_residentVars PROVE OnIsWanted'
<1> USE DEF serverVars, AtStep
<1>1. ASSUME NEW s \in Starters, BeginStart(s) PROVE OnIsWanted'
    BY <1>1 DEF BeginStart, OnIsWanted
<1>2. ASSUME NEW s \in Starters,
             CheckSlot(s) \/ StopOld(s) \/ KillStale(s) \/ SpawnServer(s) \/ StartErrs(s)
             \/ HealthOk(s) \/ HealthFails(s) \/ StoreServer(s)
      PROVE  OnIsWanted'
  <2>1. starts[s].at # "idle" /\ UNCHANGED <<keepResident, stopping, overtaken>>
    BY <1>2 DEF CheckSlot, StopOld, KillStale, SpawnServer, StartErrs, HealthOk, HealthFails,
       StoreServer
  <2>2. Starting
    BY <2>1 DEF Starting
  <2>3. QED
    BY <2>1, <2>2, Zenon DEF OnIsWanted
<1>3. CASE TurnOff
    BY <1>3, Zenon DEF TurnOff, OnIsWanted
<1>4. CASE StopResident
  <2>1. slot' = NoServer /\ starts' = starts
    BY <1>4 DEF StopResident
  <2>2. Starting' <=> Starting
    BY <2>1 DEF Starting
  <2>3. overtaken' = (overtaken \/ Starting)
    BY <1>4, Zenon DEF StopResident
  <2>4. QED
    BY <2>1, <2>2, <2>3, Zenon DEF OnIsWanted
<1>5. CASE ExitAndRestart
  <2>1. slot' = NoServer /\ ~Starting'
    BY <1>5 DEF ExitAndRestart, Starting, IdleStart
  <2>2. QED
    BY <2>1, Zenon DEF OnIsWanted
<1>6. CASE \/ \E i \in ServerIds : ServerRuns(i)
           \/ SetPreset \/ ReadPreset \/ BuildProvider \/ AskServer \/ UNCHANGED residentVars
  <2>1. UNCHANGED <<slot, starts, keepResident, stopping, overtaken>>
    BY <1>6 DEF ServerRuns, SetPreset, ReadPreset, BuildProvider, AskServer, residentVars
  <2>2. Starting' <=> Starting
    BY <2>1 DEF Starting
  <2>3. QED
    BY <2>1, <2>2, Zenon DEF OnIsWanted
<1>7. QED
    BY <1>1, <1>2, <1>3, <1>4, <1>5, <1>6 DEF ServerNext
-----------------------------------------------------------------------------
(***************************************************************************)
(* The model that answers.  A process keeps the preset it was spawned for: *)
(* what is written over is the entry of one that was not spawned yet, and  *)
(* nobody has that one.                                                    *)
(***************************************************************************)
Spawned(i) == i # NoServer => i <= spawnedCount

ModelInv ==
    /\ Spawned(slot) /\ Spawned(request.server)
    /\ \A s \in Starters : Spawned(starts[s].server)
    /\ RightModel

LEMMA ModelInit == ServerInit => ModelInv
BY DEF ServerInit, ModelInv, Spawned, RightModel, IdleStart, IdleRequest

LEMMA ModelNext ==
    ASSUME ServerShape, ModelInv, [ServerNext]_residentVars PROVE ModelInv'
<1> USE DEF serverVars
<1>1. ASSUME UNCHANGED <<spawnedCount, request>>,
             \A i \in ServerIds : servers'[i].preset = servers[i].preset,
             slot' \in {slot, NoServer} \cup {starts[s].server : s \in Starters},
             \A s \in Starters : starts'[s].server \in {starts[s].server, NoServer}
      PROVE  ModelInv'
  <2>1. Spawned(slot)' /\ Spawned(request.server)'
    BY <1>1 DEF ModelInv, Spawned
  <2>2. \A s \in Starters : Spawned(starts[s].server)'
    BY <1>1 DEF ModelInv, Spawned
  <2>3. RightModel'
    BY <1>1 DEF ModelInv, RightModel, ServerShape, Requests, MaybeServer
  <2>4. QED
    BY <2>1, <2>2, <2>3 DEF ModelInv
<1>2. ASSUME NEW s \in Starters, BeginStart(s) PROVE ModelInv'
  <2>1. UNCHANGED <<spawnedCount, request, servers, slot>>
    BY <1>2 DEF BeginStart
  <2>2. \A t \in Starters : starts'[t].server \in {starts[t].server, NoServer}
    BY <1>2, BeginsAtCheck
  <2>3. QED
    BY <1>1, <2>1, <2>2
<1>3. ASSUME NEW s \in Starters,
             CheckSlot(s) \/ StopOld(s) \/ KillStale(s) \/ StartErrs(s) \/ HealthOk(s)
             \/ HealthFails(s) \/ StoreServer(s)
      PROVE  ModelInv'
  <2>1. \A t \in Starters : starts'[t].server \in {starts[t].server, NoServer}
    BY <1>3, StartMoves DEF CheckSlot, StopOld, KillStale, StartErrs, HealthOk, HealthFails,
       StoreServer, Places
  <2>2. \A i \in ServerIds : servers'[i].preset = servers[i].preset
    BY <1>3, KilledAreDead DEF CheckSlot, StopOld, KillStale, StartErrs, HealthOk,
       HealthFails, StoreServer
  <2>3. /\ slot' \in {slot, NoServer} \cup {starts[t].server : t \in Starters}
        /\ UNCHANGED <<spawnedCount, request>>
    BY <1>3 DEF CheckSlot, StopOld, KillStale, StartErrs, HealthOk, HealthFails, StoreServer
  <2>4. QED
    BY <1>1, <2>1, <2>2, <2>3
<1>4. ASSUME NEW s \in Starters, SpawnServer(s) PROVE ModelInv'
  <2>1. PICK i \in ServerIds :
          /\ i = spawnedCount + 1 /\ spawnedCount' = i
          /\ \A j \in ServerIds \ {i} : servers'[j] = servers[j]
          /\ starts'[s].server = i
          /\ \A t \in Starters \ {s} : starts'[t] = starts[t]
    BY <1>4, NextServer
  <2>2. UNCHANGED <<slot, request>> /\ spawnedCount \in Nat /\ NoServer \notin ServerIds
    BY <1>4, ServerAssumption DEF SpawnServer, ServerShape, ServerIds
  <2>3. \A j \in MaybeServer : Spawned(j) => Spawned(j)' /\ j # i
    BY <2>1, <2>2 DEF Spawned, MaybeServer, ServerIds
  <2>4. /\ slot \in MaybeServer /\ request.server \in MaybeServer
        /\ \A t \in Starters : starts[t].server \in MaybeServer
    BY DEF ServerShape, Requests, Starts
  <2>5. Spawned(slot)' /\ Spawned(request.server)'
    BY <2>2, <2>3, <2>4 DEF ModelInv, Spawned
  <2>6. ASSUME NEW t \in Starters PROVE Spawned(starts[t].server)'
    <3>1. CASE t = s
      BY <2>1, <2>2, <3>1 DEF Spawned, ServerIds
    <3>2. CASE t # s
      BY <2>1, <2>3, <2>4, <3>2 DEF ModelInv, Spawned
    <3>3. QED
      BY <3>1, <3>2
  <2>7. RightModel'
    <3>1. request.server # i
      BY <2>3, <2>4 DEF ModelInv
    <3>2. QED
      BY <2>1, <2>2, <2>4, <3>1 DEF ModelInv, RightModel, MaybeServer
  <2>8. QED
    BY <2>5, <2>6, <2>7 DEF ModelInv
<1>5. CASE \/ \E i \in ServerIds : ServerRuns(i)
           \/ StopResident \/ SetPreset \/ TurnOff \/ UNCHANGED residentVars
  <2>1. /\ UNCHANGED <<spawnedCount, request, starts>> /\ slot' \in {slot, NoServer}
    BY <1>5 DEF ServerRuns, StopResident, SetPreset, TurnOff, residentVars
  <2>2. \/ servers' = servers \/ \E S \in SUBSET MaybeServer : servers' = Killed(S)
        \/ \E i \in ServerIds : servers' = [servers EXCEPT ![i].state = "up"]
    <3>1. CASE StopResident
      <4>1. servers' = Killed({slot}) /\ {slot} \in SUBSET MaybeServer
        BY <3>1 DEF StopResident, ServerShape
      <4>2. QED
        BY <4>1
    <3>2. CASE \E i \in ServerIds : ServerRuns(i)
      <4>1. PICK i \in ServerIds : ServerRuns(i)
        BY <3>2
      <4>2. {i} \in SUBSET MaybeServer
        BY DEF MaybeServer
      <4>3. QED
        BY <4>1, <4>2 DEF ServerRuns
    <3>3. CASE SetPreset \/ TurnOff \/ UNCHANGED residentVars
      BY <3>3 DEF SetPreset, TurnOff, residentVars
    <3>4. QED
      BY <1>5, <3>1, <3>2, <3>3
  <2>3. \A j \in ServerIds : servers'[j].preset = servers[j].preset
    BY <2>2, KilledAreDead DEF ServerShape
  <2>4. QED
    BY <1>1, <2>1, <2>3
<1>6. CASE ExitAndRestart
    BY <1>6 DEF ExitAndRestart, ModelInv, Spawned, RightModel, IdleStart, IdleRequest
<1>7. CASE ReadPreset \/ AskServer
    BY <1>7 DEF ReadPreset, AskServer, IdleRequest, ModelInv, Spawned, RightModel
<1>8. CASE BuildProvider
  <2>1. /\ UNCHANGED <<servers, slot, starts, spawnedCount>>
        /\ request' = [request EXCEPT !.at = "built", !.server = ServerFor(request.preset)]
    BY <1>8 DEF BuildProvider
  <2>2. /\ request'.server = ServerFor(request.preset) /\ request'.preset = request.preset
    BY <2>1 DEF ServerShape, Requests
  <2>3. QED
    BY <2>1, <2>2 DEF ModelInv, Spawned, RightModel, ServerFor
<1>9. QED
    BY <1>2, <1>3, <1>4, <1>5, <1>6, <1>7, <1>8 DEF ServerNext
-----------------------------------------------------------------------------
ResidentInv == ServerShape /\ HandsInv /\ FileInv /\ OnIsWanted /\ ModelInv

\* However starts, stops, changes of the preset and exits interleave, every
\* live server has somebody who can end it, none runs that the user switched
\* off, and a request is answered by the model it was made for.
THEOREM ServersRightHolds == ServerSpec => []ServersRight
<1>1. ServerInit => ResidentInv
    BY ServerShapeInit, HandsInit, FileInit, OnInit, ModelInit DEF ResidentInv
<1>2. ResidentInv /\ [ServerNext]_residentVars => ResidentInv'
    BY ServerShapeNext, HandsNext, FileNext, OnNext, ModelNext DEF ResidentInv
<1>3. ResidentInv => ServersRight
  <2> SUFFICES ASSUME ResidentInv PROVE ServersRight
    OBVIOUS
  <2>1. ServersOwned /\ RightModel
    BY DEF ResidentInv, HandsInv, ModelInv
  <2>2. PidfileFinds
    BY DEF ResidentInv, FileInv, FileTells, PidfileFinds
  <2>3. OffMeansOff
    BY Zenon DEF ResidentInv, OnIsWanted, OffMeansOff
  <2>4. QED
    BY <2>1, <2>2, <2>3 DEF ServersRight, ServersAccounted, ServerAsChosen
<1>4. QED
    BY <1>1, <1>2, <1>3, PTL DEF ServerSpec
=============================================================================
