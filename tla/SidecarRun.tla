------------------------------ MODULE SidecarRun ------------------------------
(***************************************************************************)
(* One run of a sidecar: whisper-cli, llama-completion, a request to the    *)
(* resident server, and the audio sidecar asked for the permissions.        *)
(*                                                                         *)
(*   local_engine/stt.rs     transcribe, its run with a timeout             *)
(*   local_engine/llm.rs     generate, generate_via_server, write_user_only *)
(*   local_engine/sidecar.rs SidecarGuard, TempFileGuard, the run           *)
(*   audio/permissions.rs    check, request, one_shot                       *)
(*                                                                         *)
(* Both guards act when they are dropped: at the end, at an early return    *)
(* and when the task is aborted wherever it awaits.  The turn a run takes   *)
(* is one step here; ResourceQueue has what it consists of.                 *)
(***************************************************************************)
EXTENDS Sequences

CONSTANTS Jobs, NoJob

ASSUME JobAssumption == NoJob \notin Jobs

VARIABLES
    job,        \* what each run is, where it is, what it has made
    holder,     \* who has the permit of recognition, of the language model
    asked,      \* SCREEN_CAPTURE_ASKED_KEY is set
    prompted,   \* history: the dialog of the system was shown
    loose,      \* history: runs that let go of a child that may go on
    leaks       \* history: runs that ended while they were making a file

sidecarVars == <<job, holder, asked, prompted, loose, leaks>>

Resources == {"stt", "llm"}
Kinds == {"stt", "llm", "served", "check", "request"}
Probes == {"check", "request"}
TempFiles == {"dir", "prompt", "schema"}

Idle == [kind |-> "check", at |-> "out", write |-> <<>>, drops |-> <<>>, files |-> {},
         guarded |-> {}, child |-> "none", armed |-> FALSE, exit |-> "none", output |-> "none",
         result |-> "none"]

SidecarTypeOK ==
    /\ DOMAIN job = Jobs
    /\ \A j \in Jobs :
        /\ job[j].kind \in Kinds /\ job[j].guarded \subseteq TempFiles
        /\ job[j].at \in {"out", "making", "waiting", "writing", "open", "running", "dropping",
                          "done"}
        /\ job[j].child \in {"none", "running", "dead"}
    /\ holder \in [Resources -> Jobs \cup {NoJob}]
    /\ asked \in BOOLEAN /\ prompted \in BOOLEAN
    /\ loose \cup leaks \subseteq Jobs

SidecarInit ==
    /\ job = [j \in Jobs |-> Idle]
    /\ holder = [r \in Resources |-> NoJob]
    /\ asked = FALSE /\ prompted = FALSE /\ loose = {} /\ leaks = {}

Becomes(j, with) == job' = [job EXCEPT ![j] = with]
Others == UNCHANGED <<holder, asked, prompted, loose, leaks>>
Res(j) == IF job[j].kind = "stt" THEN "stt" ELSE "llm"

\* What is dropped, the last declared first: the temporary files of whisper-cli
\* outlive its permit, those of llama-completion do not.
Drops(kind) ==
    CASE kind = "stt" -> <<"child", "permit", "files">>
      [] kind \in {"llm", "served"} -> <<"child", "files", "permit">>
      [] OTHER -> <<"child">>

Unwound(r, result) == [r EXCEPT !.at = "dropping", !.drops = Drops(r.kind), !.result = result]
Fails(j) == Becomes(j, Unwound(job[j], "failed"))
-----------------------------------------------------------------------------
(* Before the process *)

BeginRun(j, kind) ==
    /\ job[j].at = "out"
    /\ Becomes(j, [Idle EXCEPT !.kind = kind,
                               !.at = CASE kind = "stt" -> "making"
                                        [] kind \in Probes -> "writing"
                                        [] OTHER -> "waiting"])
    /\ Others

\* The private directory; its paths are checked once it is in the guard.
MakeWorkDir(j) ==
    /\ job[j].at = "making" /\ Others
    /\ LET made == [job[j] EXCEPT !.files = {"dir"}, !.guarded = {"dir"}] IN
       \/ Becomes(j, [made EXCEPT !.at = "waiting"])
       \/ Becomes(j, Unwound(made, "failed"))
       \/ Fails(j)

\* The grammar's file is written and removed as the schema's is.
Extras == {<<>>, <<"schema">>}

\* acquire; what there is to write for llama-completion comes after it.
TakePermit(j) ==
    /\ job[j].at = "waiting" /\ holder[Res(j)] = NoJob
    /\ holder' = [holder EXCEPT ![Res(j)] = j]
    /\ \/ job[j].kind = "stt" /\ Becomes(j, [job[j] EXCEPT !.at = "writing"])
       \/ job[j].kind = "served" /\ Becomes(j, [job[j] EXCEPT !.at = "running"])
       \/ /\ job[j].kind = "llm"
          /\ \E extra \in Extras :
                Becomes(j, [job[j] EXCEPT !.at = "writing", !.write = <<"prompt">> \o extra])
    /\ UNCHANGED <<asked, prompted, loose, leaks>>

\* write_user_only creates the file, ...
OpenFile(j) ==
    /\ job[j].at = "writing" /\ job[j].write # <<>> /\ Others
    /\ \/ Becomes(j, [job[j] EXCEPT !.at = "open", !.files = @ \cup {Head(job[j].write)}])
       \/ Fails(j)

\* ... writes it, and the guard learns of it when it is whole.
FileWritten(j) ==
    /\ job[j].at = "open"
    /\ \/ /\ Becomes(j, [job[j] EXCEPT !.at = "writing", !.write = Tail(@),
                                       !.guarded = @ \cup {Head(job[j].write)}])
          /\ UNCHANGED leaks
       \/ Fails(j) /\ leaks' = leaks \cup {j}
    /\ UNCHANGED <<holder, asked, prompted, loose>>

\* The guard has the child from the first; the permissions have no guard, and
\* a command that cannot be sent leaves the child.
SpawnChild(j) ==
    LET spawned == [job[j] EXCEPT !.at = "running", !.child = "running", !.armed = TRUE] IN
    /\ job[j].at = "writing" /\ job[j].write = <<>>
    /\ \/ Becomes(j, spawned) /\ UNCHANGED loose
       \/ Fails(j) /\ UNCHANGED loose
       \/ /\ job[j].kind \in Probes
          /\ Becomes(j, Unwound([spawned EXCEPT !.armed = FALSE], "failed"))
          /\ loose' = loose \cup {j}
    /\ UNCHANGED <<holder, asked, prompted, leaks>>
-----------------------------------------------------------------------------
(* The process, and the server *)

Works(j) == job[j].child = "running" \/ (job[j].kind = "served" /\ job[j].at = "running")

Produce(j) ==
    /\ Works(j)
    /\ job[j].output # "whole"
    /\ \E out \in {"part", "whole"} \ {job[j].output} : Becomes(j, [job[j] EXCEPT !.output = out])
    /\ prompted' = (prompted \/ job[j].kind = "request")
    /\ UNCHANGED <<holder, asked, loose, leaks>>

\* With a code; by a signal it exits without one, which nobody tells from zero.
ChildExits(j) ==
    /\ job[j].child = "running" /\ Others
    /\ \E code \in {"zero", "other"} :
           Becomes(j, [job[j] EXCEPT !.child = "dead", !.exit = code])
-----------------------------------------------------------------------------
(* The end of the run *)

\* parse_whisper_json and extract_json_object take a whole answer only.
Answers(r) == r.output = "whole"

\* The run has ended well: llama-completion's answer is read at once, that of
\* whisper-cli after the permit is gone (ReadJson).
Ended(r) == Unwound(r, IF r.kind = "stt" THEN "unread" ELSE IF Answers(r) THEN "ok" ELSE "failed")

Slain(r) == [r EXCEPT !.child = "dead", !.armed = FALSE]

\* Terminated, where no code counts as zero.
OnTerminated(j) ==
    LET r == [job[j] EXCEPT !.armed = FALSE] IN
    /\ job[j].at = "running" /\ job[j].child = "dead" /\ job[j].kind \notin Probes
    /\ Becomes(j, IF r.exit = "other" THEN Unwound(r, "failed") ELSE Ended(r)) /\ Others

\* The events end without it; the guard is released all the same.
StreamCloses(j) ==
    /\ job[j].at = "running" /\ job[j].kind \in {"stt", "llm"}
    /\ Becomes(j, Ended([job[j] EXCEPT !.armed = FALSE]))
    /\ loose' = IF job[j].child = "running" THEN loose \cup {j} ELSE loose
    /\ UNCHANGED <<holder, asked, prompted, leaks>>

\* An error event, or the timeout: the child is killed.
RunFails(j) ==
    /\ job[j].at = "running" /\ job[j].kind \in {"stt", "llm"}
    /\ Becomes(j, Unwound(Slain(job[j]), "failed")) /\ Others

\* The server's answer, an error, a wrong key or the timeout.
ServerAnswers(j) ==
    /\ job[j].at = "running" /\ job[j].kind = "served" /\ Others
    /\ \/ Becomes(j, Ended(job[j]))
       \/ Fails(j)

\* whisper-cli's file is read when the permit is gone and the directory is not.
ReadJson(j) ==
    /\ job[j].result = "unread" /\ job[j].drops = <<"files">> /\ Others
    /\ Becomes(j, [job[j] EXCEPT !.result = IF Answers(job[j]) THEN "ok" ELSE "failed"])

\* request sets the flag once the sidecar has answered.
Flag(r) == r.kind = "request" /\ r.output = "whole"

\* one_shot: an answer, the end of the child or the timeout; the child is killed.
\* A write of the flag that fails fails the request.
ProbeEnds(j) ==
    LET r == Slain(job[j]) IN
    /\ job[j].at = "running" /\ job[j].kind \in Probes
    /\ \/ asked' = (asked \/ Flag(r)) /\ Becomes(j, Ended(r))
       \/ UNCHANGED asked /\ Fails(j)
    /\ UNCHANGED <<holder, prompted, loose, leaks>>

\* The task is aborted where it awaits: a file in the making is on nobody's list.
AbortRun(j) ==
    /\ job[j].kind \notin Probes
    /\ job[j].at \in {"making", "waiting", "open", "running"} \/ job[j].result = "unread"
    /\ \/ Becomes(j, Unwound(job[j], "aborted"))
       \/ /\ job[j].at = "making"
          /\ Becomes(j, Unwound([job[j] EXCEPT !.files = {"dir"}], "aborted"))
    /\ leaks' = IF job[j].at \in {"making", "open"} THEN leaks \cup {j} ELSE leaks
    /\ UNCHANGED <<holder, asked, prompted, loose>>

\* Mutant: CommandChild has no Drop of its own.
DropsAlone(r) == r

\* Drop of SidecarGuard.
DropChild(r) == IF r.armed THEN Slain(r) ELSE r

\* Drop of TempFileGuard.
DropFiles(r) == [r EXCEPT !.files = @ \ r.guarded, !.guarded = {}]

\* What is left of a run that is over.
Over(r) ==
    IF r.drops # <<>> THEN r
    ELSE [Idle EXCEPT !.at = "done", !.kind = r.kind, !.files = r.files, !.child = r.child]

DropNext(j) ==
    LET r == [job[j] EXCEPT !.drops = Tail(@)]
        first == Head(job[j].drops)
    IN
    /\ job[j].at = "dropping"
    /\ ~(job[j].result = "unread" /\ first = "files")
    /\ Becomes(j, Over(CASE first = "child" -> DropChild(r)
                         [] first = "files" -> DropFiles(r)
                         [] OTHER -> r))
    /\ holder' = IF first = "permit" /\ holder[Res(j)] = j
                 THEN [holder EXCEPT ![Res(j)] = NoJob] ELSE holder
    /\ UNCHANGED <<asked, prompted, loose, leaks>>

SidecarNext ==
    \E j \in Jobs :
        \/ \E kind \in Kinds : BeginRun(j, kind)
        \/ MakeWorkDir(j) \/ TakePermit(j) \/ OpenFile(j) \/ FileWritten(j) \/ SpawnChild(j)
        \/ Produce(j) \/ ChildExits(j) \/ OnTerminated(j) \/ StreamCloses(j) \/ RunFails(j)
        \/ ServerAnswers(j) \/ ReadJson(j) \/ ProbeEnds(j) \/ AbortRun(j) \/ DropNext(j)

SidecarSpec == SidecarInit /\ [][SidecarNext]_sidecarVars
-----------------------------------------------------------------------------
(* Properties *)

\* However a run ends, its process is dead and its transcript is off the disk,
\* except for a file that was in the making and a child whose events had ended.
NothingStays ==
    \A j \in Jobs : job[j].at = "done" =>
        /\ j \notin loose => job[j].child # "running"
        /\ j \notin leaks => job[j].files = {}

\* A resource has one process at a time, and one prompt on the disk.
OneAtATime ==
    \A j, k \in Jobs : j # k /\ job[j].kind = job[k].kind /\ job[j].kind \in Resources =>
        /\ job[j].child = "running" /\ job[k].child = "running" => {j, k} \cap loose # {}
        /\ "prompt" \in job[j].files \cap job[k].files => {j, k} \cap leaks # {}

\* Only a whole answer is an answer, and the user is told "denied" only of what
\* the system asked him.
AnswersTrue ==
    /\ \A j \in Jobs : job[j].result = "ok" => job[j].output = "whole"
    /\ asked => prompted

SidecarsEnd == SidecarTypeOK /\ NothingStays /\ OneAtATime /\ AnswersTrue
=============================================================================
