--------------------------- MODULE ObserverEpoch ---------------------------
(***************************************************************************)
(* The observation epoch (observer/src/observe.rs): the start's polling,   *)
(* the snapshot at one resourceVersion R, one watch per served resource    *)
(* from R, the cycle with its progress read, the progress rule, and the    *)
(* request round that lets the I01 service answer.  The client             *)
(* (observer/src/client.rs) appears as what a link may report and as the   *)
(* one wait that serves the I01 peer.                                      *)
(*                                                                         *)
(* The apiserver is external: a log of commits, each at a revision (its    *)
(* place in the log), on a resource and at an instant.  A list reads the   *)
(* revision of some instant between its request and its answer; a watch    *)
(* delivers its resource's changes in order, and a bookmark only for       *)
(* revisions up to which it has nothing left to deliver.                   *)
(***************************************************************************)
EXTENDS I01Service, Integers, Sequences, FiniteSets, TLC

CONSTANTS
    Resources,              \* the served resources, one watch each
    Elsewhere,              \* commits that no watch sees
    OR07_BUDGET, SNAPSHOT_DEADLINE, RESTART_PAUSE, COALESCE, CYCLE, PROGRESS_BOUND, FRESHNESS_BOUND,
    REOPEN_LIMIT, REOPEN_WINDOW, REOPEN_PAUSE, STALE_LIMIT, DRAIN_POLLS,
    REQUEST_ROUND_SPACING, REQUEST_ROUND_DEADLINE,
    MaxTime, MaxRev, MaxPhase,  \* bounds: the clock, the apiserver's commits and the snapshots
    Walls                   \* bound: what the wall clock may say of the record's window

ASSUME EpochAssumption ==
    /\ Elsewhere \notin Resources
    /\ None \notin Resources
    /\ Resources # {}
    /\ Walls \subseteq Wall
    /\ \A bound \in {OR07_BUDGET, SNAPSHOT_DEADLINE, RESTART_PAUSE, COALESCE, CYCLE, PROGRESS_BOUND, FRESHNESS_BOUND,
                     REOPEN_LIMIT, REOPEN_WINDOW, REOPEN_PAUSE, STALE_LIMIT, DRAIN_POLLS,
                     REQUEST_ROUND_SPACING, REQUEST_ROUND_DEADLINE, MaxTime, MaxRev, MaxPhase} : bound \in Nat

\* Nothing tells the served resources apart.
Symmetric == Permutations(Resources)

VARIABLES
    now, log,               \* the monotonic clock; the apiserver's commits
    pc,                     \* where the epoch is
    marker,                 \* S0 is read (and with it the epoch's first 200)
    phase, started, resume, deadline, reading,  \* the snapshot: its phase, start, earliest start, deadline, fresh list
    observation,            \* R, and the stamp of the freshness mark
    highest, lastF,         \* the highest mark; the last progress read
    streams, pending, stale,
    probe, queue, cycleActive, nextCycle,
    drain,                  \* the polls of the drain in progress, None when none is due
    streamed,               \* the batch held a stream's event
    queued,                 \* links whose connect failed at once, reported by the next poll
    round, roundFailed, lastRound,
    service,                \* the I01 service
    answer                  \* history: the answer of the last wait, with its request's receipt and its view's R

apiserver == <<now, log>>
snapshotting == <<marker, phase, started, resume, deadline, reading>>
watching == <<streams, pending, stale, probe, queue, cycleActive, nextCycle, drain, streamed, queued>>
rounds == <<round, roundFailed, lastRound>>
marks == <<observation, highest, lastF>>
vars == <<apiserver, pc, snapshotting, marks, watching, rounds, service, answer>>

-----------------------------------------------------------------------------
Revision == 0..Len(log)
Commit == [resource : Resources \cup {Elsewhere}, at : Instant]
Stream == [state : {"OPENING", "ESTABLISHED", "ENDED", "WAITING"}, initial : BOOLEAN, at : Instant, mark : Mark,
           failures : Nat, first : Instant \cup {None}]
Task == {"PROGRESS", "SCRAPE", "ENDCHECK", "REQUEST"}
Links == Resources \cup {"PROBE"}

TypeOK ==
    /\ now \in Instant /\ log \in Seq(Commit)
    /\ pc \in {"START", "SNAPSHOT", "READ", "PASS", "WAIT", "BATCH", "QUEUED", "EXIT"}
    /\ marker \in BOOLEAN /\ phase \in Nat
    /\ started \in Instant \cup {None} /\ resume \in Instant /\ deadline \in Instant \cup {None}
    /\ reading \in [stamp : Instant, floor : Mark, mark : Mark \cup {None}] \cup {None}
    /\ observation \in [mark : Mark, freshStamp : Instant] \cup {None}
    /\ highest \in Mark /\ lastF \in Mark
    /\ streams \in [Resources -> Stream]
    /\ pending \in Seq([mark : Mark, stamp : Instant, deadline : Instant])
    /\ stale \in Nat
    /\ probe \in [task : Task, started : Instant, floor : Mark, covers : SUBSET Resources] \cup {None}
    /\ queue \in Seq(Task) /\ cycleActive \in BOOLEAN /\ nextCycle \in Instant \cup {None}
    /\ drain \in Nat \cup {None} /\ streamed \in BOOLEAN
    /\ queued \subseteq Links
    /\ round \in [started : Instant, deadline : Instant, mark : Mark \cup {None}] \cup {None}
    /\ roundFailed \in BOOLEAN /\ lastRound \in Instant \cup {None}
    /\ service \in Service
    /\ answer \in [received : Instant, mark : Mark] \cup {None}

NewStream(mark) == [state |-> "OPENING", initial |-> TRUE, at |-> 0, mark |-> mark, failures |-> 0, first |-> None]

Init ==
    /\ now = 0 /\ log = <<>>
    /\ pc = "START" /\ marker = FALSE
    /\ phase = 0 /\ started = None /\ resume = 0 /\ deadline = None /\ reading = None
    /\ observation = None /\ highest = 0 /\ lastF = 0
    /\ streams = [r \in Resources |-> NewStream(0)]
    /\ pending = <<>> /\ stale = 0
    /\ probe = None /\ queue = <<>> /\ cycleActive = FALSE /\ nextCycle = None
    /\ drain = None /\ streamed = FALSE /\ queued = {}
    /\ round = None /\ roundFailed = FALSE /\ lastRound = None
    /\ service = NewService
    /\ answer = None

-----------------------------------------------------------------------------
(* The apiserver and the clock (external).                                  *)

\* Time passes and commits arrive while the epoch waits; a step between two waits takes them as it finds them.
Waiting == pc \in {"START", "SNAPSHOT", "READ", "WAIT", "BATCH"}

Tick ==
    /\ Waiting /\ now < MaxTime
    /\ now' = now + 1
    /\ UNCHANGED <<log, pc, snapshotting, marks, watching, rounds, service, answer>>

CommitOn(r) ==
    /\ Waiting /\ Len(log) < MaxRev
    /\ log' = Append(log, [resource |-> r, at |-> now])
    /\ UNCHANGED <<now, pc, snapshotting, marks, watching, rounds, service, answer>>

\* The changes of a resource after one revision and up to another.
Changes(r, from, to) == {rev \in from + 1 .. to : log[rev].resource = r}

-----------------------------------------------------------------------------
(* The one wait: it serves the I01 peer, one descriptor and then the        *)
(* deadlines, and sends the answer when the request is ready.               *)

Serve ==
    \E wall \in Walls : \E stepped \in ServePeerStep(service, wall, now) :
        LET due == Deadlines(stepped, wall, now)
        IN  /\ ~ListenerFailed(stepped)
            /\ IF ~Ready(due, now)
               THEN /\ service' = due
                    /\ answer' = None
               ELSE \/ /\ service' = End(due)
                       /\ answer' = None
                    \/ /\ Serves(due)
                       /\ service' = Sent(due, now)
                       /\ answer' = [received |-> due.session.pending, mark |-> due.snapshot.mark]

\* The pauses of the start and of the snapshot, and their exchanges, wait the same way.
ServeMeanwhile ==
    /\ pc \in {"START", "SNAPSHOT", "READ"}
    /\ Serve
    /\ UNCHANGED <<apiserver, pc, snapshotting, marks, watching, rounds>>

\* Every end of the epoch: every link closes, and nothing that the process held is left.
Exit ==
    /\ pc' = "EXIT"
    /\ marker' = FALSE
    /\ phase' = 0 /\ started' = None /\ resume' = 0 /\ deadline' = None /\ reading' = None
    /\ observation' = None /\ highest' = 0 /\ lastF' = 0
    /\ streams' = [r \in Resources |-> NewStream(0)]
    /\ pending' = <<>> /\ stale' = 0
    /\ probe' = None /\ queue' = <<>> /\ cycleActive' = FALSE /\ nextCycle' = None
    /\ drain' = None /\ streamed' = FALSE /\ queued' = {}
    /\ round' = None /\ roundFailed' = FALSE /\ lastRound' = None
    /\ service' = NewService
    /\ answer' = None
    /\ UNCHANGED apiserver

\* The twelfth fault of the listener in a row, or a failed wait.
WaitFails ==
    /\ pc \in {"START", "SNAPSHOT", "READ", "WAIT"}
    /\ Exit

\* An unusable wall clock, or the configuration's notAfter, at any step that checks the clock.
ClockExit ==
    /\ pc \in {"START", "READ", "PASS"}
    /\ Exit

-----------------------------------------------------------------------------
(* The start: S0, then OR07, polled within its budget.                      *)

\* The S0 scrape: read, or to be polled again; a 401 or 403 is polled again, for no 200 was seen yet.
StartScrape ==
    /\ pc = "START" /\ ~marker /\ now < OR07_BUDGET
    /\ marker' = TRUE
    /\ UNCHANGED <<apiserver, pc, phase, started, resume, deadline, reading, marks, watching, rounds,
                   service, answer>>

\* OR07 answers 200 ok: the first snapshot has nothing to wait for.
StartReadyz ==
    /\ pc = "START" /\ marker /\ now < OR07_BUDGET
    /\ pc' = "SNAPSHOT"
    /\ UNCHANGED <<apiserver, snapshotting, marks, watching, rounds, service, answer>>

\* The budget is over, or an answer of the start is refused: from the first 200 on a 401 or 403 too.
StartFails ==
    /\ pc = "START"
    /\ Exit

-----------------------------------------------------------------------------
(* The snapshot.                                                            *)

\* The next snapshot of the epoch's loop, once the coalescing or the restart pause is over.
BeginSnapshot ==
    /\ pc = "SNAPSHOT" /\ now >= resume /\ phase < MaxPhase
    /\ started' = now
    /\ phase' = phase + 1
    /\ deadline' = IF deadline = None THEN now + SNAPSHOT_DEADLINE ELSE deadline
    /\ reading' = None
    /\ resume' = 0
    /\ pc' = "READ"
    /\ UNCHANGED <<apiserver, marker, marks, watching, rounds, service, answer>>

\* An attempt: after discovery the first served list is asked for, fresh; its stamp is taken before the request.
AskFresh ==
    /\ pc = "READ" /\ reading = None /\ now >= resume /\ now < deadline
    /\ reading' = [stamp |-> now, floor |-> Len(log), mark |-> None]
    /\ UNCHANGED <<apiserver, pc, marker, phase, started, resume, deadline, marks, watching, rounds,
                   service, answer>>

\* The fresh list answers R; an R below the highest mark seen ends the epoch.
FreshList(rev) ==
    /\ pc = "READ" /\ reading # None /\ reading.mark = None
    /\ rev \in reading.floor .. Len(log)
    /\ rev >= highest
    /\ reading' = [reading EXCEPT !.mark = rev]
    /\ UNCHANGED <<apiserver, pc, marker, phase, started, resume, deadline, marks, watching, rounds,
                   service, answer>>

\* A transport failure, a deadline, a busy answer, 410 or 504 on a list at R, or unsettled quotas: another attempt.
RestartSnapshot ==
    /\ pc = "READ" /\ now >= resume /\ now < deadline
    /\ reading' = None
    /\ resume' = IF now + RESTART_PAUSE < deadline THEN now + RESTART_PAUSE ELSE deadline
    /\ UNCHANGED <<apiserver, pc, marker, phase, started, deadline, marks, watching, rounds, service,
                   answer>>

\* The deadline, a refused read, a refused answer, or a check of the snapshot that refuses.
SnapshotFails ==
    /\ pc = "READ"
    /\ Exit

\* The rest of the lists at R, the version, the scrape and every check passed.  The view is pushed, the failed-round
\* latch clears, and the watch phase opens one stream per resource from R.
SnapshotPasses ==
    /\ pc = "READ" /\ reading # None /\ reading.mark # None
    /\ observation' = [mark |-> reading.mark, freshStamp |-> reading.stamp]
    /\ highest' = IF highest < reading.mark THEN reading.mark ELSE highest
    /\ \E derived \in BOOLEAN :
        service' = PushSnapshot(service, [phase |-> phase, mark |-> reading.mark, derived |-> derived])
    /\ roundFailed' = FALSE
    /\ streams' = [r \in Resources |-> NewStream(reading.mark)]
    /\ pending' = <<>>
    /\ probe' = None /\ queue' = <<>> /\ cycleActive' = FALSE
    /\ drain' = None /\ streamed' = FALSE
    /\ nextCycle' = IF nextCycle = None THEN reading.stamp + CYCLE ELSE nextCycle
    /\ \E failing \in SUBSET Resources : queued' = failing
    /\ reading' = None
    /\ resume' = 0
    /\ pc' = "PASS"
    /\ UNCHANGED <<apiserver, marker, phase, started, deadline, lastF, stale, round, lastRound,
                   answer>>

-----------------------------------------------------------------------------
(* The watch phase.                                                         *)

AllEstablished(ss) == \A r \in Resources : ss[r].state = "ESTABLISHED"
WithinFreshness == now <= observation.freshStamp + FRESHNESS_BOUND

\* The end of a watch phase: every link closes and the streams' state is dropped (the next phase starts from its own),
\* a round in flight fails, and the service is told that no stream is established.  Only the first open after a snapshot restarts it within its deadline.
EndWatch(trigger) ==
    /\ streams' = [r \in Resources |-> NewStream(0)] /\ pending' = <<>>
    /\ probe' = None /\ queue' = <<>> /\ cycleActive' = FALSE
    /\ drain' = None /\ streamed' = FALSE /\ queued' = {}
    /\ round' = None
    /\ roundFailed' = (roundFailed \/ round # None)
    /\ service' = PushAvailability(service,
                      [phase |-> phase, established |-> FALSE, fresh |-> FALSE,
                       round |-> IF roundFailed \/ round # None THEN FailedRound ELSE NoRound])
    /\ resume' = IF trigger = "INITIAL_OPEN" THEN now + RESTART_PAUSE ELSE started + COALESCE
    /\ deadline' = IF trigger = "INITIAL_OPEN" THEN deadline ELSE None
    /\ pc' = "SNAPSHOT"
    /\ UNCHANGED <<apiserver, marker, phase, started, reading, marks, nextCycle, lastRound, answer>>

\* The oldest fresh mark that some stream has not passed is overdue.
Overdue == pending # <<>> /\ Head(pending).deadline <= now

StaleSnapshot ==
    /\ pc = "PASS" /\ Overdue
    /\ stale + 1 < STALE_LIMIT
    /\ stale' = stale + 1
    /\ EndWatch("STALE")

StaleExit ==
    /\ pc = "PASS" /\ Overdue
    /\ stale + 1 >= STALE_LIMIT
    /\ Exit

\* The streams whose pause after a failed open is over.
Reopening == {r \in Resources : streams[r].state = "WAITING" /\ streams[r].at <= now}

\* At most one request round at a time, spaced, ahead of the cycle's tasks, and none while the latch holds.
QueueRound ==
    IF /\ Pending(service) /\ ~roundFailed /\ round = None
       /\ lastRound = None \/ now >= lastRound + REQUEST_ROUND_SPACING
       /\ \A i \in DOMAIN queue : queue[i] # "REQUEST"
    THEN <<"REQUEST">> \o queue
    ELSE queue

StartsCycle == probe = None /\ QueueRound = <<>> /\ ~cycleActive /\ nextCycle <= now

Tasks == IF StartsCycle THEN <<"PROGRESS", "SCRAPE">> ELSE QueueRound

StartsProbe == probe = None /\ Tasks # <<>>

\* The task's request: an end check covers the streams that have ended before it.
NewProbe(task) ==
    [task |-> task, started |-> now, floor |-> Len(log),
     covers |-> IF task = "ENDCHECK" THEN {r \in Resources : streams[r].state = "ENDED"} ELSE {}]

StartsRound == StartsProbe /\ Head(Tasks) = "REQUEST"

StartedRound ==
    IF StartsRound THEN [started |-> now, deadline |-> now + REQUEST_ROUND_DEADLINE, mark |-> None] ELSE round

RoundLate == StartedRound # None /\ StartedRound.deadline <= now

\* Mutant: a round passes as soon as its list is answered.
RoundPassesAtOnce(ss) ==
    /\ StartedRound # None /\ ~RoundLate /\ StartedRound.mark # None
    /\ AllEstablished(ss)

\* A round passes when every stream is established and has delivered its list's mark.
RoundPasses(ss) ==
    /\ StartedRound # None /\ ~RoundLate /\ StartedRound.mark # None
    /\ AllEstablished(ss)
    /\ \A r \in Resources : ss[r].mark >= StartedRound.mark

\* What one pass of the loop pushes: the one push of a passed round, then `Failed' while the latch holds.
PassAvailability(ss) ==
    [phase |-> phase, established |-> AllEstablished(ss), fresh |-> WithinFreshness,
     round |-> IF RoundPasses(ss) THEN Passed(StartedRound.started, StartedRound.mark)
               ELSE IF roundFailed \/ RoundLate THEN FailedRound ELSE NoRound]

\* One pass of the watch loop up to its wait.
Pass ==
    /\ pc = "PASS" /\ ~Overdue
    /\ LET reopened == [r \in Resources |->
                           IF r \in Reopening THEN [streams[r] EXCEPT !.state = "OPENING", !.at = 0] ELSE streams[r]]
           asked == IF StartsProbe THEN NewProbe(Head(Tasks)) ELSE probe
           dropped == RoundLate /\ asked # None /\ asked.task = "REQUEST"
       IN  /\ streams' = reopened
           /\ probe' = IF dropped THEN None ELSE asked
           /\ queue' = IF StartsProbe THEN Tail(Tasks) ELSE Tasks
           /\ \E failing \in SUBSET (Reopening \cup (IF StartsProbe THEN {"PROBE"} ELSE {})) :
                queued' = (queued \cup failing) \ (IF dropped THEN {"PROBE"} ELSE {})
           /\ round' = IF RoundLate \/ RoundPasses(reopened) THEN None ELSE StartedRound
           /\ \E wall \in Walls :
                service' = PushAvailability(IF wall = "AFTER" THEN PushCapture(service, TRUE) ELSE service,
                                            PassAvailability(reopened))
    /\ cycleActive' = (cycleActive \/ StartsCycle)
    /\ nextCycle' = IF StartsCycle THEN now + CYCLE ELSE nextCycle
    /\ lastRound' = IF StartsRound THEN now ELSE lastRound
    /\ roundFailed' = (roundFailed \/ RoundLate)
    /\ pc' = "WAIT"
    /\ UNCHANGED <<apiserver, snapshotting, marks, pending, stale, drain, streamed, answer>>

\* The wait of the loop, or of a drain's poll; then the events of its batch.
Wait ==
    /\ pc = "WAIT" /\ queued = {}
    /\ Serve
    /\ streamed' = FALSE
    /\ pc' = "BATCH"
    /\ UNCHANGED <<apiserver, snapshotting, marks, streams, pending, stale, probe, queue, cycleActive, nextCycle,
                   drain, queued, rounds>>

\* Links that failed at once are reported without a wait, so the I01 peer is not served by this poll.
PollQueued ==
    /\ pc = "WAIT" /\ queued # {}
    /\ streamed' = FALSE
    /\ pc' = "QUEUED"
    /\ UNCHANGED <<apiserver, snapshotting, marks, streams, pending, stale, probe, queue, cycleActive, nextCycle,
                   drain, queued, rounds, service, answer>>

\* After the batch: a drain due polls on until a poll holds no stream's event, at most DRAIN_POLLS times.
EndBatch ==
    /\ pc = "BATCH" \/ (pc = "QUEUED" /\ queued = {})
    /\ LET again == drain # None /\ (drain = 0 \/ (streamed /\ drain < DRAIN_POLLS))
       IN  /\ drain' = IF again THEN drain + 1 ELSE None
           /\ pc' = IF again THEN "WAIT" ELSE "PASS"
    /\ streamed' = FALSE
    /\ answer' = None
    /\ UNCHANGED <<apiserver, snapshotting, marks, streams, pending, stale, probe, queue, cycleActive, nextCycle,
                   queued, rounds, service>>

-----------------------------------------------------------------------------
(* The events of a batch.                                                   *)

\* Only a drain's poll asks whether its batch held a stream's event.
StreamSeen == streamed' = (drain # None /\ drain > 0)

\* Mutant: a fresh mark that the fastest stream has passed.
PassedBySome(ss, ps) == {i \in DOMAIN ps : \E r \in Resources : ss[r].mark >= ps[i].mark}

\* The fresh marks every stream has passed, among those pending.
PassedMarks(ss, ps) == {i \in DOMAIN ps : \A r \in Resources : ss[r].mark >= ps[i].mark}

\* The freshness mark moves to the latest of them; pending marks never fall, so what stays is a suffix.
AdvanceFresh(ss, ps) ==
    IF PassedMarks(ss, ps) = {}
    THEN /\ pending' = ps
         /\ UNCHANGED <<stale, observation>>
    ELSE \E i \in PassedMarks(ss, ps) :
            /\ \A j \in PassedMarks(ss, ps) : j <= i
            /\ pending' = SubSeq(ps, i + 1, Len(ps))
            /\ stale' = 0
            /\ observation' = [observation EXCEPT !.freshStamp = ps[i].stamp]

Delivers(r, state) == pc = "BATCH" /\ r \notin queued /\ streams[r].state = state

StreamEstablished(r) ==
    /\ Delivers(r, "OPENING")
    /\ streams' = [streams EXCEPT ![r] = [NewStream(streams[r].mark) EXCEPT !.state = "ESTABLISHED", !.initial = FALSE]]
    /\ deadline' = IF AllEstablished(streams') THEN None ELSE deadline
    /\ StreamSeen
    /\ UNCHANGED <<apiserver, pc, marker, phase, started, resume, reading, marks, pending, stale, probe, queue,
                   cycleActive, nextCycle, drain, queued, rounds, service, answer>>

\* A bookmark beyond the stream's mark; one at or below it is ignored.
Bookmark(r, rev) ==
    /\ Delivers(r, "ESTABLISHED")
    /\ rev \in streams[r].mark + 1 .. Len(log)
    /\ Changes(r, streams[r].mark, rev) = {}
    /\ streams' = [streams EXCEPT ![r].mark = rev]
    /\ highest' = IF highest < rev THEN rev ELSE highest
    /\ AdvanceFresh(streams', pending)
    /\ StreamSeen
    /\ UNCHANGED <<apiserver, pc, snapshotting, lastF, probe, queue, cycleActive, nextCycle, drain, queued,
                   rounds, service, answer>>

\* A change, or a line too long to be anything else.
Change(r) ==
    /\ Delivers(r, "ESTABLISHED")
    /\ Changes(r, streams[r].mark, Len(log)) # {}
    /\ UNCHANGED stale
    /\ EndWatch("CHANGE")

\* The first open after a snapshot is answered 410 or 504.
InitialOpenRefused(r) ==
    /\ Delivers(r, "OPENING") /\ streams[r].initial
    /\ UNCHANGED stale
    /\ EndWatch("INITIAL_OPEN")

\* Mutant: no second check while one is queued or running.
StreamEndsUnchecked(r) ==
    /\ Delivers(r, "ESTABLISHED")
    /\ streams' = [streams EXCEPT ![r].state = "ENDED"]
    /\ queue' = IF \/ \E i \in DOMAIN queue : queue[i] = "ENDCHECK"
                   \/ probe # None /\ probe.task = "ENDCHECK"
                THEN queue ELSE <<"ENDCHECK">> \o queue
    /\ StreamSeen
    /\ UNCHANGED <<apiserver, pc, snapshotting, marks, pending, stale, probe, cycleActive, nextCycle, drain, queued,
                   rounds, service, answer>>

\* An established stream ends: a restart check before it is reopened.
StreamEnds(r) ==
    /\ Delivers(r, "ESTABLISHED")
    /\ streams' = [streams EXCEPT ![r].state = "ENDED"]
    /\ queue' = IF \E i \in DOMAIN queue : queue[i] = "ENDCHECK" THEN queue ELSE <<"ENDCHECK">> \o queue
    /\ StreamSeen
    /\ UNCHANGED <<apiserver, pc, snapshotting, marks, pending, stale, probe, cycleActive, nextCycle, drain, queued,
                   rounds, service, answer>>

\* An open that fails: in this poll's batch, or at once and reported by the poll that took it.
OpenFails(r) ==
    \/ Delivers(r, "OPENING")
    \/ pc = "QUEUED" /\ r \in queued

FirstFailure(r) == IF streams[r].first = None THEN now ELSE streams[r].first

BeyondReopenBound(r) == streams[r].failures + 1 > REOPEN_LIMIT \/ now > FirstFailure(r) + REOPEN_WINDOW

FailedOpen(r) ==
    /\ OpenFails(r) /\ ~BeyondReopenBound(r)
    /\ streams' = [streams EXCEPT ![r] = [@ EXCEPT !.state = "WAITING", !.at = now + REOPEN_PAUSE,
                                                   !.failures = @ + 1, !.first = FirstFailure(r)]]
    /\ queued' = queued \ {r}
    /\ StreamSeen
    /\ UNCHANGED <<apiserver, pc, snapshotting, marks, pending, stale, probe, queue, cycleActive, nextCycle, drain,
                   rounds, service, answer>>

ReopenExit(r) ==
    /\ OpenFails(r) /\ BeyondReopenBound(r)
    /\ Exit

\* A gap, a refused open, a 410 on a reopen, a framing refusal, another marker than S0, a mark that went backwards,
\* ADM-4's verdict, a 401 or 403 of any read.
BatchExit ==
    /\ pc = "BATCH"
    /\ Exit

-----------------------------------------------------------------------------
(* The answers of the one probe slot.                                       *)

Probing(task) == probe # None /\ probe.task = task

Answers(task) == pc = "BATCH" /\ "PROBE" \notin queued /\ Probing(task)

\* Every fresh mark is at least the last one and R; an answer below them is inconsistent.
Floor == IF lastF < observation.mark THEN observation.mark ELSE lastF

\* The progress read's mark F joins the marks the streams must pass, stamped at its request's start.
ProgressRead(rev) ==
    /\ Answers("PROGRESS")
    /\ rev \in probe.floor .. Len(log) /\ rev >= Floor
    /\ probe' = None
    /\ lastF' = rev
    /\ highest' = IF highest < rev THEN rev ELSE highest
    /\ AdvanceFresh(streams, Append(pending, [mark |-> rev, stamp |-> probe.started,
                                              deadline |-> probe.started + PROGRESS_BOUND]))
    /\ UNCHANGED <<apiserver, pc, snapshotting, streams, queue, cycleActive, nextCycle, drain, streamed, queued,
                   rounds, service, answer>>

\* The round's list answers its mark, which the progress rule never sees.
RoundRead(rev) ==
    /\ Answers("REQUEST")
    /\ rev \in probe.floor .. Len(log) /\ rev >= Floor
    /\ probe' = None
    /\ highest' = IF highest < rev THEN rev ELSE highest
    /\ round' = IF round = None THEN None ELSE [round EXCEPT !.mark = rev]
    /\ UNCHANGED <<apiserver, pc, snapshotting, observation, lastF, streams, pending, stale, queue, cycleActive,
                   nextCycle, drain, streamed, queued, roundFailed, lastRound, service, answer>>

ProbeFails(task) == Answers(task) \/ (pc = "QUEUED" /\ "PROBE" \in queued /\ Probing(task))

\* Any other outcome of the round's list fails the round, and the latch holds until the next snapshot's view.
RoundFails ==
    /\ ProbeFails("REQUEST")
    /\ probe' = None
    /\ round' = None
    /\ roundFailed' = TRUE
    /\ queued' = queued \ {"PROBE"}
    /\ UNCHANGED <<apiserver, pc, snapshotting, marks, streams, pending, stale, queue, cycleActive, nextCycle, drain,
                   streamed, lastRound, service, answer>>

\* Any other outcome of a cycle's read or of an end check is a full snapshot.
Escalate ==
    /\ \E task \in {"PROGRESS", "SCRAPE", "ENDCHECK"} : ProbeFails(task)
    /\ UNCHANGED stale
    /\ EndWatch("FULL")

\* The end check found S0: the streams it covers are reopened from their marks.
EndChecked ==
    /\ Answers("ENDCHECK")
    /\ LET covered == {r \in probe.covers : streams[r].state = "ENDED"}
       IN  /\ streams' = [r \in Resources |->
                            IF r \in covered THEN [streams[r] EXCEPT !.state = "OPENING"]
                            ELSE streams[r]]
           /\ \E failing \in SUBSET covered : queued' = queued \cup failing
    /\ probe' = None
    /\ UNCHANGED <<apiserver, pc, snapshotting, marks, pending, stale, queue, cycleActive, nextCycle, drain, streamed,
                   rounds, service, answer>>

\* The cycle's scrape ends the cycle and runs one capture set, unless the record has expired; the set marks the wire
\* for draining.
CycleScraped ==
    /\ Answers("SCRAPE")
    /\ probe' = None
    /\ cycleActive' = FALSE
    /\ \E wall \in Walls :
        LET expired == wall = "AFTER" \/ service.capture = "EXPIRED"
        IN  /\ service' = PushCapture(service, expired)
            /\ drain' = IF expired \/ drain # None THEN drain ELSE 0
    /\ UNCHANGED <<apiserver, pc, snapshotting, marks, streams, pending, stale, queue, nextCycle, streamed, queued,
                   rounds, answer>>

-----------------------------------------------------------------------------
Next ==
    \/ Tick
    \/ \E r \in Resources \cup {Elsewhere} : CommitOn(r)
    \/ ServeMeanwhile \/ WaitFails \/ ClockExit
    \/ StartScrape \/ StartReadyz \/ StartFails
    \/ BeginSnapshot \/ AskFresh \/ RestartSnapshot \/ SnapshotFails \/ SnapshotPasses
    \/ StaleSnapshot \/ StaleExit \/ Pass \/ Wait \/ PollQueued \/ EndBatch \/ BatchExit
    \/ RoundFails \/ Escalate \/ EndChecked \/ CycleScraped
    \/ \E rev \in Revision : FreshList(rev) \/ ProgressRead(rev) \/ RoundRead(rev)
    \/ \E r \in Resources :
        \/ StreamEstablished(r) \/ Change(r) \/ InitialOpenRefused(r) \/ StreamEnds(r) \/ FailedOpen(r) \/ ReopenExit(r)
        \/ \E rev \in Revision : Bookmark(r, rev)

Spec == Init /\ [][Next]_vars

-----------------------------------------------------------------------------
(* Properties.                                                              *)

Watching == pc \in {"PASS", "WAIT", "BATCH", "QUEUED"}

\* The changes of served resources that a view taken at revision `mark' misses.
Missed(mark) == {rev \in mark + 1 .. Len(log) : log[rev].resource \in Resources}

\* An answer sent to the I01 peer is current at its request's receipt: no change that was committed to a served
\* resource before the request arrived is missing from the snapshot the answer was derived from
\* (push_availability's round, ready, respond).
AnswersAreCurrent ==
    answer # None => \A rev \in Missed(answer.mark) : log[rev].at >= answer.received

\* The freshness stamp is true: in a watch phase, no change committed before it is missing from the snapshot, though
\* streams fall behind, end, are reopened and pass the fresh marks in any order (advance_fresh, the progress rule).
\* And nothing of a watch phase is stranded: a stream that ended has an end check queued, or in flight and covering it,
\* and a cycle that is active still has its scrape to come (on_stream, on_probe, start_cycle, the one probe slot).
FreshMarkHolds ==
    Watching =>
        /\ \A rev \in Missed(observation.mark) : log[rev].at >= observation.freshStamp
        /\ \A r \in Resources : streams[r].state = "ENDED" =>
                \/ \E i \in DOMAIN queue : queue[i] = "ENDCHECK"
                \/ Probing("ENDCHECK") /\ r \in probe.covers
        /\ cycleActive => Probing("SCRAPE") \/ \E i \in DOMAIN queue : queue[i] = "SCRAPE"

=============================================================================
