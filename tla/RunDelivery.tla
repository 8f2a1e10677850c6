----------------------------- MODULE RunDelivery -----------------------------
(***************************************************************************)
(* How a submitted email becomes a run and a run a verdict on the screen:  *)
(* the console page (web/src/features/LiveRun.tsx), POST /runs             *)
(* (handlers/api/app.py), the bus and its two queues (template.yaml), the  *)
(* run worker's loop (scripts/run_worker.py) and the realtime gateway      *)
(* (adapters/realtime/gateway.py).                                         *)
(*                                                                         *)
(* Both queues deliver at least once and in any order.  The worker stores  *)
(* a run's summary and then announces it; the page follows the events of   *)
(* its run and, since an event may be missed, also asks for the status.    *)
(* Of the events only RunRequested and RunCompleted change anything here.  *)
(*                                                                         *)
(* The page's callbacks belong to what is mounted when they are made: the  *)
(* console unmounts the page when another tab is opened, keeps what it     *)
(* showed in the session's storage, and restores it.                       *)
(***************************************************************************)
EXTENDS Naturals

CONSTANTS
    MaxRuns,     \* bound: submissions
    Verdicts,    \* what the episode of a run may end with
    MaxMishaps,  \* bound: calls that fail, processes that stop, messages lost
    None

ASSUME BoundsAssumption == MaxRuns \in Nat /\ MaxMishaps \in Nat

\* Identities are fresh and otherwise arbitrary: they are given in order.
Runs == 1..MaxRuns

VARIABLES
    submissions,  \* the runs table: run -> its status and summary
    posts,        \* run -> where the POST /runs that submits it stands
    requests,     \* the run-requests queue: run -> messages waiting
    worker,       \* the worker's loop and the message it holds
    announced,    \* the console-events queue: event -> messages waiting
    gateway,      \* the gateway's poll and the message it holds
    page,         \* what the page shows and follows
    awaiting,     \* the submissions whose answer the mounted page awaits
    polls,        \* answers of GET /runs under way to the mounted page
    recorded,     \* history: every summary ever stored
    dropped,      \* history: runs whose request was never announced, was lost,
                  \* or whose processing failed
    mishaps       \* history: how much went wrong

table == <<submissions, recorded>>
queues == <<requests, announced>>
browser == <<page, awaiting, polls>>
vars == <<table, posts, queues, worker, gateway, browser, dropped, mishaps>>

-----------------------------------------------------------------------------
\* COMPLETED, TIMED_OUT and FAILED differ in nothing that follows a run.
RunStatus == {"QUEUED", "RUNNING", "ENDED"}

SubmissionRecord == [status : RunStatus, summary : Verdicts \cup {None}]

\* A RunCompleted event, a stored summary, or a verdict on the screen.
RunVerdict == [run : Runs, verdict : Verdicts]
Told(r, v) == [run |-> r, verdict |-> v]

ASSUME NoneAssumption == None \notin Runs \cup Verdicts \cup SubmissionRecord \cup RunVerdict

Busy == {"submitting", "running"}

\* shown: the verdict.  latest: the newest RunCompleted of the feed, since
\* the page cleared it.  socket: the runs an open connection asks for.
Page ==
    [mounted : BOOLEAN, phase : Busy \cup {"idle", "done", "error"},
     runId : Runs \cup {None}, shown : RunVerdict \cup {None},
     latest : RunVerdict \cup {None}, socket : SUBSET Runs]

Ended(r) == submissions[r] # None /\ submissions[r].status = "ENDED"

Mishap == mishaps < MaxMishaps /\ mishaps' = mishaps + 1

At(stage, run, verdict) == [stage |-> stage, run |-> run, verdict |-> verdict]
Ready == At("receive", None, None)

-----------------------------------------------------------------------------
(* The page.  React commits what a callback sets together and runs the     *)
(* effects before the next callback.                                       *)

\* The effect that finishes a run on a completion event in the feed.
Follow(p) ==
    IF p.phase = "running" /\ p.latest # None
    THEN [p EXCEPT !.phase = "done", !.shown = p.latest]
    ELSE p

\* Mistake: the run is followed before it was accepted.
SubmitFollowing(r) ==
    /\ page.mounted /\ page.phase \notin Busy
    /\ posts[r] = "unused"
    /\ page' = [page EXCEPT !.phase = "submitting", !.runId = r,
                            !.shown = None, !.latest = None]
    /\ awaiting' = awaiting \cup {r}
    /\ posts' = [posts EXCEPT ![r] = "put"]
    /\ UNCHANGED <<table, queues, worker, gateway, polls, dropped, mishaps>>

Submit(r) ==
    /\ page.mounted /\ page.phase \notin Busy
    /\ posts[r] = "unused"
    /\ \A earlier \in 1..(r - 1) : posts[earlier] # "unused"
    /\ page' = [page EXCEPT !.phase = "submitting", !.shown = None, !.latest = None]
    /\ awaiting' = awaiting \cup {r}
    /\ posts' = [posts EXCEPT ![r] = "put"]
    /\ UNCHANGED <<table, queues, worker, gateway, polls, dropped, mishaps>>

Reset ==
    /\ page.mounted /\ page.phase \notin Busy
    /\ page' = [page EXCEPT !.phase = "idle", !.runId = None,
                            !.shown = None, !.latest = None,
                            !.socket = IF page.runId = None THEN @ ELSE {}]
    /\ UNCHANGED <<table, posts, queues, worker, gateway,
                   awaiting, polls, dropped, mishaps>>

\* Mistake: the page only asks while it is not connected.
PollDisconnected ==
    /\ page.mounted /\ page.phase = "running" /\ page.socket = {}
    /\ Ended(page.runId)
    /\ polls' = polls \cup {Told(page.runId, submissions[page.runId].summary)}
    /\ UNCHANGED <<table, posts, queues, worker, gateway,
                   page, awaiting, dropped, mishaps>>

\* The interval's question, and the one asked when the page is restored: an
\* answer that the run has not ended changes nothing and is left out.
Poll ==
    /\ page.mounted /\ page.phase = "running"
    /\ Ended(page.runId)
    /\ polls' = polls \cup {Told(page.runId, submissions[page.runId].summary)}
    /\ UNCHANGED <<table, posts, queues, worker, gateway,
                   page, awaiting, dropped, mishaps>>

\* The callback does not ask which run the page follows by now.
PollAnswered(answer) ==
    /\ answer \in polls
    /\ polls' = polls \ {answer}
    /\ page' = [page EXCEPT !.phase = "done", !.shown = answer]
    /\ UNCHANGED <<table, posts, queues, worker, gateway, awaiting, dropped, mishaps>>

PollFails(answer) ==
    /\ Mishap
    /\ answer \in polls
    /\ polls' = polls \ {answer}
    /\ UNCHANGED <<table, posts, queues, worker, gateway, page, awaiting, dropped>>

\* The socket is opened anew whenever the run it is filtered to changes.
Connect ==
    /\ page.mounted /\ page.socket = {}
    /\ page' = [page EXCEPT !.socket = IF page.runId = None THEN Runs ELSE {page.runId}]
    /\ UNCHANGED <<table, posts, queues, worker, gateway,
                   awaiting, polls, dropped, mishaps>>

SocketDrops ==
    /\ Mishap
    /\ page.socket # {}
    /\ page' = [page EXCEPT !.socket = {}]
    /\ UNCHANGED <<table, posts, queues, worker, gateway, awaiting, polls, dropped>>

\* The user opens another tab of the console: what the page showed is kept,
\* and no answer it was waiting for will change it.
SwitchAway ==
    /\ page.mounted
    /\ page' = [page EXCEPT !.mounted = FALSE, !.socket = {}]
    /\ awaiting' = {}
    /\ polls' = {}
    /\ UNCHANGED <<table, posts, queues, worker, gateway, dropped, mishaps>>

ComeBack ==
    /\ ~page.mounted
    /\ page' = [page EXCEPT !.mounted = TRUE]
    /\ UNCHANGED <<table, posts, queues, worker, gateway,
                   awaiting, polls, dropped, mishaps>>

-----------------------------------------------------------------------------
(* POST /runs: record the submission, announce it, answer.                 *)

Put(r) == submissions' = [submissions EXCEPT ![r] = [status |-> "QUEUED", summary |-> None]]

PutSubmission(r) ==
    /\ posts[r] = "put"
    /\ Put(r)
    /\ posts' = [posts EXCEPT ![r] = "announce"]
    /\ UNCHANGED <<recorded, queues, worker, gateway, browser, dropped, mishaps>>

AnnounceRequest(r) ==
    /\ posts[r] = "announce"
    /\ requests' = [requests EXCEPT ![r] = @ + 1]
    /\ posts' = [posts EXCEPT ![r] = "answer"]
    /\ UNCHANGED <<table, announced, worker, gateway, browser, dropped, mishaps>>

\* The bus takes the event twice, or the publisher swallows its exception.
AnnounceRequestBadly(r) ==
    /\ Mishap
    /\ posts[r] = "announce"
    /\ \/ /\ requests' = [requests EXCEPT ![r] = @ + 2]
          /\ UNCHANGED dropped
       \/ /\ dropped' = dropped \cup {r}
          /\ UNCHANGED requests
    /\ posts' = [posts EXCEPT ![r] = "answer"]
    /\ UNCHANGED <<table, announced, worker, gateway, browser>>

\* What the page makes of an answer, if it is still there to receive it.
Answered(r, then) ==
    /\ posts' = [posts EXCEPT ![r] = "answered"]
    /\ awaiting' = awaiting \ {r}
    /\ page' = IF r \in awaiting THEN Follow(then) ELSE page

Accepted(r) ==
    /\ posts[r] = "answer"
    /\ Answered(r, [page EXCEPT !.runId = r, !.phase = "running", !.socket = {}])
    /\ UNCHANGED <<table, queues, worker, gateway, polls, dropped, mishaps>>

\* The submission cannot be recorded, or the answer does not arrive.  Or it
\* is recorded and never announced: the store raises with its effect, or the
\* invocation raises or stops before it reaches the bus.
SubmissionFails(r) ==
    /\ Mishap
    /\ \/ posts[r] \in {"put", "answer"} /\ UNCHANGED <<submissions, dropped>>
       \/ posts[r] = "put" /\ Put(r) /\ dropped' = dropped \cup {r}
       \/ posts[r] = "announce" /\ UNCHANGED submissions /\ dropped' = dropped \cup {r}
    /\ Answered(r, [page EXCEPT !.phase = "error"])
    /\ UNCHANGED <<recorded, queues, worker, gateway, polls>>

-----------------------------------------------------------------------------
(* The worker: receive, process, delete.                                   *)

Receive(r) ==
    /\ worker.stage = "receive"
    /\ requests[r] > 0
    /\ requests' = [requests EXCEPT ![r] = @ - 1]
    /\ worker' = At("mark", r, None)
    /\ UNCHANGED <<table, posts, announced, gateway, browser, dropped, mishaps>>

MarkRunning ==
    /\ worker.stage = "mark"
    /\ submissions' = [submissions EXCEPT ![worker.run].status = "RUNNING"]
    /\ worker' = [worker EXCEPT !.stage = "episode"]
    /\ UNCHANGED <<recorded, posts, queues, gateway, browser, dropped, mishaps>>

\* A failed episode has a verdict too.
RunEpisode ==
    /\ worker.stage = "episode"
    /\ \E v \in Verdicts : worker' = At("save", worker.run, v)
    /\ UNCHANGED <<table, posts, queues, gateway, browser, dropped, mishaps>>

Save ==
    /\ submissions' = [submissions EXCEPT
           ![worker.run] = [status |-> "ENDED", summary |-> worker.verdict]]
    /\ recorded' = recorded \cup {Told(worker.run, worker.verdict)}

\* Mistake: a summary that could not be stored is announced all the same.
SaveSummarySwallowing ==
    /\ worker.stage = "save"
    /\ Save \/ UNCHANGED table
    /\ worker' = [worker EXCEPT !.stage = "announce"]
    /\ UNCHANGED <<posts, queues, gateway, browser, dropped, mishaps>>

SaveSummary ==
    /\ worker.stage = "save"
    /\ Save
    /\ worker' = [worker EXCEPT !.stage = "announce"]
    /\ UNCHANGED <<posts, queues, gateway, browser, dropped, mishaps>>

AnnounceCompletion ==
    /\ worker.stage = "announce"
    /\ announced' = [announced EXCEPT ![Told(worker.run, worker.verdict)] = @ + 1]
    /\ worker' = [worker EXCEPT !.stage = "delete"]
    /\ UNCHANGED <<table, posts, requests, gateway, browser, dropped, mishaps>>

CompletionIsLost ==
    /\ Mishap
    /\ worker.stage = "announce"
    /\ worker' = [worker EXCEPT !.stage = "delete"]
    /\ UNCHANGED <<table, posts, queues, gateway, browser, dropped>>

\* The store raises, with or without effect: process() is left, the exception
\* is printed and the message deleted as if it had been processed.
StoreRaises ==
    /\ Mishap
    /\ \/ /\ worker.stage = "mark"
          /\ \/ submissions' = [submissions EXCEPT ![worker.run].status = "RUNNING"]
             \/ UNCHANGED submissions
          /\ UNCHANGED recorded
       \/ /\ worker.stage = "save"
          /\ Save \/ UNCHANGED table
    /\ dropped' = dropped \cup {worker.run}
    /\ worker' = At("delete", worker.run, None)
    /\ UNCHANGED <<posts, queues, gateway, browser>>

\* Mistake: the message is left to be received again.
LeaveRequest ==
    /\ worker.stage = "delete"
    /\ requests' = [requests EXCEPT ![worker.run] = @ + 1]
    /\ worker' = Ready
    /\ UNCHANGED <<table, posts, announced, gateway, browser, dropped, mishaps>>

DeleteRequest ==
    /\ worker.stage = "delete"
    /\ worker' = Ready
    /\ UNCHANGED <<table, posts, queues, gateway, browser, dropped, mishaps>>

\* Mistake: the message was deleted when it was received.
StopWorkerLosing ==
    /\ Mishap
    /\ worker.stage # "receive"
    /\ worker' = Ready
    /\ UNCHANGED <<table, posts, queues, gateway, browser, dropped>>

\* The worker stops and is started again, and the message it held is visible
\* again after its timeout.  The deletion itself may be what raises.
StopWorker ==
    /\ Mishap
    /\ worker.stage # "receive"
    /\ requests' = [requests EXCEPT ![worker.run] = @ + 1]
    /\ worker' = Ready
    /\ UNCHANGED <<table, posts, announced, gateway, browser, dropped>>

-----------------------------------------------------------------------------
(* The gateway: receive an event, send it to whoever watches, delete it.   *)

Quiet == [stage |-> "receive", event |-> None]

ReceiveEvent(event) ==
    /\ gateway.stage = "receive"
    /\ announced[event] > 0
    /\ announced' = [announced EXCEPT ![event] = @ - 1]
    /\ gateway' = [stage |-> "deliver", event |-> event]
    /\ UNCHANGED <<table, posts, requests, worker, browser, dropped, mishaps>>

InterestedIn(r) == page.mounted /\ r \in page.socket

\* The page puts what it is sent at the head of its feed, whatever its run.
Deliver ==
    /\ gateway.stage = "deliver"
    /\ page' = IF InterestedIn(gateway.event.run)
               THEN Follow([page EXCEPT !.latest = gateway.event])
               ELSE page
    /\ gateway' = [gateway EXCEPT !.stage = "delete"]
    /\ UNCHANGED <<table, posts, queues, worker, awaiting, polls, dropped, mishaps>>

DeleteEvent ==
    /\ gateway.stage = "delete"
    /\ gateway' = Quiet
    /\ UNCHANGED <<table, posts, queues, worker, browser, dropped, mishaps>>

\* A failing poll is tried again and a stopped gateway started again; what it
\* had not deleted is received a second time.
GatewayFails ==
    /\ Mishap
    /\ gateway.stage # "receive"
    /\ announced' = [announced EXCEPT ![gateway.event] = @ + 1]
    /\ gateway' = Quiet
    /\ UNCHANGED <<table, posts, requests, worker, browser, dropped>>

-----------------------------------------------------------------------------
Init ==
    /\ submissions = [r \in Runs |-> None]
    /\ posts = [r \in Runs |-> "unused"]
    /\ requests = [r \in Runs |-> 0]
    /\ worker = Ready
    /\ announced = [event \in RunVerdict |-> 0]
    /\ gateway = Quiet
    /\ page = [mounted |-> TRUE, phase |-> "idle", runId |-> None,
               shown |-> None, latest |-> None, socket |-> {}]
    /\ awaiting = {} /\ polls = {}
    /\ recorded = {} /\ dropped = {} /\ mishaps = 0

Answer(r) == Accepted(r) \/ SubmissionFails(r)
Post(r) == PutSubmission(r) \/ AnnounceRequest(r) \/ AnnounceRequestBadly(r) \/ Answer(r)

Work ==
    \/ \E r \in Runs : Receive(r)
    \/ MarkRunning \/ RunEpisode \/ SaveSummary
    \/ AnnounceCompletion \/ CompletionIsLost \/ StoreRaises
    \/ DeleteRequest \/ StopWorker

Forward ==
    \/ \E event \in RunVerdict : ReceiveEvent(event)
    \/ Deliver \/ DeleteEvent \/ GatewayFails

Watch ==
    \/ Connect \/ Poll
    \/ \E answer \in polls : PollAnswered(answer) \/ PollFails(answer)

User == (\E r \in Runs : Submit(r)) \/ Reset \/ SwitchAway \/ ComeBack

Next ==
    \/ \E r \in Runs : Post(r)
    \/ Work \/ Forward \/ Watch \/ SocketDrops \/ User

Spec == Init /\ [][Next]_vars

\* Requests are answered, the worker and the gateway loop for ever, and the
\* page keeps asking.  A user is obliged to nothing.
FairSpec ==
    /\ Spec
    /\ \A r \in Runs : WF_vars(Post(r))
    /\ WF_vars(Work) /\ WF_vars(Forward)
    /\ WF_vars(Connect) /\ WF_vars(Poll)
    /\ WF_vars(\E answer \in polls : PollAnswered(answer))

-----------------------------------------------------------------------------
\* The types of the variables, and that whatever is followed, processed or
\* asked about is a submission that was recorded.
TypeOK ==
    /\ submissions \in [Runs -> SubmissionRecord \cup {None}]
    /\ \A r \in Runs : Ended(r) => submissions[r].summary # None
    /\ posts \in [Runs -> {"unused", "put", "announce", "answer", "answered"}]
    /\ requests \in [Runs -> Nat]
    /\ announced \in [RunVerdict -> Nat]
    /\ worker.stage \in {"receive", "mark", "episode", "save", "announce", "delete"}
    /\ worker.stage # "receive" => worker.run \in Runs /\ submissions[worker.run] # None
    /\ worker.stage \in {"save", "announce"} => worker.verdict \in Verdicts
    /\ gateway.stage \in {"receive", "deliver", "delete"}
    /\ gateway.stage # "receive" => gateway.event \in RunVerdict
    /\ page \in Page
    /\ page.runId # None => submissions[page.runId] # None
    /\ page.phase = "running" => page.runId # None
    /\ page.phase = "done" => page.shown # None
    /\ awaiting \subseteq Runs /\ polls \subseteq RunVerdict
    /\ recorded \subseteq RunVerdict /\ dropped \subseteq Runs
    /\ mishaps \in 0..MaxMishaps

\* No verdict reaches a queue or a screen that the worker had not stored for
\* that run before, whatever is lost, repeated or restarted on the way.
ShownWasRecorded ==
    /\ \A event \in RunVerdict : announced[event] > 0 => event \in recorded
    /\ gateway.stage # "receive" => gateway.event \in recorded
    /\ polls \subseteq recorded
    /\ {page.shown, page.latest} \subseteq recorded \cup {None}

\* Every recorded submission ends, although the worker may stop anywhere and
\* messages may come twice.  Two things it does not survive: a POST that fails
\* between recording and announcing it, which leaves it QUEUED for ever though
\* the page was told of the error, and an exception that is swallowed, its
\* announcement's or the store's while it is processed.
EverySubmissionEnds ==
    \A r \in Runs : submissions[r] # None ~> Ended(r) \/ r \in dropped

\* A run that has ended is processed again only after something went wrong:
\* a worker that stopped, or a message that came twice.
ProcessedOnce ==
    [][\A r \in Runs : Ended(r) /\ ~Ended(r)' => mishaps > 0]_vars

\* The screen does not wait for ever on a run that has finished, although the
\* socket may drop, the event be lost, or arrive while nobody is connected,
\* unless the run was taken up a second time and that came to nothing.
FinishedRunIsShown ==
    \A r \in Runs :
        page.mounted /\ page.phase = "running" /\ page.runId = r /\ Ended(r)
            ~> \/ page.phase # "running" \/ page.runId # r \/ ~page.mounted
               \/ ~Ended(r) /\ r \in dropped

-----------------------------------------------------------------------------
(* Claims the page does not keep *)

\* LiveRun.tsx: the verdict shown is the one recorded for the run submitted.
ShownVerdictIsOfTheRun ==
    page.phase = "done" /\ page.runId # None => page.shown.run = page.runId

\* LiveRun.tsx: switching tabs does not lose a submission under way.
SubmissionEndsOnScreen ==
    page.mounted /\ page.phase = "submitting"
        ~> page.phase # "submitting" \/ ~page.mounted
=============================================================================
