-------------------------- MODULE RunDeliveryProofs --------------------------
(* Theorems about RunDelivery, for every value of its constants. *)
EXTENDS RunDelivery, TLAPS

-----------------------------------------------------------------------------
(* The inductive invariant. *)

\* The worker and the gateway are records of what they hold.
Holdings ==
    /\ worker = At(worker.stage, worker.run, worker.verdict)
    /\ gateway = [stage |-> gateway.stage, event |-> gateway.event]

\* What is announced, waits or is answered was recorded before, and what was
\* not posted was not recorded.
PostedFirst ==
    \A r \in Runs :
        /\ posts[r] \in {"announce", "answer"} => submissions[r] # None
        /\ requests[r] > 0 => submissions[r] # None
        /\ posts[r] \in {"unused", "put"} => submissions[r] = None

\* The summary in the table, and the one about to be announced, were stored.
StoredFirst ==
    /\ \A r \in Runs : Ended(r) => Told(r, submissions[r].summary) \in recorded
    /\ worker.stage = "announce" => Told(worker.run, worker.verdict) \in recorded

\* The worker has taken the run up and not yet ended it.
TakenUp(r) == worker.run = r /\ worker.stage \in {"mark", "episode", "save"}

\* While nothing went wrong a run is in one place: not announced, waiting,
\* taken up, or left alone for good.
InOnePlace(r) ==
    /\ posts[r] \in {"unused", "put", "announce"} =>
           requests[r] = 0 /\ ~TakenUp(r) /\ ~Ended(r)
    /\ requests[r] > 0 => requests[r] = 1 /\ ~TakenUp(r) /\ ~Ended(r)
    /\ TakenUp(r) => ~Ended(r)

OnePlace == mishaps = 0 => \A r \in Runs : InOnePlace(r)

IInv ==
    /\ TypeOK
    /\ Holdings
    /\ PostedFirst
    /\ StoredFirst
    /\ ShownWasRecorded
    /\ OnePlace

\* Nothing was posted yet.
LEMMA InitInvariant == Init => IInv
<1>. SUFFICES ASSUME Init PROVE IInv
  OBVIOUS
<1>1. TypeOK
  BY BoundsAssumption, NoneAssumption DEF Init, TypeOK, Ready, At, Quiet, Page, Ended
<1>2. Holdings /\ PostedFirst /\ StoredFirst /\ ShownWasRecorded /\ OnePlace
  BY DEF Init, Holdings, PostedFirst, StoredFirst, ShownWasRecorded, OnePlace, InOnePlace,
         TakenUp, Ready, At, Quiet, Ended
<1>. QED
  BY <1>1, <1>2 DEF IInv

\* The rest of the system, as a step of the page's leaves it.
Backstage == <<table, queues, worker, gateway, dropped>>

PageOK ==
    /\ page \in Page
    /\ page.runId # None => submissions[page.runId] # None
    /\ page.phase = "running" => page.runId # None
    /\ page.phase = "done" => page.shown # None
    /\ awaiting \subseteq Runs
    /\ polls \subseteq recorded
    /\ {page.shown, page.latest} \subseteq recorded \cup {None}

\* A submission is posted or its post answered.
PostMoves ==
    \A r \in Runs :
        \/ posts'[r] = posts[r]
        \/ posts[r] = "unused" /\ posts'[r] = "put"
        \/ posts[r] \in {"put", "answer"} /\ posts'[r] = "answered"

\* A step of the page that leaves the rest alone.
LEMMA PageStep ==
    ASSUME IInv, UNCHANGED Backstage, PageOK',
           posts' \in [Runs -> {"unused", "put", "announce", "answer", "answered"}], PostMoves,
           mishaps' \in 0..MaxMishaps, mishaps' = 0 => mishaps = 0
    PROVE  IInv'
<1>1. TypeOK'
  BY DEF IInv, TypeOK, Backstage, PageOK, table, queues, Ended
<1>2. Holdings' /\ StoredFirst' /\ ShownWasRecorded'
  BY DEF IInv, TypeOK, Holdings, StoredFirst, ShownWasRecorded, Backstage, PageOK, table, queues, Ended
<1>3. PostedFirst'
  BY DEF IInv, PostedFirst, PostMoves, Backstage, table, queues
<1>4. OnePlace'
  BY DEF IInv, OnePlace, InOnePlace, TakenUp, PostMoves, Backstage, table, queues, Ended
<1>. QED
  BY <1>1, <1>2, <1>3, <1>4 DEF IInv

\* The page a callback leaves is one the effects leave as well.
LEMMA FollowKeepsPage ==
    ASSUME NEW p \in Page, p.phase = "running" => p.runId # None
    PROVE  /\ Follow(p) \in Page
           /\ Follow(p).runId = p.runId
           /\ Follow(p).latest = p.latest
           /\ Follow(p).shown \in {p.shown, p.latest}
           /\ Follow(p).phase = "running" => p.phase = "running"
           /\ Follow(p).phase = "done" => Follow(p).shown # None \/ p.phase = "done"
BY DEF Follow, Page, Busy

\* The page posts a run.
LEMMA SubmitInvariant == ASSUME IInv, NEW r \in Runs, Submit(r) PROVE IInv'
<1>1. PageOK'
  BY DEF Submit, IInv, TypeOK, ShownWasRecorded, PageOK, Page, Busy, table
<1>2. posts' \in [Runs -> {"unused", "put", "announce", "answer", "answered"}] /\ PostMoves
  BY DEF Submit, PostMoves, IInv, TypeOK
<1>3. UNCHANGED Backstage /\ mishaps' = mishaps
  BY DEF Submit, Backstage
<1>. QED
  BY <1>1, <1>2, <1>3, PageStep DEF IInv, TypeOK

\* The handler answers the page.
LEMMA AcceptedInvariant == ASSUME IInv, NEW r \in Runs, Accepted(r) PROVE IInv'
<1>1. UNCHANGED Backstage /\ UNCHANGED <<polls, mishaps>>
  BY DEF Accepted, Backstage
<1>2. mishaps' \in 0..MaxMishaps
  BY <1>1 DEF IInv, TypeOK
<1>3. posts' \in [Runs -> {"unused", "put", "announce", "answer", "answered"}] /\ PostMoves
  BY DEF Accepted, Answered, PostMoves, IInv, TypeOK
<1>4. PageOK'
  <2>1. awaiting' \subseteq Runs /\ polls' \subseteq recorded'
    BY <1>1 DEF Accepted, Answered, IInv, TypeOK, ShownWasRecorded, Backstage, table
  <2>2. CASE page' = page
    BY <1>1, <2>1, <2>2 DEF PageOK, IInv, TypeOK, ShownWasRecorded, Backstage, table
  <2>3. CASE /\ posts[r] = "answer"
             /\ page' = Follow([page EXCEPT !.runId = r, !.phase = "running", !.socket = {}])
    <3>. DEFINE p == [page EXCEPT !.runId = r, !.phase = "running", !.socket = {}]
    <3>1. p \in Page /\ p.runId = r /\ p.shown = page.shown /\ p.latest = page.latest
      BY DEF IInv, TypeOK, Page, Busy
    <3>2. submissions[r] # None
      BY <2>3 DEF IInv, PostedFirst
    <3>. HIDE DEF p
    <3>3. p.phase = "running" /\ r # None
      BY NoneAssumption DEF p, IInv, TypeOK, Page
    <3>4. page' = Follow(p)
      BY <2>3 DEF p
    <3>5. /\ Follow(p) \in Page /\ Follow(p).runId = r /\ Follow(p).latest = page.latest
          /\ Follow(p).shown \in {page.shown, page.latest}
          /\ Follow(p).phase = "done" => Follow(p).shown # None
      BY <3>1, <3>3, FollowKeepsPage
    <3>. QED
      BY <1>1, <2>1, <3>2, <3>3, <3>4, <3>5
      DEF PageOK, IInv, ShownWasRecorded, Backstage, table
  <2>. QED
    BY <2>2, <2>3 DEF Accepted, Answered
<1>. QED
  BY <1>1, <1>2, <1>3, <1>4, PageStep

\* What only the page and the answers to its questions take part in.
LEMMA WatchInvariant ==
    ASSUME IInv, \/ Reset \/ Connect \/ Poll \/ SocketDrops \/ SwitchAway \/ ComeBack
                 \/ \E answer \in polls : PollAnswered(answer) \/ PollFails(answer)
    PROVE  IInv'
<1>1. UNCHANGED Backstage /\ UNCHANGED posts
  <2>1. CASE Reset \/ Connect \/ Poll \/ SocketDrops \/ SwitchAway \/ ComeBack
    BY <2>1 DEF Reset, Connect, Poll, SocketDrops, SwitchAway, ComeBack, Backstage
  <2>2. ASSUME NEW answer \in polls, PollAnswered(answer) \/ PollFails(answer)
        PROVE  UNCHANGED Backstage /\ UNCHANGED posts
    BY <2>2 DEF PollAnswered, PollFails, Backstage
  <2>. QED
    BY <2>1, <2>2
<1>2. mishaps' \in 0..MaxMishaps /\ (mishaps' = 0 => mishaps = 0)
  <2>1. mishaps \in 0..MaxMishaps
    BY DEF IInv, TypeOK
  <2>2. mishaps' = mishaps \/ Mishap
    BY DEF Reset, Connect, Poll, SocketDrops, SwitchAway, ComeBack, PollAnswered, PollFails
  <2>. QED
    BY <2>1, <2>2, BoundsAssumption DEF Mishap
<1>3. PageOK
  BY DEF PageOK, IInv, TypeOK, ShownWasRecorded
<1>4. PageOK'
  <2>1. CASE Reset
    BY <1>1, <1>3, <2>1 DEF Reset, PageOK, Page, Busy, Backstage, table
  <2>2. CASE Connect
    BY <1>1, <1>3, <2>2 DEF Connect, PageOK, Page, Busy, Backstage, table
  <2>3. CASE Poll
    <3>1. page.runId \in Runs
      BY <2>3 DEF Poll, IInv, TypeOK, Page
    <3>2. Told(page.runId, submissions[page.runId].summary) \in recorded
      BY <2>3, <3>1 DEF Poll, IInv, StoredFirst
    <3>. QED
      BY <1>1, <1>3, <2>3, <3>2 DEF Poll, PageOK, Backstage, table
  <2>4. CASE SocketDrops
    BY <1>1, <1>3, <2>4 DEF SocketDrops, PageOK, Page, Busy, Backstage, table
  <2>5. CASE SwitchAway
    BY <1>1, <1>3, <2>5 DEF SwitchAway, PageOK, Page, Busy, Backstage, table
  <2>6. CASE ComeBack
    BY <1>1, <1>3, <2>6 DEF ComeBack, PageOK, Page, Busy, Backstage, table
  <2>7. ASSUME NEW answer \in polls, PollAnswered(answer) PROVE PageOK'
    <3>1. answer \in recorded /\ answer \in RunVerdict /\ answer # None
      BY NoneAssumption DEF IInv, TypeOK, ShownWasRecorded
    <3>. QED
      BY <1>1, <1>3, <2>7, <3>1 DEF PollAnswered, PageOK, Page, Busy, Backstage, table
  <2>8. ASSUME NEW answer \in polls, PollFails(answer) PROVE PageOK'
    BY <1>1, <1>3, <2>8 DEF PollFails, PageOK, Backstage, table
  <2>. QED
    BY <2>1, <2>2, <2>3, <2>4, <2>5, <2>6, <2>7, <2>8
<1>. QED
  BY <1>1, <1>2, <1>4, PageStep DEF PostMoves, IInv, TypeOK

\* The gateway's event, which was recorded, reaches the page.
LEMMA DeliverInvariant == ASSUME IInv, Deliver PROVE IInv'
<1>. DEFINE event == gateway.event
            p == [page EXCEPT !.latest = event]
<1>1. event \in RunVerdict /\ event \in recorded /\ event # None
  BY NoneAssumption DEF Deliver, IInv, TypeOK, ShownWasRecorded
<1>2. /\ p \in Page /\ p.runId = page.runId /\ p.shown = page.shown /\ p.latest = event
      /\ p.phase = page.phase
  BY <1>1 DEF IInv, TypeOK, Page
<1>3. page' = page \/ page' = Follow(p)
  BY DEF Deliver
<1>. HIDE DEF p
<1>4. PageOK
  BY DEF PageOK, IInv, TypeOK, ShownWasRecorded
<1>5. PageOK'
  <2>1. CASE page' = page
    BY <1>4, <2>1 DEF PageOK, Deliver, table
  <2>2. CASE page' = Follow(p)
    <3>1. /\ Follow(p) \in Page /\ Follow(p).runId = page.runId /\ Follow(p).latest = event
          /\ Follow(p).shown \in {page.shown, event}
          /\ Follow(p).phase = "running" => page.phase = "running"
          /\ Follow(p).phase = "done" => Follow(p).shown # None \/ page.phase = "done"
      BY <1>2, <1>4, FollowKeepsPage DEF PageOK
    <3>. QED
      BY <1>1, <1>4, <2>2, <3>1 DEF PageOK, Deliver, table
  <2>. QED
    BY <1>3, <2>1, <2>2
<1>6. Holdings' /\ PostedFirst' /\ StoredFirst' /\ OnePlace'
  BY DEF Deliver, IInv, Holdings, PostedFirst, StoredFirst, OnePlace, InOnePlace, TakenUp,
         table, queues, Ended
<1>7. TypeOK' /\ ShownWasRecorded'
  BY <1>1, <1>5 DEF Deliver, IInv, Holdings, TypeOK, ShownWasRecorded, PageOK, table, queues, Ended
<1>. QED
  BY <1>6, <1>7 DEF IInv

-----------------------------------------------------------------------------
(* The services.  None of their steps moves the page. *)

\* What the page shows and follows stays true while the table only grows.
LEMMA PageUndisturbed ==
    ASSUME IInv, UNCHANGED browser, recorded \subseteq recorded',
           \A r \in Runs : submissions[r] # None => submissions'[r] # None
    PROVE  PageOK'
BY DEF IInv, TypeOK, ShownWasRecorded, PageOK, Page, browser

\* The handler records the submission before it announces it.
LEMMA PutSubmissionInvariant == ASSUME IInv, NEW r \in Runs, PutSubmission(r) PROVE IInv'
<1>. DEFINE new == [status |-> "QUEUED", summary |-> None]
<1>1. new \in SubmissionRecord /\ new # None
  BY NoneAssumption DEF SubmissionRecord, RunStatus
<1>2. /\ submissions' = [submissions EXCEPT ![r] = new]
      /\ posts' = [posts EXCEPT ![r] = "announce"]
      /\ posts[r] = "put" /\ submissions[r] = None
      /\ UNCHANGED <<recorded, queues, worker, gateway, browser, dropped, mishaps>>
  BY DEF PutSubmission, Put, IInv, PostedFirst
<1>. HIDE DEF new
<1>3. PageOK'
  BY <1>1, <1>2, PageUndisturbed DEF IInv, TypeOK
<1>4. ~Ended(r)' /\ \A q \in Runs \ {r} : Ended(q)' = Ended(q) /\ submissions'[q] = submissions[q]
  BY <1>1, <1>2 DEF IInv, TypeOK, Ended, new
<1>5. TypeOK'
  BY <1>1, <1>2, <1>3, <1>4 DEF IInv, TypeOK, PageOK, browser, queues
<1>6. Holdings' /\ PostedFirst' /\ StoredFirst' /\ ShownWasRecorded' /\ OnePlace'
  BY <1>1, <1>2, <1>3, <1>4 DEF IInv, TypeOK, Holdings, PostedFirst, StoredFirst, ShownWasRecorded,
     OnePlace, InOnePlace, TakenUp, PageOK, browser, queues
<1>. QED
  BY <1>5, <1>6 DEF IInv

\* What no summary is stored by leaves the table, and the page, alone.
LEMMA TableUndisturbed ==
    ASSUME IInv, UNCHANGED <<table, browser>>
    PROVE  PageOK' /\ \A q \in Runs : Ended(q)' = Ended(q)
<1>1. PageOK'
  BY PageUndisturbed DEF table
<1>. QED
  BY <1>1 DEF table, Ended

\* The announcement puts one request into the queue.
LEMMA AnnounceRequestInvariant == ASSUME IInv, NEW r \in Runs, AnnounceRequest(r) PROVE IInv'
<1>1. UNCHANGED <<table, browser>> /\ submissions[r] # None
  BY DEF AnnounceRequest, IInv, PostedFirst
<1>2. PageOK' /\ \A q \in Runs : Ended(q)' = Ended(q)
  BY <1>1, TableUndisturbed
<1>3. TypeOK'
  BY <1>1, <1>2 DEF AnnounceRequest, IInv, TypeOK, PageOK, table, browser, queues
<1>4. Holdings' /\ PostedFirst' /\ StoredFirst' /\ ShownWasRecorded'
  BY <1>1, <1>2 DEF AnnounceRequest, IInv, TypeOK, Holdings, PostedFirst, StoredFirst,
     ShownWasRecorded, table, browser, queues
<1>5. OnePlace'
  BY <1>1, <1>2 DEF AnnounceRequest, IInv, TypeOK, OnePlace, InOnePlace, TakenUp
<1>. QED
  BY <1>3, <1>4, <1>5 DEF IInv

\* Once something went wrong a run may be in two places.
LEMMA MishapExcuses == ASSUME IInv, Mishap PROVE OnePlace' /\ mishaps' \in 0..MaxMishaps
<1>1. mishaps' \in 0..MaxMishaps /\ mishaps' # 0
  BY BoundsAssumption DEF IInv, TypeOK, Mishap
<1>. QED
  BY <1>1 DEF OnePlace

\* A POST that fails may have recorded its submission, and leaves the rest as
\* it is but for the page, which is told.
LEMMA SubmissionFailsInvariant ==
    ASSUME IInv, NEW r \in Runs, SubmissionFails(r) PROVE IInv'
<1>. DEFINE new == [status |-> "QUEUED", summary |-> None]
<1>1. new \in SubmissionRecord /\ new # None
  BY NoneAssumption DEF SubmissionRecord, RunStatus
<1>2. /\ OnePlace' /\ mishaps' \in 0..MaxMishaps
      /\ dropped' \subseteq Runs
      /\ posts[r] \in {"put", "announce", "answer"}
      /\ posts' = [posts EXCEPT ![r] = "answered"]
      /\ UNCHANGED <<recorded, queues, worker, gateway, polls>>
  BY MishapExcuses DEF SubmissionFails, Answered, IInv, TypeOK
<1>3. \/ UNCHANGED submissions
      \/ /\ submissions' = [submissions EXCEPT ![r] = new]
         /\ posts[r] = "put" /\ submissions[r] = None
  BY DEF SubmissionFails, Put, IInv, PostedFirst
<1>. HIDE DEF new
<1>4. /\ submissions' \in [Runs -> SubmissionRecord \cup {None}]
      /\ \A q \in Runs : submissions[q] # None => submissions'[q] # None
      /\ \A q \in Runs : q # r => submissions'[q] = submissions[q]
      /\ \A q \in Runs : submissions'[q] = submissions[q] \/ submissions'[q] = new
  BY <1>1, <1>3 DEF IInv, TypeOK
<1>5. \A q \in Runs : Ended(q)' => Ended(q) /\ submissions'[q] = submissions[q]
  BY <1>1, <1>4 DEF Ended, new
<1>6. PageOK'
  <2>1. awaiting' \subseteq Runs /\ polls' \subseteq recorded'
    BY <1>2 DEF SubmissionFails, Answered, IInv, TypeOK, ShownWasRecorded
  <2>2. CASE page' = page
    BY <1>2, <1>4, <2>1, <2>2 DEF PageOK, IInv, TypeOK, ShownWasRecorded, Page
  <2>3. CASE page' = Follow([page EXCEPT !.phase = "error"])
    <3>. DEFINE p == [page EXCEPT !.phase = "error"]
    <3>1. /\ p \in Page /\ p.runId = page.runId /\ p.shown = page.shown
          /\ p.latest = page.latest /\ p.phase = "error"
      BY DEF IInv, TypeOK, Page, Busy
    <3>2. page' = p
      BY <2>3, <3>1 DEF Follow
    <3>. HIDE DEF p
    <3>. QED
      BY <1>2, <1>4, <2>1, <3>1, <3>2 DEF PageOK, IInv, TypeOK, ShownWasRecorded, Page
  <2>. QED
    BY <2>2, <2>3 DEF SubmissionFails, Answered
<1>7. TypeOK'
  BY <1>2, <1>4, <1>5, <1>6 DEF IInv, TypeOK, PageOK, ShownWasRecorded, queues
<1>8. Holdings' /\ StoredFirst' /\ ShownWasRecorded'
  BY <1>2, <1>5, <1>6 DEF IInv, TypeOK, Holdings, StoredFirst, ShownWasRecorded, PageOK, queues
<1>9. PostedFirst'
  BY <1>2, <1>4 DEF IInv, TypeOK, PostedFirst, queues
<1>. QED
  BY <1>2, <1>7, <1>8, <1>9 DEF IInv

\* One that is lost, or sent twice, is a mishap.
LEMMA AnnounceRequestBadlyInvariant ==
    ASSUME IInv, NEW r \in Runs, AnnounceRequestBadly(r) PROVE IInv'
<1>1. UNCHANGED <<table, browser>> /\ submissions[r] # None
  BY DEF AnnounceRequestBadly, IInv, PostedFirst
<1>2. PageOK' /\ \A q \in Runs : Ended(q)' = Ended(q)
  BY <1>1, TableUndisturbed
<1>3. OnePlace' /\ mishaps' \in 0..MaxMishaps
  BY MishapExcuses DEF AnnounceRequestBadly
<1>4. TypeOK'
  BY <1>1, <1>2, <1>3 DEF AnnounceRequestBadly, IInv, TypeOK, PageOK, table, browser
<1>5. Holdings' /\ PostedFirst' /\ StoredFirst' /\ ShownWasRecorded'
  BY <1>1, <1>2 DEF AnnounceRequestBadly, IInv, TypeOK, Holdings, PostedFirst, StoredFirst,
     ShownWasRecorded, table, browser
<1>. QED
  BY <1>3, <1>4, <1>5 DEF IInv

\* The worker takes a run up only from a request.
LEMMA ReceiveInvariant == ASSUME IInv, NEW r \in Runs, Receive(r) PROVE IInv'
<1>1. /\ UNCHANGED <<table, browser, posts, announced, gateway, dropped, mishaps>>
      /\ worker' = At("mark", r, None)
      /\ requests' = [requests EXCEPT ![r] = @ - 1]
      /\ requests[r] > 0 /\ requests[r] \in Nat /\ submissions[r] # None
  BY DEF Receive, IInv, TypeOK, PostedFirst
<1>2. PageOK' /\ \A q \in Runs : Ended(q)' = Ended(q)
  BY <1>1, TableUndisturbed
<1>3. /\ worker'.stage = "mark" /\ worker'.run = r
      /\ worker' = At(worker'.stage, worker'.run, worker'.verdict)
  BY <1>1 DEF At
<1>4. requests' \in [Runs -> Nat] /\ \A q \in Runs : requests'[q] > 0 => requests[q] > 0
  BY <1>1 DEF IInv, TypeOK
<1>5. TypeOK'
  BY <1>1, <1>2, <1>3, <1>4 DEF IInv, TypeOK, PageOK, table, browser
<1>6. Holdings' /\ PostedFirst' /\ StoredFirst' /\ ShownWasRecorded'
  BY <1>1, <1>2, <1>3, <1>4 DEF IInv, Holdings, PostedFirst, StoredFirst,
     ShownWasRecorded, table, browser
<1>7. OnePlace'
  <2>. SUFFICES ASSUME mishaps = 0, NEW q \in Runs PROVE InOnePlace(q)'
    BY <1>1 DEF OnePlace
  <2>1. InOnePlace(q) /\ InOnePlace(r)
    BY DEF IInv, OnePlace
  <2>2. CASE q = r
    BY <1>1, <1>2, <1>3, <2>1, <2>2 DEF InOnePlace, TakenUp, IInv, TypeOK
  <2>3. CASE q # r
    BY <1>1, <1>2, <1>3, <2>1, <2>3 DEF InOnePlace, TakenUp, IInv, TypeOK
  <2>. QED
    BY <2>2, <2>3
<1>. QED
  BY <1>5, <1>6, <1>7 DEF IInv

\* A step of the worker's own: it keeps the run or puts it down.
LEMMA WorkerMoves ==
    ASSUME IInv, worker.stage # "receive",
           UNCHANGED <<table, browser, posts, requests, announced, gateway, dropped>>,
           worker' = At(worker'.stage, worker'.run, worker'.verdict),
           worker'.stage \in {"receive", "mark", "episode", "save", "announce", "delete"},
           worker'.stage # "receive" => worker'.run = worker.run,
           worker'.stage \in {"save", "announce"} => worker'.verdict \in Verdicts,
           worker'.stage \in {"mark", "episode", "save"} =>
               worker.stage \in {"mark", "episode", "save"},
           worker'.stage = "announce" => Told(worker'.run, worker'.verdict) \in recorded,
           mishaps' \in 0..MaxMishaps, mishaps' = 0 => mishaps = 0
    PROVE  IInv'
<1>1. PageOK' /\ \A q \in Runs : Ended(q)' = Ended(q)
  BY TableUndisturbed
<1>2. TypeOK'
  BY <1>1 DEF IInv, TypeOK, PageOK, table, browser
<1>3. Holdings' /\ PostedFirst' /\ StoredFirst' /\ ShownWasRecorded'
  BY <1>1 DEF IInv, Holdings, PostedFirst, StoredFirst, ShownWasRecorded, table, browser
<1>4. OnePlace'
  BY <1>1 DEF IInv, OnePlace, InOnePlace, TakenUp
<1>. QED
  BY <1>2, <1>3, <1>4 DEF IInv

\* Steps of the worker that neither store nor announce.
LEMMA QuietWorkInvariant ==
    ASSUME IInv, RunEpisode \/ CompletionIsLost \/ DeleteRequest
    PROVE  IInv'
<1>1. CASE RunEpisode
  <2>1. PICK v \in Verdicts : worker' = At("save", worker.run, v)
    BY <1>1 DEF RunEpisode
  <2>2. /\ worker'.stage = "save" /\ worker'.run = worker.run /\ worker'.verdict = v
        /\ worker' = At(worker'.stage, worker'.run, worker'.verdict)
    BY <2>1 DEF At
  <2>3. mishaps' = mishaps /\ mishaps \in 0..MaxMishaps
    BY <1>1 DEF RunEpisode, IInv, TypeOK
  <2>. QED
    BY <1>1, <2>2, <2>3, WorkerMoves DEF RunEpisode, queues
<1>2. CASE CompletionIsLost
  <2>1. worker = At(worker.stage, worker.run, worker.verdict)
    BY DEF IInv, Holdings
  <2>2. worker' = At("delete", worker.run, worker.verdict)
    BY <1>2, <2>1 DEF CompletionIsLost, At
  <2>3. /\ worker'.stage = "delete" /\ worker'.run = worker.run
        /\ worker' = At(worker'.stage, worker'.run, worker'.verdict)
    BY <2>2 DEF At
  <2>4. mishaps' \in 0..MaxMishaps /\ (mishaps' = 0 => mishaps = 0)
    BY <1>2, BoundsAssumption DEF CompletionIsLost, Mishap, IInv, TypeOK
  <2>. QED
    BY <1>2, <2>3, <2>4, WorkerMoves DEF CompletionIsLost, queues
<1>3. CASE DeleteRequest
  <2>1. worker'.stage = "receive" /\ worker' = At(worker'.stage, worker'.run, worker'.verdict)
    BY <1>3 DEF DeleteRequest, Ready, At
  <2>2. mishaps' = mishaps /\ mishaps \in 0..MaxMishaps
    BY <1>3 DEF DeleteRequest, IInv, TypeOK
  <2>. QED
    BY <1>3, <2>1, <2>2, WorkerMoves DEF DeleteRequest, queues
<1>. QED
  BY <1>1, <1>2, <1>3

\* The worker announces what it has stored.
LEMMA AnnounceCompletionInvariant == ASSUME IInv, AnnounceCompletion PROVE IInv'
<1>. DEFINE event == Told(worker.run, worker.verdict)
<1>1. event \in RunVerdict /\ event \in recorded
  BY DEF AnnounceCompletion, IInv, TypeOK, StoredFirst, Told, RunVerdict
<1>2. worker' = At("delete", worker.run, worker.verdict)
  BY DEF AnnounceCompletion, IInv, Holdings, At
<1>3. /\ worker'.stage = "delete" /\ worker'.run = worker.run
      /\ worker' = At(worker'.stage, worker'.run, worker'.verdict)
  BY <1>2 DEF At
<1>4. /\ announced' = [announced EXCEPT ![event] = @ + 1]
      /\ UNCHANGED <<table, browser, posts, requests, gateway, dropped, mishaps>>
  BY DEF AnnounceCompletion
<1>. HIDE DEF event
<1>5. PageOK' /\ \A q \in Runs : Ended(q)' = Ended(q)
  BY <1>4, TableUndisturbed
<1>6. TypeOK'
  BY <1>1, <1>3, <1>4, <1>5 DEF AnnounceCompletion, IInv, TypeOK, PageOK, table, browser
<1>7. ShownWasRecorded'
  BY <1>1, <1>4 DEF IInv, TypeOK, ShownWasRecorded, table, browser
<1>8. Holdings' /\ PostedFirst' /\ StoredFirst' /\ OnePlace'
  BY <1>3, <1>4, <1>5 DEF IInv, Holdings, PostedFirst, StoredFirst, OnePlace, InOnePlace, TakenUp,
     table, browser
<1>. QED
  BY <1>6, <1>7, <1>8 DEF IInv

\* A worker that stops hands its request back to the queue.
LEMMA StopWorkerInvariant == ASSUME IInv, StopWorker PROVE IInv'
<1>1. /\ UNCHANGED <<table, browser, posts, announced, gateway, dropped>>
      /\ worker.run \in Runs /\ submissions[worker.run] # None
      /\ requests' = [requests EXCEPT ![worker.run] = @ + 1]
  BY DEF StopWorker, IInv, TypeOK
<1>2. worker'.stage = "receive" /\ worker' = At(worker'.stage, worker'.run, worker'.verdict)
  BY DEF StopWorker, Ready, At
<1>3. PageOK' /\ \A q \in Runs : Ended(q)' = Ended(q)
  BY <1>1, TableUndisturbed
<1>4. OnePlace' /\ mishaps' \in 0..MaxMishaps
  BY MishapExcuses DEF StopWorker
<1>5. TypeOK'
  BY <1>1, <1>2, <1>3, <1>4 DEF IInv, TypeOK, PageOK, table, browser
<1>6. Holdings' /\ PostedFirst' /\ StoredFirst' /\ ShownWasRecorded'
  BY <1>1, <1>2, <1>3 DEF IInv, TypeOK, Holdings, PostedFirst, StoredFirst, ShownWasRecorded,
     table, browser
<1>. QED
  BY <1>4, <1>5, <1>6 DEF IInv

GatewayOK ==
    /\ gateway = [stage |-> gateway.stage, event |-> gateway.event]
    /\ gateway.stage \in {"receive", "deliver", "delete"}
    /\ gateway.stage # "receive" => gateway.event \in RunVerdict /\ gateway.event \in recorded
    /\ announced \in [RunVerdict -> Nat]
    /\ \A event \in RunVerdict : announced[event] > 0 => event \in recorded

\* The gateway takes an event, puts it down, or puts it back.
LEMMA GatewayInvariant ==
    ASSUME IInv, \/ DeleteEvent \/ GatewayFails
                 \/ \E event \in RunVerdict : ReceiveEvent(event)
    PROVE  IInv'
<1>1. UNCHANGED <<table, browser, posts, requests, worker, dropped>>
  BY DEF DeleteEvent, GatewayFails, ReceiveEvent, queues
<1>2. PageOK' /\ \A q \in Runs : Ended(q)' = Ended(q)
  BY <1>1, TableUndisturbed
<1>3. mishaps' \in 0..MaxMishaps /\ (mishaps' = 0 => mishaps = 0)
  <2>1. mishaps \in 0..MaxMishaps
    BY DEF IInv, TypeOK
  <2>2. mishaps' = mishaps \/ Mishap
    BY DEF DeleteEvent, GatewayFails, ReceiveEvent
  <2>. QED
    BY <2>1, <2>2, BoundsAssumption DEF Mishap
<1>4. PostedFirst' /\ StoredFirst' /\ OnePlace'
  BY <1>1, <1>2, <1>3 DEF IInv, PostedFirst, StoredFirst, OnePlace, InOnePlace, TakenUp, table
<1>5. GatewayOK'
  <2>1. GatewayOK /\ UNCHANGED recorded
    BY <1>1 DEF GatewayOK, IInv, TypeOK, Holdings, ShownWasRecorded, table
  <2>2. CASE DeleteEvent
    BY <2>1, <2>2 DEF DeleteEvent, Quiet, queues, GatewayOK
  <2>3. CASE GatewayFails
    BY <2>1, <2>3 DEF GatewayFails, Quiet, GatewayOK
  <2>4. ASSUME NEW event \in RunVerdict, ReceiveEvent(event) PROVE GatewayOK'
    BY <2>1, <2>4 DEF ReceiveEvent, GatewayOK
  <2>. QED
    BY <2>2, <2>3, <2>4
<1>6. TypeOK'
  BY <1>1, <1>2, <1>3, <1>5 DEF IInv, TypeOK, GatewayOK, PageOK, table, browser
<1>7. Holdings' /\ ShownWasRecorded'
  BY <1>1, <1>5 DEF GatewayOK, IInv, Holdings, ShownWasRecorded, table, browser
<1>. QED
  BY <1>4, <1>6, <1>7 DEF IInv

\* The run the worker marks is one it holds, and ended only if something went
\* wrong before.
LEMMA MarkRunningInvariant == ASSUME IInv, MarkRunning PROVE IInv'
<1>1. PICK r \in Runs :
          /\ worker.run = r /\ TakenUp(r)
          /\ submissions[r] \in SubmissionRecord /\ submissions[r] # None
  BY DEF MarkRunning, IInv, TypeOK, TakenUp
<1>2. /\ submissions' = [submissions EXCEPT ![r].status = "RUNNING"]
      /\ worker' = At("episode", r, worker.verdict)
      /\ UNCHANGED <<recorded, posts, requests, announced, gateway, browser, dropped, mishaps>>
  BY <1>1 DEF MarkRunning, IInv, Holdings, At, queues
<1>3. /\ worker'.stage = "episode" /\ worker'.run = r
      /\ worker' = At(worker'.stage, worker'.run, worker'.verdict)
  BY <1>2 DEF At
<1>4. /\ submissions'[r] \in SubmissionRecord /\ submissions'[r] # None /\ ~Ended(r)'
      /\ \A q \in Runs \ {r} : Ended(q)' = Ended(q) /\ submissions'[q] = submissions[q]
  BY <1>1, <1>2, NoneAssumption DEF SubmissionRecord, RunStatus, IInv, TypeOK, Ended
<1>5. submissions' \in [Runs -> SubmissionRecord \cup {None}]
  BY <1>1, <1>2, <1>4 DEF IInv, TypeOK
<1>6. PageOK'
  BY <1>2, <1>4, PageUndisturbed
<1>7. TypeOK'
  BY <1>1, <1>2, <1>3, <1>4, <1>5, <1>6 DEF IInv, TypeOK, PageOK, browser
<1>8. Holdings' /\ PostedFirst' /\ StoredFirst' /\ ShownWasRecorded'
  BY <1>1, <1>2, <1>3, <1>4 DEF IInv, TypeOK, Holdings, PostedFirst, StoredFirst, ShownWasRecorded,
     browser
<1>9. OnePlace'
  BY <1>1, <1>2, <1>3, <1>4 DEF IInv, OnePlace, InOnePlace, TakenUp
<1>. QED
  BY <1>7, <1>8, <1>9 DEF IInv

\* What storing the summary of the run held makes of the table.
LEMMA SaveEnds ==
    ASSUME IInv, worker.stage = "save", Save, NEW r \in Runs, worker.run = r
    PROVE  /\ Told(r, worker.verdict) \in recorded'
           /\ recorded \subseteq recorded' /\ recorded' \subseteq RunVerdict
           /\ submissions' \in [Runs -> SubmissionRecord \cup {None}]
           /\ \A q \in Runs : Ended(q)' => submissions'[q].summary # None
           /\ \A q \in Runs : Ended(q)' => Told(q, submissions'[q].summary) \in recorded'
           /\ Ended(r)'
           /\ \A q \in Runs \ {r} : Ended(q)' = Ended(q)
           /\ \A q \in Runs \ {r} : submissions'[q] = submissions[q]
           /\ submissions'[r] # None
<1>. DEFINE new == [status |-> "ENDED", summary |-> worker.verdict]
<1>1. worker.verdict \in Verdicts /\ worker.verdict # None
  BY NoneAssumption DEF IInv, TypeOK
<1>2. new \in SubmissionRecord /\ new # None /\ new.summary = worker.verdict /\ new.status = "ENDED"
  BY <1>1, NoneAssumption DEF SubmissionRecord, RunStatus
<1>3. Told(r, worker.verdict) \in RunVerdict
  BY <1>1 DEF Told, RunVerdict
<1>4. /\ submissions' = [submissions EXCEPT ![r] = new]
      /\ recorded' = recorded \cup {Told(r, worker.verdict)}
  BY DEF Save
<1>. HIDE DEF new
<1>5. submissions'[r] = new /\ \A q \in Runs \ {r} : submissions'[q] = submissions[q]
  BY <1>1, <1>4 DEF IInv, TypeOK
<1>6. Ended(r)' /\ \A q \in Runs \ {r} : Ended(q)' = Ended(q)
  BY <1>2, <1>5 DEF Ended
<1>7. submissions' \in [Runs -> SubmissionRecord \cup {None}]
  BY <1>1, <1>2, <1>4 DEF IInv, TypeOK
<1>8. \A q \in Runs : Ended(q)' => /\ submissions'[q].summary # None
                                   /\ Told(q, submissions'[q].summary) \in recorded'
  BY <1>1, <1>2, <1>4, <1>5, <1>6 DEF IInv, TypeOK, StoredFirst
<1>9. recorded' \subseteq RunVerdict
  BY <1>3, <1>4 DEF IInv, TypeOK
<1>. QED
  BY <1>1, <1>2, <1>4, <1>5, <1>6, <1>7, <1>8, <1>9

\* The verdict is in the table before it is announced.
LEMMA SaveSummaryInvariant == ASSUME IInv, SaveSummary PROVE IInv'
<1>1. PICK r \in Runs : worker.run = r
  BY DEF SaveSummary, IInv, TypeOK
<1>a. Save /\ worker.stage = "save"
  BY DEF SaveSummary
<1>2. /\ worker' = At("announce", r, worker.verdict)
      /\ UNCHANGED <<posts, requests, announced, gateway, browser, dropped, mishaps>>
  BY <1>1 DEF SaveSummary, IInv, Holdings, At, queues
<1>3. /\ worker'.stage = "announce" /\ worker'.run = r /\ worker'.verdict = worker.verdict
      /\ worker' = At(worker'.stage, worker'.run, worker'.verdict)
  BY <1>2 DEF At
<1>4. PageOK'
  BY <1>1, <1>a, <1>2, SaveEnds, PageUndisturbed
<1>5. TypeOK'
  BY <1>1, <1>a, <1>2, <1>3, <1>4, SaveEnds DEF IInv, TypeOK, PageOK, browser
<1>6. Holdings' /\ PostedFirst' /\ StoredFirst' /\ ShownWasRecorded'
  BY <1>1, <1>a, <1>2, <1>3, <1>4, SaveEnds DEF IInv, TypeOK, Holdings, PostedFirst, StoredFirst,
     ShownWasRecorded, PageOK
<1>7. OnePlace'
  BY <1>1, <1>a, <1>2, <1>3, SaveEnds DEF IInv, OnePlace, InOnePlace, TakenUp
<1>. QED
  BY <1>5, <1>6, <1>7 DEF IInv

\* A store that raises is a mishap, whatever it has written.
LEMMA StoreRaisesInvariant == ASSUME IInv, StoreRaises PROVE IInv'
<1>1. PICK r \in Runs :
          /\ worker.run = r
          /\ worker' = At("delete", r, None)
          /\ UNCHANGED <<posts, requests, announced, gateway, browser>>
          /\ dropped' = dropped \cup {r}
          /\ submissions[r] # None
  BY DEF StoreRaises, queues, IInv, TypeOK
<1>2. /\ worker'.stage = "delete" /\ worker'.run = r
      /\ worker' = At(worker'.stage, worker'.run, worker'.verdict)
  BY <1>1 DEF At
<1>3. OnePlace' /\ mishaps' \in 0..MaxMishaps
  BY MishapExcuses DEF StoreRaises
<1>4. /\ submissions' \in [Runs -> SubmissionRecord \cup {None}]
      /\ recorded \subseteq recorded' /\ recorded' \subseteq RunVerdict
      /\ \A q \in Runs : Ended(q)' => /\ submissions'[q].summary # None
                                      /\ Told(q, submissions'[q].summary) \in recorded'
      /\ \A q \in Runs : submissions[q] # None <=> submissions'[q] # None
  <2>1. CASE worker.stage = "save" /\ Save
    BY <1>1, <2>1, SaveEnds
  <2>2. CASE UNCHANGED <<submissions, recorded>>
    BY <2>2 DEF IInv, TypeOK, StoredFirst, Ended
  <2>3. CASE submissions' = [submissions EXCEPT ![worker.run].status = "RUNNING"] /\ UNCHANGED recorded
             /\ worker.stage = "mark"
    <3>1. submissions[r] \in SubmissionRecord /\ submissions[r] # None
      BY <1>1, <2>3 DEF IInv, TypeOK
    <3>2. /\ submissions'[r] \in SubmissionRecord /\ submissions'[r].status = "RUNNING"
          /\ \A q \in Runs \ {r} : submissions'[q] = submissions[q]
      BY <1>1, <2>3, <3>1 DEF SubmissionRecord, RunStatus, IInv, TypeOK
    <3>3. submissions' \in [Runs -> SubmissionRecord \cup {None}]
      BY <1>1, <2>3, <3>2 DEF IInv, TypeOK
    <3>4. submissions'[r] # None
      BY <3>2, NoneAssumption
    <3>. QED
      BY <1>1, <2>3, <3>1, <3>2, <3>3, <3>4 DEF IInv, TypeOK, StoredFirst, Ended
  <2>. QED
    BY <2>1, <2>2, <2>3 DEF StoreRaises, table
<1>5. PageOK'
  BY <1>1, <1>4, PageUndisturbed
<1>6. TypeOK'
  BY <1>1, <1>2, <1>3, <1>4, <1>5 DEF IInv, TypeOK, PageOK
<1>7. Holdings' /\ PostedFirst' /\ StoredFirst' /\ ShownWasRecorded'
  BY <1>1, <1>2, <1>4, <1>5 DEF IInv, TypeOK, Holdings, PostedFirst, StoredFirst,
     ShownWasRecorded, PageOK
<1>. QED
  BY <1>3, <1>6, <1>7 DEF IInv

-----------------------------------------------------------------------------
(* Every step. *)

\* Every step of the handler.
LEMMA PostInvariant == ASSUME IInv, NEW r \in Runs, Post(r) PROVE IInv'
BY PutSubmissionInvariant, AnnounceRequestInvariant, AnnounceRequestBadlyInvariant,
   AcceptedInvariant, SubmissionFailsInvariant
DEF Post, Answer

\* Every step of the worker.
LEMMA WorkInvariant == ASSUME IInv, Work PROVE IInv'
BY ReceiveInvariant, MarkRunningInvariant, QuietWorkInvariant, SaveSummaryInvariant,
   AnnounceCompletionInvariant, StoreRaisesInvariant, StopWorkerInvariant
DEF Work

\* Every step keeps the invariant.
LEMMA StepInvariant == IInv /\ [Next]_vars => IInv'
<1>. SUFFICES ASSUME IInv, [Next]_vars PROVE IInv'
  OBVIOUS
<1>1. CASE UNCHANGED vars
  <2>1. UNCHANGED Backstage /\ UNCHANGED <<posts, page, awaiting, polls, mishaps>>
    BY <1>1 DEF vars, Backstage, browser
  <2>2. PageOK'
    BY <2>1 DEF PageOK, IInv, TypeOK, ShownWasRecorded, Backstage, table
  <2>. QED
    BY <2>1, <2>2, PageStep DEF PostMoves, IInv, TypeOK
<1>2. CASE Forward
  BY <1>2, GatewayInvariant, DeliverInvariant DEF Forward
<1>3. CASE Watch \/ SocketDrops
  BY <1>3, WatchInvariant DEF Watch
<1>4. CASE User
  BY <1>4, WatchInvariant, SubmitInvariant DEF User
<1>. QED
  BY <1>1, <1>2, <1>3, <1>4, PostInvariant, WorkInvariant DEF Next

\* The strengthened invariant holds throughout.
THEOREM Invariant == Spec => []IInv
BY InitInvariant, StepInvariant, PTL DEF Spec

\* Every variable keeps its type, and whatever is followed, processed or asked
\* about is a submission that was recorded, for any number of submissions and
\* of failures.
THEOREM DeliveryTypes == Spec => []TypeOK
<1>1. IInv => TypeOK
  BY DEF IInv
<1>. QED
  BY <1>1, Invariant, PTL

\* No verdict is queued, sent, asked for or shown that the worker had not
\* stored before, wherever it stops and whatever is lost or repeated.
THEOREM NothingUnrecordedIsShown == Spec => []ShownWasRecorded
<1>1. IInv => ShownWasRecorded
  BY DEF IInv
<1>. QED
  BY <1>1, Invariant, PTL

\* Before anything went wrong no step takes up a run that has ended.
LEMMA EndedStaysEnded ==
    ASSUME IInv, [Next]_vars, NEW r \in Runs, Ended(r), mishaps = 0
    PROVE  Ended(r)'
<1>1. InOnePlace(r)
  BY DEF IInv, OnePlace
<1>2. ASSUME NEW q \in Runs, posts[q] = "put", Put(q) PROVE Ended(r)'
  <2>1. q # r
    BY <1>2 DEF IInv, PostedFirst, Ended
  <2>. QED
    BY <1>2, <2>1 DEF Put, IInv, TypeOK, Ended
<1>3. ASSUME worker.stage = "mark", submissions' = [submissions EXCEPT ![worker.run].status = "RUNNING"]
      PROVE  Ended(r)'
  <2>1. worker.run # r
    BY <1>1, <1>3 DEF InOnePlace, TakenUp
  <2>. QED
    BY <1>3, <2>1 DEF IInv, TypeOK, Ended
<1>4. ASSUME worker.stage = "save", Save PROVE Ended(r)'
  <2>1. PICK q \in Runs : worker.run = q
    BY <1>4 DEF IInv, TypeOK
  <2>. QED
    BY <1>4, <2>1, SaveEnds
<1>5. ASSUME UNCHANGED table PROVE Ended(r)'
  BY <1>5 DEF table, Ended
<1>6. CASE Work
  BY <1>3, <1>4, <1>5, <1>6 DEF Work, Receive, MarkRunning, RunEpisode, SaveSummary,
     AnnounceCompletion, CompletionIsLost, StoreRaises, DeleteRequest, StopWorker, table
<1>7. ASSUME NEW q \in Runs, Post(q) PROVE Ended(r)'
  BY <1>2, <1>5, <1>7 DEF Post, PutSubmission, AnnounceRequest, AnnounceRequestBadly, Answer,
     Accepted, SubmissionFails, table
<1>8. CASE Forward \/ Watch \/ SocketDrops \/ User
  BY <1>5, <1>8 DEF Forward, ReceiveEvent, Deliver, DeleteEvent, GatewayFails, Watch, Connect, Poll,
     PollAnswered, PollFails, SocketDrops, User, Submit, Reset, SwitchAway, ComeBack
<1>9. CASE UNCHANGED vars
  BY <1>5, <1>9 DEF vars
<1>. QED
  BY <1>6, <1>7, <1>8, <1>9 DEF Next

\* A run that has ended is taken up again only after something went wrong,
\* however many runs are posted at a time.
THEOREM ProcessedOnceAlways == Spec => ProcessedOnce
<1>1. IInv /\ [Next]_vars => [\A r \in Runs : Ended(r) /\ ~Ended(r)' => mishaps > 0]_vars
  <2>. SUFFICES ASSUME IInv, [Next]_vars, NEW r \in Runs, Ended(r), ~Ended(r)'
                PROVE  mishaps > 0
    OBVIOUS
  <2>1. mishaps # 0
    BY EndedStaysEnded
  <2>. QED
    BY <2>1 DEF IInv, TypeOK
<1>. QED
  BY <1>1, Invariant, PTL DEF Spec, ProcessedOnce
=============================================================================
