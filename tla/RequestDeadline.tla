--------------------------- MODULE RequestDeadline ---------------------------
(***************************************************************************)
(* One HTTP request under RequestTimeoutASGIMiddleware: the owner task     *)
(* (_RequestDeadline.run), the work task that runs the application behind  *)
(* receive_body/send_response, and the reader of the server's channel, with *)
(* the shared RequestActivity and the RequestObservation wrapped around    *)
(* everything.  A step runs from one await to the next.  The application   *)
(* is any program: it reads, mutates (a transactional route), responds,    *)
(* raises, hangs, or swallows a cancellation, in every order the code      *)
(* around it allows.                                                       *)
(***************************************************************************)
EXTENDS Integers, Sequences

CONSTANTS Messages,   \* request body messages the client sends
          Chunks      \* bound: streamed body parts before the last one

ASSUME MessagesAssumption == Messages \in Nat \ {0}
ASSUME ChunksAssumption == Chunks \in Nat

VARIABLES owner,         \* where run(), and the error layer around it, is
          ownerCancel,   \* the owner was cancelled and has not run since
          work,          \* where the work task is
          workCancel,    \* the work was cancelled and has not run since
          cancelledWork, \* history: run() itself cancelled the work
          reader,        \* where read_messages is
          upload,        \* messages the reader has yet to receive
          queued,        \* messages in `incoming' (maxsize 1)
          bodyComplete, started, closed, disconnected, completed,
          timeoutDetail, \* timeout_detail is set
          abandoned, owns,  \* RequestActivity
          headers,       \* RequestErrorASGIMiddleware's `started'
          clock,         \* "early", "late" (>= expires_at), "fired" (timer)
          wire,          \* messages the server accepted: <<source, type>>
          outcome,       \* RequestObservation.result
          drained        \* RequestWork.drain has cancelled this request

flags == <<bodyComplete, started, closed, disconnected, completed,
           timeoutDetail, abandoned, owns, headers>>
vars == <<owner, ownerCancel, work, workCancel, cancelledWork, reader, upload,
          queued, flags, clock, wire, outcome, drained>>

Ended == {"done", "failed", "cancelled"}
InSend == {"head", "chunk", "tail"}
WorkStates == {"app", "get", "listen", "mutate", "commit", "body", "after"}
                 \cup InSend \cup Ended
OwnerStates == {"wait", "join", "send408", "end408", "unwind", "send500",
                "end500", "over"}
Sources == {"app", "deadline", "outer"}

TypeOK ==
    /\ owner \in OwnerStates /\ ownerCancel \in BOOLEAN
    /\ work \in WorkStates /\ workCancel \in BOOLEAN
    /\ cancelledWork \in BOOLEAN
    /\ reader \in {"receive", "put", "stopped", "failed"}
    /\ upload \in 0..Messages /\ queued \in 0..1
    /\ bodyComplete \in BOOLEAN /\ started \in BOOLEAN /\ closed \in BOOLEAN
    /\ disconnected \in BOOLEAN /\ completed \in BOOLEAN
    /\ timeoutDetail \in BOOLEAN /\ abandoned \in BOOLEAN /\ owns \in BOOLEAN
    /\ headers \in BOOLEAN
    /\ clock \in {"early", "late", "fired"}
    /\ wire \in Seq(Sources \X {"start", "part", "end"})
    /\ outcome \in {"none", "completed", "aborted"}
    /\ drained \in BOOLEAN

Init ==
    /\ owner = "wait" /\ ownerCancel = FALSE
    /\ work = "app" /\ workCancel = FALSE /\ cancelledWork = FALSE
    /\ reader = "receive" /\ upload = Messages /\ queued = 0
    /\ bodyComplete = FALSE /\ started = FALSE /\ closed = FALSE
    /\ disconnected = FALSE /\ completed = FALSE /\ timeoutDetail = FALSE
    /\ abandoned = FALSE /\ owns = FALSE /\ headers = FALSE
    /\ clock = "early" /\ wire = <<>> /\ outcome = "none" /\ drained = FALSE

-----------------------------------------------------------------------------
\* RequestObservation.settle: the first outcome stays.
Settle(result) == outcome' = IF outcome = "none" THEN result ELSE outcome

\* self.interrupted is set exactly with one of these two.
Interrupted == disconnected \/ timeoutDetail

\* RequestActivity.assert_active; the failing call also abandons.
Active == ~abandoned /\ clock = "early"

\* Variant: a late send is not held back after the 408.
SuppressedUnlessClosed == disconnected \/ completed

\* send_response drops the message.
Suppressed == closed \/ disconnected \/ completed

\* work.cancel(): a finished task is left alone.
CancelWork(condition) ==
    LET asked == condition /\ work \notin Ended IN
    /\ workCancel' = (workCancel \/ asked)
    /\ cancelledWork' = (cancelledWork \/ asked)

\* Where the application goes on after a receive_body() or a swallowed
\* cancellation: a mutation parses its body inside the transaction.
Back == IF owns THEN "mutate" ELSE IF headers THEN "body" ELSE "app"

client == <<reader, upload, queued>>
owning == <<owner, ownerCancel>>

-----------------------------------------------------------------------------
(* The clock: assert_active sees expires_at pass before the timer of       *)
(* asyncio.wait, which starts later, can fire.                             *)
Tick ==
    /\ clock # "fired"
    /\ clock' = IF clock = "early" THEN "late" ELSE "fired"
    /\ UNCHANGED <<owning, work, workCancel, cancelledWork, client, flags,
                   wire, outcome, drained>>

-----------------------------------------------------------------------------
\* Variant: an unbounded queue.
ReadMessageUnbounded ==
    /\ reader = "receive" /\ upload > 0
    /\ upload' = upload - 1
    /\ queued' = queued + 1
    /\ UNCHANGED <<owning, work, workCancel, cancelledWork, reader, flags,
                   clock, wire, outcome, drained>>

(* read_messages.  put() suspends only when the queue is full.             *)
ReadMessage ==
    /\ reader = "receive" /\ upload > 0
    /\ upload' = upload - 1
    /\ IF queued = 0 THEN queued' = 1 /\ reader' = reader
                     ELSE queued' = queued /\ reader' = "put"
    /\ UNCHANGED <<owning, work, workCancel, cancelledWork, flags, clock,
                   wire, outcome, drained>>

PutMessage ==
    /\ reader = "put" /\ queued = 0
    /\ queued' = 1 /\ reader' = "receive"
    /\ UNCHANGED <<owning, work, workCancel, cancelledWork, upload, flags,
                   clock, wire, outcome, drained>>

\* http.disconnect, which is ignored once the response is complete, or an
\* OSError of receive(), which is not; receive_observed settles first.
ReadDisconnect ==
    /\ reader = "receive"
    /\ reader' = "stopped"
    /\ Settle("aborted")
    /\ \E explicit \in BOOLEAN :
          LET gone == ~(explicit /\ completed) IN
          /\ disconnected' = (disconnected \/ gone)
          /\ abandoned' = (abandoned \/ gone)
    /\ UNCHANGED <<owning, work, workCancel, cancelledWork, upload, queued,
                   bodyComplete, started, closed, completed, timeoutDetail,
                   owns, headers, clock, wire, drained>>

\* Any other failure of receive(), TimeoutError included.
ReadFails ==
    /\ reader = "receive"
    /\ reader' = "failed"
    /\ UNCHANGED <<owning, work, workCancel, cancelledWork, upload, queued,
                   flags, clock, wire, outcome, drained>>

Reader == ReadMessage \/ PutMessage \/ ReadDisconnect \/ ReadFails

-----------------------------------------------------------------------------
(* The work task.  A cancellation that was asked for is what the task      *)
(* meets first when it runs again.                                         *)
Runs(state) == work = state /\ ~workCancel

\* What every step of the work leaves alone.
outside == <<owning, workCancel, cancelledWork, clock, drained>>

\* The first message of a response: `started' is set before the send.
CallStart ==
    /\ headers' = TRUE
    /\ started' = (started \/ ~Suppressed)
    /\ work' = IF Suppressed THEN "body" ELSE "head"

\* An exception: RequestErrorASGIMiddleware renders it unless the
\* application has begun a response.
Raise ==
    IF headers THEN work' = "failed" /\ UNCHANGED <<headers, started>>
               ELSE CallStart

\* A CancelledError inside the work: it unwinds, or the application swallows
\* it and goes on.
Unwind ==
    \/ work' = "cancelled"
    \/ /\ work \notin InSend \cup {"commit"}
       /\ work' = IF work \in {"get", "listen"} THEN Back ELSE work

\* receive_body up to its await.  (When it answers http.disconnect at once
\* nothing changes.)  Only a streamed response listens on after the body;
\* transactional routes are buffered JSON.
Receive ==
    /\ IF owns THEN Runs("mutate") ELSE Runs("app") \/ Runs("body")
    /\ ~closed /\ ~disconnected
    /\ bodyComplete => ~owns
    /\ work' = IF bodyComplete THEN "listen" ELSE "get"
    /\ UNCHANGED <<outside, client, flags, wire, outcome>>

GetMessage ==
    /\ Runs("get") /\ queued = 1
    /\ queued' = 0
    /\ bodyComplete' = (upload = 0 /\ reader # "put")
    /\ work' = Back
    /\ UNCHANGED <<outside, reader, upload, started, closed, disconnected,
                   completed, timeoutDetail, abandoned, owns, headers, wire,
                   outcome>>

\* Variant: the body timeout does not abandon the request.
BodyTimeoutSilent ==
    /\ Runs("get")
    /\ timeoutDetail' = TRUE
    /\ Unwind
    /\ UNCHANGED <<outside, client, bodyComplete, started, closed,
                   disconnected, completed, abandoned, owns, headers, wire,
                   outcome>>

\* asyncio.timeout(budget) ends the wait for a message.
BodyTimeout ==
    /\ Runs("get")
    /\ timeoutDetail' = TRUE /\ abandoned' = TRUE
    /\ Unwind
    /\ UNCHANGED <<outside, client, bodyComplete, started, closed,
                   disconnected, completed, owns, headers, wire, outcome>>

HearDisconnect ==
    /\ Runs("listen") /\ Interrupted
    /\ work' = Back
    /\ UNCHANGED <<outside, client, flags, wire, outcome>>

\* ApplicationRoute.handle takes the transaction, or is refused with 408.
BeginMutation ==
    /\ Runs("app") /\ ~owns /\ ~headers
    /\ IF Active
         THEN /\ owns' = TRUE /\ work' = "mutate"
              /\ UNCHANGED <<abandoned, headers, started>>
         ELSE /\ abandoned' = TRUE /\ owns' = owns
              /\ CallStart
    /\ UNCHANGED <<outside, client, bodyComplete, closed, disconnected,
                   completed, timeoutDetail, wire, outcome>>

\* The last assert_active of the transaction: COMMIT, or roll back with 408.
DecideCommit ==
    /\ Runs("mutate")
    /\ IF Active
         THEN /\ work' = "commit"
              /\ UNCHANGED <<abandoned, headers, started>>
         ELSE /\ abandoned' = TRUE
              /\ CallStart
    /\ UNCHANGED <<outside, client, bodyComplete, closed, disconnected,
                   completed, timeoutDetail, owns, wire, outcome>>

\* COMMIT answered: the route goes on to its response.
Committed ==
    /\ Runs("commit")
    /\ work' = "app"
    /\ UNCHANGED <<outside, client, flags, wire, outcome>>

\* The application's code raises, or returns an error response.
WorkRaises ==
    /\ \E s \in {"app", "mutate", "commit", "body", "after"} : Runs(s)
    /\ Raise
    /\ UNCHANGED <<outside, client, bodyComplete, closed, disconnected,
                   completed, timeoutDetail, abandoned, owns, wire, outcome>>

Respond ==
    /\ Runs("app") /\ ~headers
    /\ CallStart
    /\ UNCHANGED <<outside, client, bodyComplete, closed, disconnected,
                   completed, timeoutDetail, abandoned, owns, wire, outcome>>

\* Body messages: a suppressed send returns at once.
SendPart ==
    /\ Runs("body") /\ ~Suppressed /\ Len(wire) <= Chunks
    /\ work' = "chunk"
    /\ UNCHANGED <<outside, client, flags, wire, outcome>>

SendLast ==
    /\ Runs("body")
    /\ work' = IF Suppressed THEN "after" ELSE "tail"
    /\ UNCHANGED <<outside, client, flags, wire, outcome>>

\* Variant: any body message counts as the last one.
SendAcceptedEarly ==
    /\ \/ /\ Runs("head")
          /\ wire' = Append(wire, <<"app", "start">>)
          /\ work' = "body" /\ UNCHANGED <<completed, outcome>>
       \/ /\ Runs("chunk")
          /\ wire' = Append(wire, <<"app", "part">>)
          /\ work' = "body" /\ completed' = completed /\ Settle("completed")
       \/ /\ Runs("tail")
          /\ wire' = Append(wire, <<"app", "end">>)
          /\ work' = "after" /\ completed' = TRUE /\ Settle("completed")
    /\ UNCHANGED <<outside, client, bodyComplete, started, closed,
                   disconnected, timeoutDetail, abandoned, owns, headers>>

\* The server accepts the message: send_observed, then send_response.
SendAccepted ==
    /\ \/ /\ Runs("head")
          /\ wire' = Append(wire, <<"app", "start">>)
          /\ work' = "body" /\ UNCHANGED <<completed, outcome>>
       \/ /\ Runs("chunk")
          /\ wire' = Append(wire, <<"app", "part">>)
          /\ work' = "body" /\ UNCHANGED <<completed, outcome>>
       \/ /\ Runs("tail")
          /\ wire' = Append(wire, <<"app", "end">>)
          /\ work' = "after" /\ completed' = TRUE /\ Settle("completed")
    /\ UNCHANGED <<outside, client, bodyComplete, started, closed,
                   disconnected, timeoutDetail, abandoned, owns, headers>>

\* The server's send raises OSError.
SendBroken ==
    /\ \E s \in InSend : Runs(s)
    /\ disconnected' = TRUE /\ abandoned' = TRUE
    /\ Settle("aborted")
    /\ work' = "failed"
    /\ UNCHANGED <<outside, client, bodyComplete, started, closed, completed,
                   timeoutDetail, owns, headers, wire>>

\* Dependency and background cleanup is over.
Finish ==
    /\ Runs("after")
    /\ work' = "done"
    /\ UNCHANGED <<outside, client, flags, wire, outcome>>

DeliverCancel ==
    /\ workCancel /\ work \notin Ended
    /\ workCancel' = FALSE
    /\ Unwind
    /\ UNCHANGED <<owning, cancelledWork, clock, drained, client, flags,
                   wire, outcome>>

Work == \/ Receive \/ GetMessage \/ BodyTimeout \/ HearDisconnect
        \/ BeginMutation \/ DecideCommit \/ Committed \/ WorkRaises
        \/ Respond \/ SendPart \/ SendLast \/ SendAccepted \/ SendBroken
        \/ Finish \/ DeliverCancel

-----------------------------------------------------------------------------
(* The owner.                                                              *)
\* work.cancelling(): a cancel was ever asked for, delivered or not.
Cancelling == cancelledWork \/ drained

\* Variant: the mutation's owner is cancelled like any other work.
FinallyCancels(next, branchCancels) ==
    /\ owner' = next
    /\ closed' = TRUE
    /\ abandoned' = (abandoned \/ work \notin Ended)
    /\ CancelWork(branchCancels \/ ~Cancelling)
    /\ reader' = IF reader = "failed" THEN reader ELSE "stopped"

\* Variant: unfinished work is not told.
FinallySilent(next, branchCancels) ==
    /\ owner' = next
    /\ closed' = TRUE /\ abandoned' = abandoned
    /\ CancelWork(~owns /\ (branchCancels \/ ~Cancelling))
    /\ reader' = IF reader = "failed" THEN reader ELSE "stopped"

\* run()'s finally: the work is abandoned, cancelled when the branch before
\* asks for it or nobody has yet, unless it owns a mutation; the watchers end.
Finally(next, branchCancels) ==
    /\ owner' = next
    /\ closed' = TRUE
    /\ abandoned' = (abandoned \/ work \notin Ended)
    /\ CancelWork(~owns /\ (branchCancels \/ ~Cancelling))
    /\ reader' = IF reader = "failed" THEN reader ELSE "stopped"

\* Variant: asyncio.wait without its timeout.
WokenUntimed == \/ work \in Ended \/ Interrupted \/ completed
                \/ reader \in {"stopped", "failed"}

\* asyncio.wait returns: something is done, or the timeout passed.
Woken == \/ clock = "fired" \/ work \in Ended \/ Interrupted \/ completed
         \/ reader \in {"stopped", "failed"}

NothingDone == work \notin Ended /\ reader \in {"receive", "put"}

Wakes == owner = "wait" /\ ~ownerCancel /\ Woken

\* A finished response cannot expire: only join the work.
WakeCompleted ==
    /\ Wakes /\ completed
    /\ owner' = "join"
    /\ UNCHANGED <<ownerCancel, work, workCancel, cancelledWork, client,
                   flags, clock, wire, outcome, drained>>

WakeDisconnected ==
    /\ Wakes /\ ~completed /\ disconnected
    /\ Settle("aborted")
    /\ Finally("over", TRUE)
    /\ UNCHANGED <<ownerCancel, work, upload, queued, bodyComplete, started,
                   disconnected, completed, timeoutDetail, owns, headers,
                   clock, wire, drained>>

\* The deadline, or a body timeout: close, abandon and cancel; then answer
\* 408, or abort a response that has begun.
WakeExpired ==
    /\ Wakes /\ ~completed /\ ~disconnected
    /\ timeoutDetail \/ NothingDone
    /\ IF started
         THEN Settle("aborted") /\ Finally("unwind", TRUE)
         ELSE /\ owner' = "send408"
              /\ closed' = TRUE /\ abandoned' = TRUE
              /\ CancelWork(~owns)
              /\ UNCHANGED <<reader, outcome>>
    /\ UNCHANGED <<ownerCancel, work, upload, queued, bodyComplete, started,
                   disconnected, completed, timeoutDetail, owns, headers,
                   clock, wire, drained>>

\* The work ended by itself, or receive() failed unexpectedly.
WakeSettled ==
    /\ Wakes /\ ~completed /\ ~disconnected /\ ~timeoutDetail /\ ~NothingDone
    /\ IF reader = "failed"
         THEN Finally("unwind", FALSE)
         ELSE /\ owner' = "join"
              /\ UNCHANGED <<workCancel, cancelledWork, reader, closed,
                             abandoned>>
    /\ UNCHANGED <<ownerCancel, work, upload, queued, bodyComplete, started,
                   disconnected, completed, timeoutDetail, owns, headers,
                   clock, wire, outcome, drained>>

\* await work: returns, raises, or is cancelled with it.
Join ==
    /\ owner = "join" /\ work \in Ended /\ ~ownerCancel
    /\ IF work = "failed"
         THEN Finally("unwind", FALSE) /\ outcome' = outcome
         ELSE Finally("over", FALSE) /\ Settle("aborted")
    /\ UNCHANGED <<ownerCancel, work, upload, queued, bodyComplete, started,
                   disconnected, completed, timeoutDetail, owns, headers,
                   clock, wire, drained>>

\* The server accepts the 408's two messages, or raises OSError.
Send408 ==
    /\ ~ownerCancel
    /\ \/ /\ owner = "send408"
          /\ wire' = Append(wire, <<"deadline", "start">>)
          /\ owner' = "end408"
          /\ UNCHANGED <<workCancel, cancelledWork, reader, closed, abandoned,
                         outcome>>
       \/ /\ owner = "end408"
          /\ wire' = Append(wire, <<"deadline", "end">>)
          /\ Settle("completed") /\ Finally("over", FALSE)
       \/ /\ owner \in {"send408", "end408"}
          /\ wire' = wire
          /\ Settle("aborted") /\ Finally("over", FALSE)
    /\ UNCHANGED <<ownerCancel, work, upload, queued, bodyComplete, started,
                   disconnected, completed, timeoutDetail, owns, headers,
                   clock, drained>>

\* Starlette's ServerErrorMiddleware answers 500 when no response was begun;
\* RequestOutcomeASGIMiddleware's finally settles.
HandleError ==
    /\ owner = "unwind" /\ ~ownerCancel
    /\ IF started THEN owner' = "over" /\ Settle("aborted")
                  ELSE owner' = "send500" /\ outcome' = outcome
    /\ UNCHANGED <<ownerCancel, work, workCancel, cancelledWork, client,
                   flags, clock, wire, drained>>

Send500 ==
    /\ ~ownerCancel
    /\ \/ /\ owner = "send500" /\ owner' = "end500"
          /\ wire' = Append(wire, <<"outer", "start">>)
          /\ outcome' = outcome
       \/ /\ owner = "end500" /\ owner' = "over"
          /\ wire' = Append(wire, <<"outer", "end">>)
          /\ Settle("completed")
       \/ /\ owner \in {"send500", "end500"} /\ owner' = "over"
          /\ wire' = wire /\ Settle("aborted")
    /\ UNCHANGED <<ownerCancel, work, workCancel, cancelledWork, client,
                   flags, clock, drained>>

\* RequestWork.drain cancels what it tracks: the request's task and its work.
\* Cancelling a task that awaits the work cancels the work in its stead.
Drain ==
    /\ ~drained
    /\ drained' = TRUE
    /\ workCancel' = (work \notin Ended)
    /\ ownerCancel' = (owner \notin {"over"} /\ ~(owner = "join" /\ work \notin Ended))
    /\ UNCHANGED <<owner, work, cancelledWork, client, flags, clock, wire,
                   outcome>>

\* CancelledError reaches run(), or the error response after it.
OwnerCancelled ==
    /\ ownerCancel
    /\ ownerCancel' = FALSE
    /\ Settle("aborted")
    /\ IF owner \in {"wait", "join", "send408", "end408"}
         THEN Finally("over", FALSE)
         ELSE /\ owner' = "over"
              /\ UNCHANGED <<closed, abandoned, workCancel, cancelledWork,
                             reader>>
    /\ UNCHANGED <<work, upload, queued, bodyComplete, started, disconnected,
                   completed, timeoutDetail, owns, headers, clock, wire,
                   drained>>

Owner == \/ WakeCompleted \/ WakeDisconnected \/ WakeExpired \/ WakeSettled
         \/ Join \/ Send408 \/ HandleError \/ Send500 \/ OwnerCancelled

-----------------------------------------------------------------------------
Next == Tick \/ Reader \/ Work \/ Owner \/ Drain

Spec == Init /\ [][Next]_vars

\* The event loop runs a ready task and its timers, and the server finishes
\* a send, so the clock and the owner are weakly fair.  The application and
\* the client are not: they may stop at any await.
FairSpec == Spec /\ WF_vars(Tick) /\ WF_vars(Owner)

-----------------------------------------------------------------------------
(* Properties.                                                             *)

\* The client gets one response: the messages the server accepted come from
\* one writer, begin with one start and nothing follows the end.  A 408 or a
\* 500 never joins an answer of the application, however late that answer
\* comes (request_timeout.py 158, 224-246).
OneResponse ==
    \A i, j \in DOMAIN wire :
        /\ wire[i][1] = wire[j][1]
        /\ wire[i][2] = "start" <=> i = 1
        /\ wire[i][2] = "end" => i = Len(wire)

\* One response, and a body queue that never outgrows its place for one
\* message however fast the client sends (111, 158).
ResponseIsSound == TypeOK /\ OneResponse

\* The one observation that feeds logs and metrics is settled when the
\* request is over, and says "completed" only of a response whose last
\* message the server accepted (request_outcome.py 92-171).
OutcomeIsTrue ==
    /\ owner = "over" => outcome # "none"
    /\ outcome = "completed" => wire # <<>> /\ wire[Len(wire)][2] = "end"

\* run() never cancels work that owns a mutation, not even work that became
\* the owner after the cancellation was asked for (222, 229, 258-263).
CancelSparesMutation == cancelledWork => ~owns

\* Work that outlives its response is abandoned, so its next assert_active
\* refuses: nothing runs on believing that someone still waits (228, 255).
OutlivingWorkIsAbandoned == closed /\ work \notin Ended => abandoned

\* A transaction decides to commit only while its response can still be
\* delivered: not after a 408, a disconnect or a body timeout.
CommitOnlyWhileOpen ==
    [][work # "commit" /\ work' = "commit"
         => ~closed /\ ~disconnected /\ ~timeoutDetail]_vars

\* Every request is answered or given up by the deadline, even when the
\* application hangs, resists its cancellation or the client never sends its
\* body: only cleanup after a finished response may take longer (209-217).
AnsweredByDeadline == <>(completed \/ owner = "over")

=============================================================================
