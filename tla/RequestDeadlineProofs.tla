------------------------ MODULE RequestDeadlineProofs ------------------------
(***************************************************************************)
(* One request under its deadline, for a body of any length and any number *)
(* of streamed parts.  The argument: who may write next is settled by      *)
(* `started' and `closed': run() closes the application's send before it   *)
(* answers itself, and answers only when the application has not begun;    *)
(* nothing is closed, disconnected or timed out without being abandoned.   *)
(***************************************************************************)
EXTENDS RequestDeadline, TLAPS

-----------------------------------------------------------------------------
(* The inductive invariant. *)

\* Where the application is, what it has begun and what has been sent of it.
\* A body message that is not suppressed follows an accepted start.
AppInv ==
    /\ work \in {"app", "mutate", "commit"} => ~headers
    /\ work \in InSend \cup {"body", "after"} => headers
    /\ work \in {"get", "listen"} /\ owns => ~headers
    /\ started => headers
    /\ work \in InSend => started
    /\ work = "head" => wire = <<>>
    /\ work \in {"chunk", "tail"} => wire # <<>>
    /\ work \in {"body", "get", "listen"} /\ headers /\ ~Suppressed
         => started /\ wire # <<>>
    /\ completed => started /\ work \in {"after"} \cup Ended

\* run() has closed the application's send before it goes on, and answers
\* itself only when the application has not begun.
OwnerInv ==
    /\ owner \notin {"wait", "join"} => closed
    /\ started => owner \notin {"send408", "end408", "send500", "end500"}

\* Whoever ends the request abandons its work first.
AbandonInv ==
    /\ disconnected => abandoned
    /\ timeoutDetail => abandoned
    /\ cancelledWork => abandoned
    /\ CancelSparesMutation
    /\ OutlivingWorkIsAbandoned

\* What is on the wire, by who has written it.
WireInv ==
    /\ OneResponse
    /\ started => \A i \in DOMAIN wire : wire[i][1] = "app"
    /\ started /\ ~completed => \A i \in DOMAIN wire : wire[i][2] # "end"
    /\ ~started /\ owner \in {"wait", "join", "send408", "unwind", "send500"}
         => wire = <<>>
    /\ owner = "end408" => wire = << <<"deadline", "start">> >>
    /\ owner = "end500" => wire = << <<"outer", "start">> >>

Inv == TypeOK /\ AppInv /\ OwnerInv /\ AbandonInv /\ WireInv /\ OutcomeIsTrue

Wire == Seq(Sources \X {"start", "part", "end"})

-----------------------------------------------------------------------------
(* Facts on the wire. *)
LEMMA FirstMessage ==
    ASSUME TypeOK, wire = <<>>, NEW s \in Sources, wire' = Append(wire, <<s, "start">>)
    PROVE  /\ wire' \in Wire /\ OneResponse' /\ wire' = << <<s, "start">> >>
           /\ wire' # <<>> /\ wire'[Len(wire')][2] = "start"
           /\ \A i \in DOMAIN wire' : wire'[i] = <<s, "start">>
  <1>1. wire' = << <<s, "start">> >>
    OBVIOUS
  <1>2. Len(wire') = 1 /\ DOMAIN wire' = {1} /\ wire'[1] = <<s, "start">>
    BY <1>1
  <1>3. wire' \in Wire
    BY <1>1 DEF Wire
  <1>4. OneResponse'
    BY <1>2 DEF OneResponse
  <1> QED BY <1>1, <1>2, <1>3, <1>4

LEMMA NextMessage ==
    ASSUME TypeOK, wire # <<>>, OneResponse, NEW s \in Sources,
           \A i \in DOMAIN wire : wire[i][1] = s /\ wire[i][2] # "end",
           NEW k \in {"part", "end"}, wire' = Append(wire, <<s, k>>)
    PROVE  /\ wire' \in Wire /\ OneResponse' /\ wire' # <<>>
           /\ wire'[Len(wire')][2] = k
           /\ \A i \in DOMAIN wire' : wire'[i][1] = s
           /\ k = "part" => \A i \in DOMAIN wire' : wire'[i][2] # "end"
  <1>1. /\ wire \in Wire /\ Len(wire) \in Nat /\ Len(wire) > 0
        /\ DOMAIN wire = 1 .. Len(wire)
    BY DEF TypeOK, Wire
  <1>2. PICK m : m = <<s, k>>
    OBVIOUS
  <1>3. m \in Sources \X {"start", "part", "end"} /\ m[1] = s /\ m[2] = k
    BY <1>2
  <1>4. /\ wire' \in Wire /\ Len(wire') = Len(wire) + 1
        /\ DOMAIN wire' = 1 .. Len(wire) + 1
        /\ \A i \in 1 .. Len(wire) : wire'[i] = wire[i]
        /\ wire'[Len(wire) + 1] = m
    BY <1>1, <1>2, <1>3 DEF Wire
  <1>5. \A i \in DOMAIN wire' : /\ wire'[i][1] = s
                                /\ wire'[i][2] = "start" <=> i = 1
                                /\ wire'[i][2] = "end" => i = Len(wire')
                                /\ k = "part" => wire'[i][2] # "end"
    <2> TAKE i \in DOMAIN wire'
    <2>1. CASE i \in 1 .. Len(wire)
      BY <1>1, <1>4, <2>1 DEF OneResponse
    <2>2. CASE i = Len(wire) + 1
      BY <1>1, <1>3, <1>4, <2>2
    <2> QED BY <1>1, <1>4, <2>1, <2>2
  <1>6. OneResponse'
    BY <1>5 DEF OneResponse
  <1> QED BY <1>1, <1>3, <1>4, <1>5, <1>6

-----------------------------------------------------------------------------
LEMMA Initial == Init => Inv
  <1> SUFFICES ASSUME Init PROVE Inv
    OBVIOUS
  <1> USE MessagesAssumption DEF Init
  <1>1. TypeOK
    <2>1. wire \in Seq(Sources \X {"start", "part", "end"})
      OBVIOUS
    <2>2. upload \in 0 .. Messages /\ queued \in 0 .. 1
      OBVIOUS
    <2> QED BY <2>1, <2>2 DEF TypeOK, OwnerStates, WorkStates
  <1>2. AppInv /\ OwnerInv /\ AbandonInv /\ OutcomeIsTrue
    BY DEF AppInv, OwnerInv, AbandonInv, OutcomeIsTrue, InSend, Ended,
           CancelSparesMutation, OutlivingWorkIsAbandoned
  <1>3. WireInv
    BY DEF WireInv, OneResponse
  <1> QED BY <1>1, <1>2, <1>3 DEF Inv

(* A step that writes nothing and settles nothing keeps what is said of    *)
(* the wire unless it moves the owner or begins a response.                *)
LEMMA SameWire ==
    ASSUME WireInv, wire' = wire, owner' = owner, completed' = completed,
           started' = started
    PROVE  WireInv'
  BY DEF WireInv, OneResponse

LEMMA SameOutcome ==
    ASSUME OutcomeIsTrue, wire' = wire, owner' = owner,
           outcome' = outcome \/ Settle("aborted")
    PROVE  OutcomeIsTrue'
  BY DEF OutcomeIsTrue, Settle

-----------------------------------------------------------------------------
(* The clock and the reader. *)
LEMMA OutsideStep ==
    ASSUME Inv, Tick \/ Reader \/ Drain PROVE Inv'
  <1> USE MessagesAssumption DEF Inv, flags, client, owning
  <1>1. CASE Tick
    <2>1. TypeOK' /\ AppInv' /\ OwnerInv' /\ AbandonInv'
      BY <1>1 DEF Tick, TypeOK, AppInv, OwnerInv, AbandonInv, Suppressed,
                  CancelSparesMutation, OutlivingWorkIsAbandoned
    <2> QED BY <1>1, <2>1, SameWire, SameOutcome DEF Tick
  <1>2. CASE ReadMessage \/ PutMessage \/ ReadFails
    <2>1. TypeOK'
      BY <1>2 DEF ReadMessage, PutMessage, ReadFails, TypeOK
    <2>2. UNCHANGED <<owning, work, workCancel, cancelledWork, flags, clock,
                      wire, outcome, drained>>
      BY <1>2 DEF ReadMessage, PutMessage, ReadFails
    <2>3. AppInv' /\ OwnerInv' /\ AbandonInv'
      BY <2>2 DEF AppInv, OwnerInv, AbandonInv, Suppressed,
                  CancelSparesMutation, OutlivingWorkIsAbandoned
    <2> QED BY <2>1, <2>2, <2>3, SameWire, SameOutcome
  <1>3. CASE ReadDisconnect
    <2>1. PICK gone \in BOOLEAN : /\ disconnected' = (disconnected \/ gone)
                                  /\ abandoned' = (abandoned \/ gone)
      BY <1>3 DEF ReadDisconnect, TypeOK
    <2>2. TypeOK'
      BY <1>3, <2>1 DEF ReadDisconnect, Settle, TypeOK
    <2>3. AppInv' /\ OwnerInv' /\ AbandonInv'
      BY <1>3, <2>1 DEF ReadDisconnect, TypeOK, AppInv, OwnerInv, AbandonInv, Suppressed,
                        CancelSparesMutation, OutlivingWorkIsAbandoned
    <2> QED BY <1>3, <2>2, <2>3, SameWire, SameOutcome DEF ReadDisconnect
  <1>4. CASE Drain
    <2>1. TypeOK' /\ AppInv' /\ OwnerInv' /\ AbandonInv'
      BY <1>4 DEF Drain, TypeOK, AppInv, OwnerInv, AbandonInv, Suppressed,
                  CancelSparesMutation, OutlivingWorkIsAbandoned
    <2> QED BY <1>4, <2>1, SameWire, SameOutcome DEF Drain
  <1> QED BY <1>1, <1>2, <1>3, <1>4 DEF Reader

-----------------------------------------------------------------------------
(* The work task. *)

\* Steps of the work that begin no response and send nothing.
LEMMA QuietWorkStep ==
    ASSUME Inv,
           \/ Receive \/ GetMessage \/ BodyTimeout \/ HearDisconnect \/ Committed
           \/ SendPart \/ SendLast \/ Finish \/ DeliverCancel
    PROVE  Inv'
  <1> USE MessagesAssumption DEF Inv, flags, client, owning, outside
  <1>1. /\ UNCHANGED <<owner, wire, outcome, started, completed>>
        /\ UNCHANGED <<closed, disconnected, headers, owns>>
    BY DEF Receive, GetMessage, BodyTimeout, HearDisconnect, Committed, SendPart,
           SendLast, Finish, DeliverCancel
  <1>2. work' \in WorkStates
    BY DEF Receive, GetMessage, BodyTimeout, HearDisconnect, Committed, SendPart,
           SendLast, Finish, DeliverCancel, Unwind, Back, WorkStates, InSend, Ended,
           TypeOK
  <1>3. TypeOK'
    <2>1. CASE Receive \/ HearDisconnect \/ Committed \/ SendPart \/ SendLast \/ Finish
      BY <1>1, <1>2, <2>1 DEF Receive, HearDisconnect, Committed, SendPart, SendLast,
                              Finish, TypeOK
    <2>2. CASE GetMessage
      BY <1>1, <1>2, <2>2 DEF GetMessage, TypeOK
    <2>3. CASE BodyTimeout
      BY <1>1, <1>2, <2>3 DEF BodyTimeout, TypeOK
    <2>4. CASE DeliverCancel
      <3>1. /\ workCancel' \in BOOLEAN
            /\ UNCHANGED <<owning, cancelledWork, clock, drained, client, flags, wire,
                           outcome>>
        BY <2>4 DEF DeliverCancel
      <3> QED BY <1>2, <3>1 DEF TypeOK
    <2> QED BY <2>1, <2>2, <2>3, <2>4
  <1>4. AppInv'
    <2>1. CASE Receive
      BY <1>1, <2>1 DEF Receive, Runs, AppInv, InSend, Ended, Suppressed, TypeOK
    <2>2. CASE GetMessage \/ HearDisconnect
      BY <1>1, <2>2 DEF GetMessage, HearDisconnect, Runs, Back, AppInv, InSend, Ended,
                        Suppressed, TypeOK
    <2>3. CASE BodyTimeout \/ DeliverCancel
      BY <1>1, <2>3 DEF BodyTimeout, DeliverCancel, Runs, Unwind, Back, AppInv, InSend,
                        Ended, Suppressed, TypeOK
    <2>4. CASE Committed \/ Finish
      BY <1>1, <2>4 DEF Committed, Finish, Runs, AppInv, InSend, Ended, Suppressed, TypeOK
    <2>5. CASE SendPart \/ SendLast
      BY <1>1, <2>5 DEF SendPart, SendLast, Runs, AppInv, InSend, Ended, Suppressed, TypeOK
    <2> QED BY <2>1, <2>2, <2>3, <2>4, <2>5
  <1>5. OwnerInv'
    BY <1>1 DEF OwnerInv
  <1>6. AbandonInv'
    <2>1. abandoned => abandoned'
      BY DEF Receive, GetMessage, BodyTimeout, HearDisconnect, Committed, SendPart,
             SendLast, Finish, DeliverCancel
    <2>2. timeoutDetail' = timeoutDetail \/ abandoned'
      BY DEF Receive, GetMessage, BodyTimeout, HearDisconnect, Committed, SendPart,
             SendLast, Finish, DeliverCancel
    <2>3. cancelledWork' = cancelledWork /\ (work \in Ended => work' \in Ended)
      BY DEF Receive, GetMessage, BodyTimeout, HearDisconnect, Committed, SendPart,
             SendLast, Finish, DeliverCancel, Runs, Ended
    <2> QED BY <1>1, <2>1, <2>2, <2>3
        DEF AbandonInv, CancelSparesMutation, OutlivingWorkIsAbandoned
  <1> QED BY <1>1, <1>3, <1>4, <1>5, <1>6, SameWire, SameOutcome

\* A call of send() with the first message; it is dropped unless the response
\* may still be begun.
LEMMA StartCalled ==
    ASSUME Inv, work \notin Ended, ~headers, CallStart,
           abandoned' \in BOOLEAN, abandoned => abandoned',
           UNCHANGED <<outside, client, bodyComplete, closed, disconnected,
                       completed, timeoutDetail, owns, wire, outcome>>
    PROVE  Inv'
  <1> USE DEF Inv, client, owning, outside
  <1>1. work' \in {"body", "head"} /\ started' \in BOOLEAN /\ headers' = TRUE
    BY DEF CallStart, TypeOK
  <1>2. TypeOK'
    BY <1>1 DEF TypeOK, WorkStates, InSend
  <1>3. ~started /\ ~completed
    BY DEF AppInv, TypeOK
  <1>4. started' <=> ~Suppressed
    BY <1>3 DEF CallStart, TypeOK
  <1>5. ~Suppressed => owner \in {"wait", "join"} /\ wire = <<>>
    BY <1>3 DEF Suppressed, OwnerInv, WireInv, TypeOK
  <1>6. AppInv'
    BY <1>1, <1>3, <1>4, <1>5 DEF CallStart, AppInv, InSend, Ended, Suppressed, TypeOK
  <1>7. OwnerInv'
    BY <1>4, <1>5 DEF OwnerInv
  <1>8. AbandonInv'
    BY DEF AbandonInv, CancelSparesMutation, OutlivingWorkIsAbandoned
  <1>9. WireInv'
    <2>1. CASE Suppressed
      BY <1>3, <1>4, <2>1 DEF WireInv, OneResponse
    <2>2. CASE ~Suppressed
      <3>1. wire' = <<>> /\ owner' \notin {"end408", "end500"} /\ started'
        BY <1>4, <1>5, <2>2
      <3> QED BY <3>1 DEF WireInv, OneResponse
    <2> QED BY <2>1, <2>2
  <1>10. OutcomeIsTrue'
    BY DEF OutcomeIsTrue
  <1> QED BY <1>2, <1>6, <1>7, <1>8, <1>9, <1>10

\* Steps of the work that may begin a response.
LEMMA AnswerStep ==
    ASSUME Inv, BeginMutation \/ DecideCommit \/ WorkRaises \/ Respond
    PROVE  Inv'
  <1> USE DEF Inv, client, owning, outside
  <1>1. ASSUME ~headers, work \notin Ended, Respond \/ (WorkRaises /\ ~headers)
        PROVE  Inv'
    BY <1>1, StartCalled DEF Respond, WorkRaises, Raise, TypeOK
  <1>2. CASE WorkRaises /\ headers
    <2>1. /\ work' = "failed" /\ work \notin Ended
          /\ UNCHANGED <<outside, client, bodyComplete, closed, disconnected, completed,
                         timeoutDetail, abandoned, owns, wire, outcome, headers, started>>
      BY <1>2 DEF WorkRaises, Raise, Runs, Ended
    <2>2. TypeOK' /\ OwnerInv'
      BY <2>1 DEF TypeOK, OwnerInv, WorkStates, Ended
    <2>3. AppInv'
      BY <2>1 DEF AppInv, InSend, Ended, Suppressed
    <2>4. AbandonInv'
      BY <2>1 DEF AbandonInv, CancelSparesMutation, OutlivingWorkIsAbandoned, Ended
    <2> QED BY <2>1, <2>2, <2>3, <2>4, SameWire, SameOutcome
  <1>3. CASE WorkRaises /\ ~headers
    BY <1>1, <1>3 DEF WorkRaises, Runs, Ended
  <1>4. CASE Respond
    BY <1>1, <1>4 DEF Respond, Runs, Ended
  <1>5. CASE (BeginMutation \/ DecideCommit) /\ ~Active
    <2>1. /\ work \notin Ended /\ ~headers /\ CallStart /\ abandoned' = TRUE
          /\ UNCHANGED <<outside, client, bodyComplete, closed, disconnected,
                         completed, timeoutDetail, owns, wire, outcome>>
      BY <1>5 DEF BeginMutation, DecideCommit, Runs, Ended, AppInv
    <2> QED BY <2>1, StartCalled
  <1>6. CASE (BeginMutation \/ DecideCommit) /\ Active
    <2>1. /\ ~abandoned /\ ~headers /\ work \notin Ended
          /\ work' \in {"mutate", "commit"} /\ owns' \in BOOLEAN
          /\ UNCHANGED <<outside, client, bodyComplete, closed, disconnected, completed,
                         timeoutDetail, abandoned, wire, outcome, headers, started>>
      BY <1>6 DEF BeginMutation, DecideCommit, Runs, Active, Ended, AppInv, TypeOK
    <2>2. TypeOK' /\ OwnerInv'
      BY <2>1 DEF TypeOK, OwnerInv, WorkStates
    <2>3. ~completed /\ ~started
      BY <2>1 DEF AppInv, TypeOK
    <2>4. AppInv'
      BY <2>1, <2>3 DEF AppInv, InSend, Ended, Suppressed
    <2>5. AbandonInv'
      BY <2>1 DEF AbandonInv, CancelSparesMutation, OutlivingWorkIsAbandoned, Ended
    <2> QED BY <2>1, <2>2, <2>4, <2>5, SameWire, SameOutcome
  <1> QED BY <1>2, <1>3, <1>4, <1>5, <1>6 DEF TypeOK

\* The server accepts a message of the application, or its send breaks.
LEMMA SendStep == ASSUME Inv, SendAccepted \/ SendBroken PROVE Inv'
  <1> USE DEF Inv, client, owning, outside
  <1>1. CASE SendBroken
    <2>1. /\ work \notin Ended /\ work' = "failed" /\ abandoned' = TRUE
          /\ started /\ disconnected' = TRUE
          /\ Settle("aborted")
          /\ UNCHANGED <<outside, client, bodyComplete, started, closed, completed,
                         timeoutDetail, owns, headers, wire>>
      BY <1>1 DEF SendBroken, Runs, InSend, Ended, AppInv
    <2>2. TypeOK' /\ OwnerInv'
      BY <2>1 DEF TypeOK, OwnerInv, WorkStates, Ended, Settle
    <2>3. AppInv'
      BY <2>1 DEF AppInv, InSend, Ended, Suppressed
    <2>4. AbandonInv'
      BY <2>1 DEF AbandonInv, CancelSparesMutation, OutlivingWorkIsAbandoned, Ended
    <2> QED BY <2>1, <2>2, <2>3, <2>4, SameWire, SameOutcome
  <1>2. CASE SendAccepted
    <2>1. /\ work \in InSend /\ started /\ headers /\ ~completed
          /\ work' \in {"body", "after"} /\ completed' \in BOOLEAN
          /\ outcome' \in {"none", "completed", "aborted"}
          /\ UNCHANGED <<outside, client, bodyComplete, started, closed,
                         disconnected, timeoutDetail, abandoned, owns, headers>>
      BY <1>2 DEF SendAccepted, Settle, Runs, InSend, Ended, AppInv, TypeOK
    <2>2. \A i \in DOMAIN wire : wire[i][1] = "app" /\ wire[i][2] # "end"
      BY <2>1 DEF WireInv
    <2>3. "app" \in Sources
      BY DEF Sources
    <2>4. wire = <<>> \/ wire[Len(wire)][2] # "end"
      BY <2>2 DEF TypeOK
    <2>5. outcome # "completed"
      BY <2>4 DEF OutcomeIsTrue
    <2>6. owner \notin {"send408", "end408", "send500", "end500"}
      BY <2>1 DEF OwnerInv
    <2>7. CASE work = "head"
      <3>1. /\ wire = <<>> /\ wire' = Append(wire, <<"app", "start">>)
            /\ work' = "body" /\ UNCHANGED <<completed, outcome>>
        BY <1>2, <2>7 DEF SendAccepted, Runs, AppInv
      <3>2. /\ wire' \in Wire /\ OneResponse' /\ wire' # <<>>
            /\ \A i \in DOMAIN wire' : wire'[i] = <<"app", "start">>
        BY <2>3, <3>1, FirstMessage
      <3>3. \A i \in DOMAIN wire' : wire'[i][1] = "app" /\ wire'[i][2] # "end"
        BY <3>2
      <3>4. TypeOK'
        BY <2>1, <3>1, <3>2 DEF TypeOK, WorkStates, Wire
      <3>5. AppInv' /\ OwnerInv' /\ AbandonInv'
        BY <2>1, <3>1, <3>2 DEF AppInv, OwnerInv, AbandonInv, InSend, Ended, Suppressed,
                                CancelSparesMutation, OutlivingWorkIsAbandoned
      <3>6. WireInv'
        BY <2>1, <2>6, <3>2, <3>3 DEF WireInv
      <3>7. OutcomeIsTrue'
        BY <2>1, <2>5, <3>1 DEF OutcomeIsTrue
      <3> QED BY <3>4, <3>5, <3>6, <3>7
    <2>8. ASSUME NEW k \in {"part", "end"}, wire # <<>>, wire' = Append(wire, <<"app", k>>),
                 k = "part" => work' = "body" /\ UNCHANGED <<completed, outcome>>,
                 k = "end" => work' = "after" /\ completed' = TRUE /\ Settle("completed")
          PROVE  Inv'
      <3>1. /\ wire' \in Wire /\ OneResponse' /\ wire' # <<>>
            /\ wire'[Len(wire')][2] = k
            /\ \A i \in DOMAIN wire' : wire'[i][1] = "app"
            /\ k = "part" => \A i \in DOMAIN wire' : wire'[i][2] # "end"
        BY <2>2, <2>3, <2>8, NextMessage DEF WireInv
      <3>2. TypeOK'
        BY <2>1, <3>1 DEF TypeOK, WorkStates, Wire
      <3>3. AppInv' /\ OwnerInv' /\ AbandonInv'
        BY <2>1, <2>8, <3>1 DEF AppInv, OwnerInv, AbandonInv, InSend, Ended, Suppressed,
                                CancelSparesMutation, OutlivingWorkIsAbandoned
      <3>4. WireInv'
        BY <2>1, <2>6, <2>8, <3>1 DEF WireInv
      <3>5. OutcomeIsTrue'
        BY <2>1, <2>5, <2>8, <3>1 DEF OutcomeIsTrue, Settle
      <3> QED BY <3>2, <3>3, <3>4, <3>5
    <2>9. CASE work \in {"chunk", "tail"}
      BY <1>2, <2>8, <2>9 DEF SendAccepted, Runs, AppInv
    <2> QED BY <2>1, <2>7, <2>9 DEF InSend
  <1> QED BY <1>1, <1>2

-----------------------------------------------------------------------------
(* The owner. *)

\* CancelWork asks only unfinished work to stop.
LEMMA Cancelled ==
    ASSUME Inv, NEW asked \in BOOLEAN, CancelWork(asked), asked => ~owns,
           abandoned' \in BOOLEAN, abandoned => abandoned',
           work \notin Ended => abandoned', owns' = owns
    PROVE  /\ workCancel' \in BOOLEAN /\ cancelledWork' \in BOOLEAN
           /\ cancelledWork' => abandoned' /\ ~owns'
  BY DEF Inv, TypeOK, CancelWork, AbandonInv, CancelSparesMutation

\* What run()'s finally leaves behind, whatever was sent before it.
LEMMA FinallyStep ==
    ASSUME Inv, NEW next \in {"over", "unwind"}, NEW asks \in BOOLEAN,
           Finally(next, asks), ownerCancel' \in BOOLEAN,
           UNCHANGED <<work, upload, queued, bodyComplete, started, disconnected,
                       completed, timeoutDetail, owns, headers, clock, drained>>,
           wire' = wire \/ (wire' \in Wire /\ ~started),
           outcome' \in {"none", "completed", "aborted"}
    PROVE  TypeOK' /\ AppInv' /\ OwnerInv' /\ AbandonInv'
  <1> USE DEF Inv
  <1>1. PICK asked \in BOOLEAN : asked = (~owns /\ (asks \/ ~Cancelling))
    BY DEF TypeOK, Cancelling
  <1>2. /\ abandoned' = (abandoned \/ work \notin Ended) /\ closed' = TRUE
        /\ owner' = next /\ CancelWork(asked)
        /\ reader' \in {"stopped", "failed"}
    BY <1>1 DEF Finally, TypeOK
  <1>3. /\ workCancel' \in BOOLEAN /\ cancelledWork' \in BOOLEAN
        /\ cancelledWork' => abandoned' /\ ~owns'
    BY <1>1, <1>2, Cancelled DEF TypeOK
  <1>4. TypeOK'
    <2>1. wire' \in Seq(Sources \X {"start", "part", "end"})
      BY DEF TypeOK, Wire
    <2> QED BY <1>2, <1>3, <2>1 DEF TypeOK, OwnerStates
  <1>5. AppInv'
    BY <1>2 DEF AppInv, InSend, Ended, Suppressed, TypeOK
  <1>6. OwnerInv'
    BY <1>2 DEF OwnerInv
  <1>7. AbandonInv'
    BY <1>2, <1>3 DEF AbandonInv, CancelSparesMutation, OutlivingWorkIsAbandoned, TypeOK
  <1> QED BY <1>4, <1>5, <1>6, <1>7

\* The owner leaves run(), or the error layer, without another message.
LEMMA QuietEnd ==
    ASSUME Inv, wire' = wire, started' = started, completed' = completed,
           \/ owner' = "over" /\ Settle("aborted")
           \/ /\ owner' = "unwind" /\ owner \in {"wait", "join"}
              /\ outcome' = outcome \/ Settle("aborted")
    PROVE  WireInv' /\ OutcomeIsTrue' /\ outcome' \in {"none", "completed", "aborted"}
  <1>1. OutcomeIsTrue' /\ outcome' \in {"none", "completed", "aborted"}
    BY DEF Inv, OutcomeIsTrue, Settle, TypeOK
  <1>2. WireInv'
    BY DEF Inv, WireInv, OneResponse
  <1> QED BY <1>1, <1>2

LEMMA WakeStep ==
    ASSUME Inv, WakeCompleted \/ WakeDisconnected \/ WakeExpired \/ WakeSettled
    PROVE  Inv'
  <1> USE DEF Inv
  <1>1. owner = "wait"
    BY DEF WakeCompleted, WakeDisconnected, WakeExpired, WakeSettled, Wakes
  <1>2. ASSUME owner' = "join",
               UNCHANGED <<ownerCancel, work, workCancel, cancelledWork, client, flags,
                           clock, wire, outcome, drained>>
        PROVE  Inv'
    <2> USE <1>2 DEF client, flags
    <2>1. TypeOK' /\ OwnerInv'
      BY DEF TypeOK, OwnerInv, OwnerStates
    <2>2. AppInv' /\ AbandonInv'
      BY DEF AppInv, AbandonInv, Suppressed, CancelSparesMutation,
             OutlivingWorkIsAbandoned
    <2>3. WireInv' /\ OutcomeIsTrue'
      BY <1>1 DEF WireInv, OneResponse, OutcomeIsTrue
    <2> QED BY <2>1, <2>2, <2>3
  <1>3. ASSUME NEW next \in {"over", "unwind"}, NEW asks \in BOOLEAN, Finally(next, asks),
               UNCHANGED <<ownerCancel, work, upload, queued, bodyComplete, started,
                           disconnected, completed, timeoutDetail, owns, headers,
                           clock, wire, drained>>,
               \/ next = "unwind" /\ (outcome' = outcome \/ Settle("aborted"))
               \/ next = "over" /\ Settle("aborted")
        PROVE  Inv'
    <2>1. owner' = next
      BY <1>3 DEF Finally
    <2>2. WireInv' /\ OutcomeIsTrue' /\ outcome' \in {"none", "completed", "aborted"}
      BY <1>1, <1>3, <2>1, QuietEnd
    <2>3. ownerCancel' \in BOOLEAN
      BY <1>3 DEF TypeOK
    <2> QED BY <1>3, <2>2, <2>3, FinallyStep
  <1>4. CASE WakeCompleted
    BY <1>2, <1>4 DEF WakeCompleted
  <1>5. CASE WakeDisconnected
    BY <1>3, <1>5 DEF WakeDisconnected
  <1>6. CASE WakeExpired /\ started
    BY <1>3, <1>6 DEF WakeExpired
  <1>7. CASE WakeExpired /\ ~started
    <2> USE <1>7 DEF WakeExpired
    <2>1. PICK asked \in BOOLEAN : asked = ~owns
      BY DEF TypeOK
    <2>2. /\ workCancel' \in BOOLEAN /\ cancelledWork' \in BOOLEAN
          /\ cancelledWork' => abandoned' /\ ~owns'
      BY <2>1, Cancelled DEF TypeOK
    <2>3. TypeOK' /\ OwnerInv'
      BY <2>2 DEF TypeOK, OwnerInv, OwnerStates
    <2>4. AppInv'
      BY DEF AppInv, InSend, Ended, Suppressed
    <2>5. AbandonInv'
      BY <2>2 DEF AbandonInv, CancelSparesMutation, OutlivingWorkIsAbandoned
    <2>6. WireInv' /\ OutcomeIsTrue'
      BY <1>1 DEF WireInv, OneResponse, OutcomeIsTrue
    <2> QED BY <2>3, <2>4, <2>5, <2>6
  <1>8. CASE WakeSettled /\ reader = "failed"
    BY <1>3, <1>8 DEF WakeSettled
  <1>9. CASE WakeSettled /\ reader # "failed"
    BY <1>2, <1>9 DEF WakeSettled, client, flags
  <1> QED BY <1>4, <1>5, <1>6, <1>7, <1>8, <1>9 DEF TypeOK

LEMMA JoinStep == ASSUME Inv, Join PROVE Inv'
  <1> USE DEF Inv
  <1>1. PICK next \in {"over", "unwind"} :
           /\ Finally(next, FALSE)
           /\ next = "unwind" => outcome' = outcome
           /\ next = "over" => Settle("aborted")
    BY DEF Join
  <1>2. /\ owner = "join" /\ owner' = next
        /\ UNCHANGED <<ownerCancel, work, upload, queued, bodyComplete, started,
                       disconnected, completed, timeoutDetail, owns, headers, clock,
                       wire, drained>>
    BY <1>1 DEF Join, Finally
  <1>3. WireInv' /\ OutcomeIsTrue' /\ outcome' \in {"none", "completed", "aborted"}
    BY <1>1, <1>2, QuietEnd
  <1>4. ownerCancel' \in BOOLEAN
    BY <1>2 DEF TypeOK
  <1> QED BY <1>1, <1>2, <1>3, <1>4, FinallyStep

\* The second message of an answer that is not the application's.
LEMMA LastMessage ==
    ASSUME TypeOK, NEW s \in Sources, wire = << <<s, "start">> >>,
           wire' = Append(wire, <<s, "end">>), Settle("completed")
    PROVE  /\ wire' \in Wire /\ OneResponse'
           /\ outcome' \in {"completed", "aborted"}
           /\ OutcomeIsTrue'
  <1>1. /\ wire # <<>> /\ OneResponse
        /\ \A i \in DOMAIN wire : wire[i][1] = s /\ wire[i][2] # "end"
    <2>1. Len(wire) = 1 /\ DOMAIN wire = {1} /\ wire[1] = <<s, "start">>
      OBVIOUS
    <2> QED BY <2>1 DEF OneResponse
  <1>2. PICK k \in {"part", "end"} : k = "end"
    OBVIOUS
  <1>3. /\ wire' \in Wire /\ OneResponse' /\ wire' # <<>>
        /\ wire'[Len(wire')][2] = "end"
    BY <1>1, <1>2, NextMessage
  <1>4. outcome' \in {"completed", "aborted"}
    BY DEF Settle, TypeOK
  <1> QED BY <1>3, <1>4 DEF OutcomeIsTrue

LEMMA Send408Step == ASSUME Inv, Send408 PROVE Inv'
  <1> USE DEF Inv
  <1>1. owner \in {"send408", "end408"} /\ ~started /\ closed
    BY DEF Send408, OwnerInv
  <1>2. "deadline" \in Sources
    BY DEF Sources
  <1>3. CASE owner' = "end408"
    <2>1. /\ owner = "send408" /\ wire = <<>>
          /\ wire' = Append(wire, <<"deadline", "start">>)
          /\ UNCHANGED <<workCancel, cancelledWork, reader, closed, abandoned, outcome>>
          /\ UNCHANGED <<ownerCancel, work, upload, queued, bodyComplete, started,
                         disconnected, completed, timeoutDetail, owns, headers, clock,
                         drained>>
      BY <1>1, <1>3 DEF Send408, Finally, WireInv
    <2>2. wire' \in Wire /\ OneResponse' /\ wire' = << <<"deadline", "start">> >>
      BY <1>2, <2>1, FirstMessage
    <2>3. TypeOK' /\ OwnerInv'
      BY <1>1, <1>3, <2>1, <2>2 DEF TypeOK, OwnerInv, OwnerStates, Wire
    <2>4. AppInv'
      BY <1>1, <2>1 DEF AppInv, InSend, Ended, Suppressed, TypeOK
    <2>5. AbandonInv' /\ outcome # "completed"
      BY <2>1 DEF AbandonInv, CancelSparesMutation, OutlivingWorkIsAbandoned, OutcomeIsTrue
    <2>6. WireInv' /\ OutcomeIsTrue'
      BY <1>1, <1>3, <2>1, <2>2, <2>5 DEF WireInv, OutcomeIsTrue
    <2> QED BY <2>3, <2>4, <2>5, <2>6
  <1>4. CASE owner' # "end408"
    <2>1. /\ Finally("over", FALSE)
          /\ UNCHANGED <<ownerCancel, work, upload, queued, bodyComplete, started,
                         disconnected, completed, timeoutDetail, owns, headers, clock,
                         drained>>
          /\ \/ wire' = wire /\ Settle("aborted")
             \/ /\ wire = << <<"deadline", "start">> >>
                /\ wire' = Append(wire, <<"deadline", "end">>) /\ Settle("completed")
      BY <1>1, <1>4 DEF Send408, WireInv
    <2>2. owner' = "over" /\ ownerCancel' \in BOOLEAN
      BY <2>1 DEF Finally, TypeOK
    <2>3. CASE wire' = wire /\ Settle("aborted")
      <3>1. WireInv' /\ OutcomeIsTrue' /\ outcome' \in {"none", "completed", "aborted"}
        BY <2>1, <2>2, <2>3, QuietEnd
      <3> QED BY <2>1, <2>2, <2>3, <3>1, FinallyStep
    <2>4. CASE /\ wire = << <<"deadline", "start">> >>
               /\ wire' = Append(wire, <<"deadline", "end">>) /\ Settle("completed")
      <3>1. /\ wire' \in Wire /\ OneResponse' /\ OutcomeIsTrue'
            /\ outcome' \in {"completed", "aborted"}
        BY <1>2, <2>4, LastMessage
      <3>2. WireInv'
        BY <1>1, <2>1, <2>2, <3>1 DEF WireInv
      <3> QED BY <1>1, <2>1, <2>2, <3>1, <3>2, FinallyStep
    <2> QED BY <2>1, <2>3, <2>4
  <1> QED BY <1>3, <1>4

\* Steps of the error layer: run() has gone and only the owner moves.
LEMMA ErrorStep == ASSUME Inv, HandleError \/ Send500 PROVE Inv'
  <1> USE DEF Inv
  <1>1. /\ owner \in {"unwind", "send500", "end500"} /\ closed
        /\ owner \in {"send500", "end500"} => ~started
        /\ owner' \in {"over", "send500", "end500"}
        /\ owner' \in {"send500", "end500"} => ~started
        /\ UNCHANGED <<ownerCancel, work, workCancel, cancelledWork, client, flags,
                       clock, drained>>
    BY DEF HandleError, Send500, OwnerInv, TypeOK
  <1> USE <1>1 DEF client, flags
  <1>2. "outer" \in Sources
    BY DEF Sources
  <1>3. /\ wire' \in Wire /\ WireInv' /\ OutcomeIsTrue'
        /\ wire' = wire \/ ~started
        /\ outcome' \in {"none", "completed", "aborted"}
    <2>1. CASE owner' = "over" /\ wire' = wire /\ Settle("aborted")
      BY <2>1, QuietEnd DEF TypeOK, Wire
    <2>2. CASE owner' = "send500" /\ owner = "unwind" /\ UNCHANGED <<wire, outcome>>
      <3>1. WireInv'
        BY <2>2 DEF WireInv, OneResponse
      <3> QED BY <2>2, <3>1 DEF TypeOK, Wire, OutcomeIsTrue
    <2>3. CASE /\ owner' = "end500" /\ owner = "send500" /\ outcome' = outcome
               /\ wire' = Append(wire, <<"outer", "start">>)
      <3>1. wire = <<>> /\ outcome # "completed"
        BY <2>3 DEF WireInv, OutcomeIsTrue
      <3>2. wire' \in Wire /\ OneResponse' /\ wire' = << <<"outer", "start">> >>
        BY <1>2, <2>3, <3>1, FirstMessage
      <3>3. WireInv'
        BY <2>3, <3>2 DEF WireInv
      <3> QED BY <2>3, <3>1, <3>2, <3>3 DEF TypeOK, OutcomeIsTrue
    <2>4. CASE /\ owner' = "over" /\ owner = "end500" /\ Settle("completed")
               /\ wire' = Append(wire, <<"outer", "end">>)
      <3>1. wire = << <<"outer", "start">> >>
        BY <2>4 DEF WireInv
      <3>2. /\ wire' \in Wire /\ OneResponse' /\ OutcomeIsTrue'
            /\ outcome' \in {"completed", "aborted"}
        BY <1>2, <2>4, <3>1, LastMessage
      <3>3. WireInv'
        BY <2>4, <3>2 DEF WireInv
      <3> QED BY <2>4, <3>2, <3>3
    <2> QED BY <2>1, <2>2, <2>3, <2>4 DEF HandleError, Send500
  <1>4. TypeOK' /\ OwnerInv'
    BY <1>3 DEF TypeOK, OwnerInv, OwnerStates, Wire
  <1>5. AppInv'
    BY <1>3 DEF AppInv, InSend, Ended, Suppressed, TypeOK
  <1>6. AbandonInv'
    BY DEF AbandonInv, CancelSparesMutation, OutlivingWorkIsAbandoned
  <1> QED BY <1>3, <1>4, <1>5, <1>6

LEMMA OwnerCancelledStep == ASSUME Inv, OwnerCancelled PROVE Inv'
  <1> USE DEF Inv
  <1>1. /\ owner' = "over" /\ Settle("aborted") /\ ownerCancel' \in BOOLEAN
        /\ UNCHANGED <<work, upload, queued, bodyComplete, started, disconnected,
                       completed, timeoutDetail, owns, headers, clock, wire, drained>>
    BY DEF OwnerCancelled, Finally
  <1>2. WireInv' /\ OutcomeIsTrue' /\ outcome' \in {"none", "completed", "aborted"}
    BY <1>1, QuietEnd
  <1>3. CASE owner \in {"wait", "join", "send408", "end408"}
    <2>1. Finally("over", FALSE)
      BY <1>3 DEF OwnerCancelled
    <2> QED BY <1>1, <1>2, <2>1, FinallyStep
  <1>4. CASE owner \notin {"wait", "join", "send408", "end408"}
    <2>1. closed /\ UNCHANGED <<closed, abandoned, workCancel, cancelledWork, reader>>
      BY <1>4 DEF OwnerCancelled, OwnerInv
    <2>2. TypeOK'
      BY <1>1, <1>2, <2>1 DEF TypeOK, OwnerStates
    <2>3. OwnerInv'
      BY <1>1, <2>1 DEF OwnerInv
    <2>4. AppInv' /\ AbandonInv'
      BY <1>1, <2>1 DEF AppInv, AbandonInv, Suppressed, CancelSparesMutation,
                        OutlivingWorkIsAbandoned
    <2> QED BY <1>2, <2>2, <2>3, <2>4
  <1> QED BY <1>3, <1>4

-----------------------------------------------------------------------------
(* The theorems. *)
LEMMA InductiveStep == Inv /\ [Next]_vars => Inv'
  <1> SUFFICES ASSUME Inv, [Next]_vars PROVE Inv'
    OBVIOUS
  <1>1. CASE Tick \/ Reader \/ Drain
    BY <1>1, OutsideStep
  <1>2. CASE Work
    BY <1>2, QuietWorkStep, AnswerStep, SendStep DEF Work
  <1>3. CASE Owner
    BY <1>3, WakeStep, JoinStep, Send408Step, ErrorStep, OwnerCancelledStep DEF Owner
  <1>4. CASE UNCHANGED vars
    <2> USE <1>4 DEF vars, flags
    <2>1. TypeOK'
      BY DEF Inv, TypeOK
    <2>2. AppInv' /\ OwnerInv' /\ AbandonInv'
      BY DEF Inv, AppInv, OwnerInv, AbandonInv, Suppressed, CancelSparesMutation,
             OutlivingWorkIsAbandoned
    <2>3. WireInv' /\ OutcomeIsTrue'
      BY DEF Inv, WireInv, OneResponse, OutcomeIsTrue
    <2> QED BY <2>1, <2>2, <2>3 DEF Inv
  <1> QED BY <1>1, <1>2, <1>3, <1>4 DEF Next

\* Every reachable state satisfies the inductive invariant: who has closed,
\* begun and written what, in every interleaving of run(), the work, the
\* reader, the timer and the drain (request_timeout.py 100-265).
THEOREM Invariance == Spec => []Inv
  <1>1. Init => Inv
    BY Initial
  <1>2. Inv /\ [Next]_vars => Inv'
    BY InductiveStep
  <1> QED BY <1>1, <1>2, PTL DEF Spec

\* The client is answered once, by one writer, and the queue of body messages
\* keeps to its one place, however long the body and the response are
\* (request_timeout.py 111, 158, 224-246).
THEOREM OneAnswer == Spec => []ResponseIsSound
  <1>1. Inv => ResponseIsSound
    BY DEF Inv, WireInv, ResponseIsSound
  <1> QED BY <1>1, Invariance, PTL

\* The observation behind logs and metrics is settled when the request is
\* over and calls only a finished response completed (request_outcome.py
\* 92-171).
THEOREM TrueOutcome == Spec => []OutcomeIsTrue
  <1>1. Inv => OutcomeIsTrue
    BY DEF Inv
  <1> QED BY <1>1, Invariance, PTL

\* run() cancels no work that owns a mutation, also none that takes one after
\* the cancellation (request_timeout.py 222, 229, 258-263).
THEOREM MutationIsSpared == Spec => []CancelSparesMutation
  <1>1. Inv => CancelSparesMutation
    BY DEF Inv, AbandonInv
  <1> QED BY <1>1, Invariance, PTL

\* Work that outlives its response has been abandoned, so that its next
\* assert_active refuses (request_timeout.py 228, 255).
THEOREM OutlivingIsAbandoned == Spec => []OutlivingWorkIsAbandoned
  <1>1. Inv => OutlivingWorkIsAbandoned
    BY DEF Inv, AbandonInv
  <1> QED BY <1>1, Invariance, PTL

\* A step takes the work to its COMMIT only when nothing has closed,
\* disconnected or timed out the response: assert_active, the last thing
\* before the commit, sees every one of them as an abandoned request.
THEOREM OpenCommit == Spec => CommitOnlyWhileOpen
  <1> DEFINE OpenStep == work # "commit" /\ work' = "commit"
                            => ~closed /\ ~disconnected /\ ~timeoutDetail
  <1>1. Inv /\ [Next]_vars => [OpenStep]_vars
    <2> SUFFICES ASSUME Inv, Next, work # "commit", work' = "commit"
                 PROVE  ~closed /\ ~disconnected /\ ~timeoutDetail
      BY DEF vars
    <2>1. DecideCommit /\ Active
      <3>1. CASE Tick \/ Reader \/ Owner \/ Drain
        BY <3>1 DEF Tick, Reader, ReadMessage, PutMessage, ReadDisconnect, ReadFails,
             Owner, WakeCompleted, WakeDisconnected, WakeExpired, WakeSettled, Join,
             Send408, HandleError, Send500, OwnerCancelled, Drain
      <3>2. CASE Work
        BY <3>2 DEF Work, Receive, GetMessage, BodyTimeout, HearDisconnect,
             BeginMutation, DecideCommit, Committed, WorkRaises, Respond, SendPart,
             SendLast, SendAccepted, SendBroken, Finish, DeliverCancel, Unwind, Back,
             CallStart, Raise
      <3> QED BY <3>1, <3>2 DEF Next
    <2>2. work \notin Ended /\ ~abandoned
      BY <2>1 DEF DecideCommit, Runs, Active, Ended
    <2> QED BY <2>2 DEF Inv, AbandonInv, OutlivingWorkIsAbandoned
  <1>2. []Inv /\ [][Next]_vars => [][OpenStep]_vars
    BY <1>1, PTL
  <1> QED BY <1>2, Invariance, PTL DEF Spec, CommitOnlyWhileOpen

=============================================================================
