------------------------------- MODULE TurnClient ------------------------------
(***************************************************************************)
(* The lesson page in front of the turn service: it sends an answer and    *)
(* waits, may ask for a hint and go on answering, and takes whatever comes *)
(* back as its result (src/frontend/src/pages/Tutor.tsx, api/index.ts).    *)
(* Replies may be late or lost, also while the service goes on working.    *)
(***************************************************************************)
EXTENDS TurnService

CONSTANTS MaxCalls,     \* bound on the calls of one page
          MaxRestarts   \* bound on the restarts of the service

ASSUME ClientAssumption == MaxCalls \in Nat /\ MaxRestarts \in Nat

VARIABLES page,         \* phase, item shown, last result, whether a hint was shown
          waiting,      \* the handlers whose reply the page waits for
          calls,        \* calls made, for the bound
          disturbed     \* history: a call overlapped another, failed or was lost

vars == <<live, handler, store, past, page, waiting, calls, disturbed>>

Page == [phase : {"answering", "submitting", "feedback"}, item : Nat, result : Reply,
         hinted : BOOLEAN]

Init ==
    /\ ServiceInit
    /\ page = [phase |-> "answering", item |-> live.item, result |-> NoReply, hinted |-> FALSE]
    /\ waiting = {}
    /\ calls = 0
    /\ disturbed = FALSE

Busy == \E h \in Handlers : handler[h].stage # "free"

Call(h, call) ==
    /\ page.phase = "answering"
    /\ calls < MaxCalls
    /\ Arrive(h, call)
    /\ waiting' = waiting \cup {h}
    /\ calls' = calls + 1
    /\ disturbed' = (disturbed \/ Busy)

Submit(h) ==
    /\ Call(h, "submit")
    /\ page' = [page EXCEPT !.phase = "submitting"]

(* The page goes on answering while it waits for a hint.                   *)
AskHint(h) ==
    /\ Call(h, "hint")
    /\ UNCHANGED page

(* What the page does with a call that failed, for any reason.             *)
AfterError(call) ==
    IF call = "submit" THEN [page EXCEPT !.phase = "answering"] ELSE page

(* FAULTY: an error leaves the page waiting.                               *)
AfterReplyErrorIgnored(call, reply) ==
    CASE reply.kind = "verdict" -> [page EXCEPT !.result = reply, !.phase = "feedback"]
      [] reply.kind = "hint" -> [page EXCEPT !.result = reply, !.hinted = TRUE]
      [] OTHER -> page

(* A verdict ends the attempt; a hint becomes the result in whatever phase *)
(* it finds the page.                                                      *)
AfterReply(call, reply) ==
    CASE reply.kind = "verdict" -> [page EXCEPT !.result = reply, !.phase = "feedback"]
      [] reply.kind = "hint" -> [page EXCEPT !.result = reply, !.hinted = TRUE]
      [] OTHER -> AfterError(call)

Receive(h) ==
    /\ h \in waiting
    /\ Release(h)
    /\ page' = AfterReply(handler[h].call, handler[h].reply)
    /\ waiting' = waiting \ {h}
    /\ disturbed' = (disturbed \/ handler[h].reply.kind = "error")
    /\ UNCHANGED calls

(* The connection breaks before the request arrives.                       *)
LoseRequest(h) ==
    /\ h \in waiting
    /\ handler[h].stage = "sent"
    /\ handler' = [handler EXCEPT ![h] = Free]
    /\ page' = AfterError(handler[h].call)
    /\ waiting' = waiting \ {h}
    /\ disturbed' = TRUE
    /\ UNCHANGED <<live, store, past, calls>>

(* The connection breaks after: the handler goes on, its reply is lost.    *)
LoseReply(h) ==
    /\ h \in waiting
    /\ page' = AfterError(handler[h].call)
    /\ waiting' = waiting \ {h}
    /\ disturbed' = TRUE
    /\ UNCHANGED <<live, handler, store, past, calls>>

Discard(h) ==
    /\ h \notin waiting
    /\ Release(h)
    /\ UNCHANGED <<page, waiting, calls, disturbed>>

(* FAULTY: the hint of the last problem still counts on the next one.      *)
HandleNextKeepsHint ==
    /\ page.phase = "feedback"
    /\ page' = [page EXCEPT !.phase = "answering", !.item = page.result.next, !.result = NoReply]
    /\ UNCHANGED <<live, handler, store, past, waiting, calls, disturbed>>

HandleNext ==
    /\ page.phase = "feedback"
    /\ page' = [page EXCEPT !.phase = "answering", !.item = page.result.next,
                            !.result = NoReply, !.hinted = FALSE]
    /\ UNCHANGED <<live, handler, store, past, waiting, calls, disturbed>>

(* A restart breaks every connection.                                      *)
ServiceRestarts ==
    /\ past.restarts < MaxRestarts
    /\ Restart
    /\ page' = IF page.phase = "submitting" THEN AfterError("submit") ELSE page
    /\ waiting' = {}
    /\ disturbed' = TRUE
    /\ UNCHANGED calls

Next ==
    \/ \E h \in Handlers :
          \/ Submit(h) \/ AskHint(h) \/ Receive(h) \/ LoseRequest(h) \/ LoseReply(h) \/ Discard(h)
          \/ HandlerStep(h) /\ UNCHANGED <<page, waiting, calls, disturbed>>
    \/ HandleNext
    \/ ServiceRestarts
    \/ Resume /\ UNCHANGED <<page, waiting, calls, disturbed>>

Spec == Init /\ [][Next]_vars

(* Handlers run to their end and the network delivers or reports a failure;*)
(* nothing makes the learner or the operator act.                          *)
Fairness ==
    \A h \in Handlers :
        /\ WF_vars(HandlerStep(h) /\ UNCHANGED <<page, waiting, calls, disturbed>>)
        /\ WF_vars(Receive(h)) /\ WF_vars(Discard(h))

FairSpec == Spec /\ Fairness
--------------------------------------------------------------------------------
TypeOK ==
    /\ live \in LiveSession
    /\ live.paused = {} <=> live.kc = Goal
    /\ \A one, other \in live.paused : one = other
    /\ handler \in [Handlers -> Handler]
    /\ store \in [opened : BOOLEAN, turns : Seq(Nat), rows : [Lessons -> Row]]
    /\ past \in Past
    /\ page \in Page
    /\ waiting \subseteq Handlers
    /\ calls \in Nat /\ disturbed \in BOOLEAN

(* INVARIANT.  A lesson is stored as confirmed only when its probe was     *)
(* passed, whatever overlapped, failed or was restarted in between: the    *)
(* roll-up reads the active lesson and its confirmed set after the turn,   *)
(* when another request may have swapped both (service.py:1342).           *)
StoredWasEarned ==
    \A k \in Lessons : store.rows[k] = "confirmed" => k \in past.earned

(* INVARIANT.  Turn indexes repeat only after a write was lost: as long as *)
(* none was, a resume that counts the rows goes on where the last process  *)
(* stopped, and handlers that overlap take different indexes               *)
(* (service.py:1389, 1878).                                                *)
IndexesRepeatOnlyAfterLoss ==
    past.lost \/ \A i, j \in 1..Len(store.turns) : i # j => store.turns[i] # store.turns[j]

(* ACTION PROPERTY.  While requests do not overlap, a stored confirmation  *)
(* stays: through failed writes, nested lessons that bring a confirmed set *)
(* of their own, restarts and resumes (repositories.py:566).               *)
StoredConfirmationStays ==
    [][\A k \in Lessons :
           ~past'.overlapped /\ store.rows[k] = "confirmed" => store'.rows[k] = "confirmed"]_vars

(* INVARIANT.  While calls neither overlap nor fail, the page shows the    *)
(* item the service will judge, its feedback is a verdict, and a hint it   *)
(* counts against the answer was given for this item (Tutor.tsx:521, 578). *)
QuietPageAgrees ==
    ~disturbed =>
        /\ page.phase = "answering" /\ waiting = {} =>
               page.item = live.item /\ (page.hinted => page.result.next = page.item)
        /\ page.phase = "feedback" =>
               page.result.kind = "verdict" /\ page.result.next = live.item

(* LIVENESS.  An answer sent is followed by its verdict or by an error the *)
(* learner sees, although a write may fail at each of its steps: a failure *)
(* there never holds up the reply (service.py:1425).                       *)
EveryAnswerReturns == page.phase = "submitting" ~> page.phase # "submitting"
================================================================================
