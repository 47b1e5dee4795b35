-------------------------------- MODULE Homework -------------------------------
(***************************************************************************)
(* One homework run: the desktop that assigned it and polls for it, the    *)
(* phone that sends the photographed pages, and the service that reads a   *)
(* draft off them and grades what the learner confirms (homework/*.py,     *)
(* api/routes.py, frontend pages/Homework.tsx and HomeworkUpload.tsx).     *)
(*                                                                         *)
(* Polls are sent on a timer: several may be in flight, and one that was   *)
(* sent while the page was waiting may arrive at any time later.           *)
(***************************************************************************)
EXTENDS Naturals, FiniteSets

CONSTANTS ItemCount,           \* items of the new skill and of earlier ones
          Calls,              \* requests the desktop may have in flight
          MaxLosses,          \* bound on requests or replies that get lost
          MaxRestarts         \* bound on the restarts of the service

ASSUME HomeworkAssumption ==
    /\ ItemCount \in Nat \ {0}
    /\ IsFiniteSet(Calls)
    /\ MaxLosses \in Nat /\ MaxRestarts \in Nat

VARIABLES paper,     \* what the learner wrote for each item
          run,       \* the HwRun of the service
          phone,     \* the capture page and the scan it waits for
          desk,      \* the homework page of the desktop
          call,      \* its requests
          past       \* losses and restarts, and the history for the properties

vars == <<paper, run, phone, desk, call, past>>

(* Items of the new skill come first.  An answer is told apart by the item *)
(* it is right for; Wrong is right for none, Unread is no answer at all.   *)
Items == 1..ItemCount
Wrong == 0
Unread == ItemCount + 1
Written == {Wrong} \cup Items
Reading == [Items -> Written \cup {Unread}]
Blank == [i \in Items |-> Unread]

State == {"waiting", "ready_for_review", "graded"}
(* A verdict is the set of items answered right; {} of them: none yet.     *)
Verdicts == {{}} \cup {{right} : right \in SUBSET Items}

Run == [known : BOOLEAN, state : State, drafted : BOOLEAN, draft : Reading, result : Verdicts]
Call == [kind : {"none", "poll", "confirm"}, stage : {"free", "sent", "answered"},
         answers : Reading, ready : BOOLEAN, result : Verdicts]
FreeCall == [kind |-> "none", stage |-> "free", answers |-> Blank, ready |-> FALSE, result |-> {}]

Init ==
    /\ paper \in {[i \in Items |-> IF i \in right THEN i ELSE Wrong] : right \in SUBSET Items}
    /\ run = [known |-> TRUE, state |-> "waiting", drafted |-> FALSE, draft |-> Blank,
              result |-> {}]
    /\ phone = [page |-> "capture", scanning |-> FALSE, orphans |-> 0]
    /\ desk = [phase |-> "waiting", answers |-> Blank, shown |-> {}]
    /\ call = [c \in Calls |-> FreeCall]
    /\ past = [losses |-> 0, restarts |-> 0, confirmed |-> Blank, overlapped |-> FALSE]
--------------------------------------------------------------------------------
(* Reading and grading.                                                    *)

(* Answers are taken line by line; a line without a legible one is skipped,*)
(* and what was found is dealt out to the items in order: item n gets the  *)
(* line up to which n are legible.                                         *)
ExtractAnswers(legible) ==
    LET Line(n) == {i \in legible : Cardinality({j \in legible : j <= i}) = n}
    IN [n \in Items |-> IF Line(n) = {} THEN Unread ELSE paper[CHOOSE i \in Line(n) : TRUE]]

RightIn(answers) == {i \in Items : answers[i] = i}
--------------------------------------------------------------------------------
(* The phone.                                                              *)

Submit ==
    /\ phone.page = "capture"
    /\ phone' = [phone EXCEPT !.page = "sending", !.scanning = run.known]
    /\ UNCHANGED <<paper, run, desk, call, past>>

(* FAULTY: the run is marked for review and its draft is not kept.         *)
KeepDraftNot(draft) == [run EXCEPT !.state = "ready_for_review"]

(* FAULTY: the draft is kept and the run not marked for review.            *)
KeepDraftUnmarked(draft) == [run EXCEPT !.draft = draft, !.drafted = TRUE]

(* The draft is kept, whatever the run had come to meanwhile.              *)
KeepDraft(draft) ==
    [run EXCEPT !.draft = draft, !.drafted = TRUE, !.state = "ready_for_review"]

Scan == \E legible \in SUBSET Items : run' = KeepDraft(ExtractAnswers(legible))

Scanned ==
    /\ phone.scanning
    /\ Scan
    /\ phone' = [phone EXCEPT !.page = "sent", !.scanning = FALSE]
    /\ UNCHANGED <<paper, desk, call, past>>

(* A scan whose phone has given up waiting ends as well.                   *)
ScannedLate ==
    /\ phone.orphans > 0
    /\ Scan
    /\ phone' = [phone EXCEPT !.orphans = @ - 1]
    /\ UNCHANGED <<paper, desk, call, past>>

(* The upload fails: the token is unknown, or the connection breaks while  *)
(* the scan goes on.  The page says so and can send again.                 *)
SubmitFails ==
    /\ phone.page = "sending" /\ ~phone.scanning
    /\ phone' = [phone EXCEPT !.page = "capture"]
    /\ UNCHANGED <<paper, run, desk, call, past>>

LoseSubmit ==
    /\ phone.scanning /\ past.losses < MaxLosses
    /\ phone' = [page |-> "capture", scanning |-> FALSE, orphans |-> phone.orphans + 1]
    /\ past' = [past EXCEPT !.losses = @ + 1]
    /\ UNCHANGED <<paper, run, desk, call>>
--------------------------------------------------------------------------------
(* The service answers a poll or grades what was confirmed.                *)

ServePoll(c) ==
    /\ call[c].kind = "poll" /\ call[c].stage = "sent"
    /\ run.known
    /\ call' = [call EXCEPT ![c].stage = "answered", ![c].answers = run.draft,
                            ![c].ready = run.drafted /\ run.state = "ready_for_review"]
    /\ UNCHANGED <<paper, run, phone, desk, past>>

(* FAULTY: the draft is graded, not what the learner made of it.           *)
ServeConfirmDraft(c) ==
    /\ call[c].kind = "confirm" /\ call[c].stage = "sent"
    /\ run.known
    /\ run' = [run EXCEPT !.state = "graded", !.result = {RightIn(run.draft)}]
    /\ call' = [call EXCEPT ![c].stage = "answered", ![c].result = run'.result]
    /\ UNCHANGED <<paper, phone, desk, past>>

ServeConfirm(c) ==
    /\ call[c].kind = "confirm" /\ call[c].stage = "sent"
    /\ run.known
    /\ run' = [run EXCEPT !.state = "graded", !.result = {RightIn(call[c].answers)}]
    /\ call' = [call EXCEPT ![c].stage = "answered", ![c].result = run'.result]
    /\ UNCHANGED <<paper, phone, desk, past>>
--------------------------------------------------------------------------------
(* The desktop.                                                            *)

Send(c, kind, answers) ==
    /\ call[c].kind = "none"
    /\ call' = [call EXCEPT ![c] = [FreeCall EXCEPT !.kind = kind, !.stage = "sent",
                                                    !.answers = answers]]

Poll(c) ==
    /\ desk.phase = "waiting"
    /\ Send(c, "poll", Blank)
    /\ UNCHANGED <<paper, run, phone, desk, past>>

(* A draft opens the read-back, whatever the page shows by now.            *)
ReceivePoll(c) ==
    /\ call[c].kind = "poll" /\ call[c].stage = "answered"
    /\ desk' = IF call[c].ready
               THEN [desk EXCEPT !.phase = "review", !.answers = call[c].answers]
               ELSE desk
    /\ call' = [call EXCEPT ![c] = FreeCall]
    /\ UNCHANGED <<paper, run, phone, past>>

(* The learner puts right what was misread.                                *)
Edit(i) ==
    /\ desk.phase = "review"
    /\ desk' = [desk EXCEPT !.answers[i] = paper[i]]
    /\ UNCHANGED <<paper, run, phone, call, past>>

(* Nothing keeps the button from being pressed again.                      *)
Confirm(c) ==
    /\ desk.phase = "review"
    /\ Send(c, "confirm", desk.answers)
    /\ past' = [past EXCEPT !.confirmed = desk.answers,
                            !.overlapped = @ \/ \E o \in Calls : call[o].kind = "confirm"]
    /\ UNCHANGED <<paper, run, phone, desk>>

ReceiveConfirm(c) ==
    /\ call[c].kind = "confirm" /\ call[c].stage = "answered"
    /\ desk' = [desk EXCEPT !.phase = "graded", !.shown = call[c].result]
    /\ call' = [call EXCEPT ![c] = FreeCall]
    /\ UNCHANGED <<paper, run, phone, past>>

(* A failed poll is passed over; a failed confirmation is shown.           *)
AfterError(c) ==
    IF call[c].kind = "confirm" THEN [desk EXCEPT !.phase = "error"] ELSE desk

Fails(c) ==
    /\ desk' = AfterError(c)
    /\ call' = [call EXCEPT ![c] = FreeCall]
    /\ UNCHANGED <<paper, run, phone>>

(* Unknown token.                                                          *)
NotFound(c) ==
    /\ call[c].stage = "sent" /\ ~run.known
    /\ Fails(c)
    /\ UNCHANGED past

(* The request is lost, or its reply.                                      *)
Lose(c) ==
    /\ call[c].kind # "none" /\ past.losses < MaxLosses
    /\ past' = [past EXCEPT !.losses = @ + 1]
    /\ Fails(c)

(* The store is in memory: the run is gone, and what was being done for it.*)
Restart ==
    /\ run.known /\ past.restarts < MaxRestarts
    /\ run' = [run EXCEPT !.known = FALSE]
    /\ phone' = [phone EXCEPT !.scanning = FALSE, !.orphans = 0]
    /\ past' = [past EXCEPT !.restarts = @ + 1]
    /\ UNCHANGED <<paper, desk, call>>

Next ==
    \/ Submit \/ Scanned \/ ScannedLate \/ SubmitFails \/ LoseSubmit \/ Restart
    \/ \E c \in Calls : \/ Poll(c) \/ ServePoll(c) \/ ReceivePoll(c)
                        \/ Confirm(c) \/ ServeConfirm(c) \/ ReceiveConfirm(c)
                        \/ NotFound(c) \/ Lose(c)
    \/ \E i \in Items : Edit(i)

Spec == Init /\ [][Next]_vars

(* The timer goes on polling; requests, replies and scans come to their    *)
(* end.  Nobody has to send pages, edit or confirm.                        *)
Fairness ==
    /\ WF_vars(Scanned) /\ WF_vars(SubmitFails)
    /\ WF_vars(\E c \in Calls : Poll(c))
    /\ \A c \in Calls : WF_vars(ServePoll(c) \/ ReceivePoll(c) \/ ServeConfirm(c)
                                \/ ReceiveConfirm(c) \/ NotFound(c))

FairSpec == Spec /\ Fairness
--------------------------------------------------------------------------------
TypeOK ==
    /\ paper \in [Items -> Written]
    /\ run \in Run
    /\ run.state = "ready_for_review" => run.drafted
    /\ phone \in [page : {"capture", "sending", "sent"}, scanning : BOOLEAN, orphans : Nat]
    /\ desk \in [phase : {"waiting", "review", "graded", "error"}, answers : Reading,
                 shown : Verdicts]
    /\ desk.phase = "graded" => desk.shown # {}
    /\ call \in [Calls -> Call]
    /\ past \in [losses : Nat, restarts : Nat, confirmed : Reading, overlapped : BOOLEAN]

(* INVARIANT.  The verdict on the page is the verdict of the answers the   *)
(* learner confirmed last: neither a new scan of the same pages nor a poll *)
(* that comes late puts the draft, or an older answer, in their place.     *)
(* Two confirmations in flight may still arrive in either order            *)
(* (session.py:91, Homework.tsx:93).                                       *)
VerdictIsOfConfirmed ==
    desk.phase = "graded" /\ ~past.overlapped =>
        desk.shown = {{i \in Items : past.confirmed[i] = i}}

(* LIVENESS.  Pages the phone reports as sent bring up the read-back on the*)
(* waiting desktop, through lost polls, unless the service is restarted    *)
(* first (Homework.tsx:75).                                                *)
SentPagesAreShown ==
    phone.page = "sent" ~> desk.phase # "waiting" \/ ~run.known
================================================================================
