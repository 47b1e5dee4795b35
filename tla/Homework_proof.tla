----------------------------- MODULE Homework_proof ----------------------------
(***************************************************************************)
(* Proofs about the homework run, for any number of items and requests in  *)
(* flight, losses and restarts.                                            *)
(***************************************************************************)
EXTENDS Homework, TLAPS

(* A confirmation that came back brings a verdict, and as long as no two   *)
(* were in flight at once, the one on its way and the one on the page are  *)
(* about what the learner confirmed last.                                  *)
ConfirmationsAgree ==
    /\ \A c \in Calls :
          call[c].kind = "confirm" =>
              /\ call[c].stage = "answered" => call[c].result # {}
              /\ ~past.overlapped =>
                    /\ call[c].answers = past.confirmed
                    /\ call[c].stage = "answered" => call[c].result = {RightIn(past.confirmed)}
    /\ desk.phase = "graded" /\ ~past.overlapped => desk.shown = {RightIn(past.confirmed)}

IInv == TypeOK /\ ConfirmationsAgree
--------------------------------------------------------------------------------
LEMMA ReadingTypes ==
    ASSUME paper \in [Items -> Written]
    PROVE  /\ Blank \in Reading
           /\ \A legible \in SUBSET Items : ExtractAnswers(legible) \in Reading
           /\ \A answers : RightIn(answers) \in SUBSET Items /\ {RightIn(answers)} \in Verdicts
<1>1. Blank \in Reading
    BY DEF Blank, Reading
<1>2. ASSUME NEW legible \in SUBSET Items PROVE ExtractAnswers(legible) \in Reading
    <2> DEFINE Line(n) == {i \in legible : Cardinality({j \in legible : j <= i}) = n}
               answer(n) == IF Line(n) = {} THEN Unread ELSE paper[CHOOSE i \in Line(n) : TRUE]
    <2>1. \A n \in Items : Line(n) \subseteq Items
        OBVIOUS
    <2> HIDE DEF Line
    <2>2. \A n \in Items : Line(n) # {} => (CHOOSE i \in Line(n) : TRUE) \in Items
        BY <2>1
    <2>3. \A n \in Items : answer(n) \in Written \cup {Unread}
        BY <2>2
    <2> HIDE DEF answer
    <2>4. [n \in Items |-> answer(n)] \in Reading
        BY <2>3 DEF Reading
    <2> QED BY <2>4 DEF ExtractAnswers, answer, Line
<1>3. \A answers : RightIn(answers) \in SUBSET Items /\ {RightIn(answers)} \in Verdicts
    BY DEF RightIn, Verdicts
<1> QED BY <1>1, <1>2, <1>3

LEMMA FreeCallType == FreeCall \in Call /\ FreeCall.kind = "none" /\ FreeCall.stage = "free"
BY DEF FreeCall, Call, Blank, Reading, Verdicts

LEMMA IInvInit == Init => IInv
<1> SUFFICES ASSUME Init PROVE IInv
    OBVIOUS
<1>1. PICK right \in SUBSET Items : paper = [i \in Items |-> IF i \in right THEN i ELSE Wrong]
    BY DEF Init
<1>2. paper \in [Items -> Written] /\ Blank \in Reading /\ {} \in Verdicts
    BY <1>1 DEF Written, Wrong, Blank, Reading, Verdicts
<1>3. run \in Run /\ run.state = "waiting"
    BY <1>2 DEF Init, Run, State
<1>4. call \in [Calls -> Call] /\ \A c \in Calls : call[c].kind = "none"
    BY FreeCallType DEF Init
<1>5. TypeOK
    BY <1>2, <1>3, <1>4 DEF Init, TypeOK
<1>6. ConfirmationsAgree
    BY <1>4 DEF Init, ConfirmationsAgree
<1> QED BY <1>5, <1>6 DEF IInv

(* Most steps touch one request and leave what is confirmed alone.         *)
LEMMA CallUpdate ==
    ASSUME call \in [Calls -> Call], NEW c \in Calls, NEW next \in Call,
           call' = [call EXCEPT ![c] = next]
    PROVE  /\ call' \in [Calls -> Call]
           /\ call'[c] = next
           /\ \A o \in Calls \ {c} : call'[o] = call[o]
OBVIOUS

LEMMA CallsKept ==
    ASSUME IInv, NEW c \in Calls, NEW next \in Call,
           call' = [call EXCEPT ![c] = next],
           next.kind # "confirm",
           past'.confirmed = past.confirmed, past'.overlapped = past.overlapped,
           desk'.phase # "graded" \/ UNCHANGED desk
    PROVE  ConfirmationsAgree'
<1>1. call'[c] = next /\ \A o \in Calls \ {c} : call'[o] = call[o]
    BY DEF IInv, TypeOK
<1> QED BY <1>1 DEF IInv, ConfirmationsAgree, RightIn

(* A new draft leaves the run well typed, in whatever state it comes.      *)
LEMMA ScanType ==
    ASSUME TypeOK, Scan
    PROVE  run' \in Run /\ (run'.state = "ready_for_review" => run'.drafted)
<1>1. PICK legible \in SUBSET Items : run' = KeepDraft(ExtractAnswers(legible))
    BY DEF Scan
<1>2. ExtractAnswers(legible) \in Reading
    BY ReadingTypes DEF TypeOK
<1>3. ASSUME NEW draft \in Reading, run' = KeepDraft(draft)
      PROVE  run' \in Run /\ (run'.state = "ready_for_review" => run'.drafted)
    BY <1>3 DEF TypeOK, KeepDraft, Run, State
<1> QED BY <1>1, <1>2, <1>3

LEMMA IInvStep == IInv /\ [Next]_vars => IInv'
<1> SUFFICES ASSUME IInv, [Next]_vars PROVE IInv'
    OBVIOUS
<1> USE DEF IInv
<1>a. /\ paper \in [Items -> Written] /\ run \in Run /\ call \in [Calls -> Call]
      /\ run.state = "ready_for_review" => run.drafted
      /\ phone \in [page : {"capture", "sending", "sent"}, scanning : BOOLEAN, orphans : Nat]
      /\ desk \in [phase : {"waiting", "review", "graded", "error"}, answers : Reading,
                   shown : Verdicts]
      /\ desk.phase = "graded" => desk.shown # {}
      /\ past \in [losses : Nat, restarts : Nat, confirmed : Reading, overlapped : BOOLEAN]
    BY DEF TypeOK
<1>b. \A c \in Calls : call[c].answers \in Reading /\ call[c].result \in Verdicts
    BY <1>a DEF Call
<1>1. CASE Submit
    <2>1. phone' = [phone EXCEPT !.page = "sending", !.scanning = run.known]
          /\ UNCHANGED <<paper, run, desk, call, past>>
        BY <1>1 DEF Submit
    <2>2. run.known \in BOOLEAN
        BY <1>a DEF Run
    <2>3. TypeOK'
        BY <2>1, <2>2, <1>a DEF TypeOK
    <2> QED BY <2>1, <2>3 DEF ConfirmationsAgree
<1>2. CASE Scanned \/ ScannedLate
    <2>1. run' \in Run /\ (run'.state = "ready_for_review" => run'.drafted)
        BY <1>2, ScanType DEF Scanned, ScannedLate
    <2>2. phone' \in [page : {"capture", "sending", "sent"}, scanning : BOOLEAN, orphans : Nat]
        <3>1. CASE Scanned
            BY <3>1, <1>a DEF Scanned
        <3>2. CASE ScannedLate
            <4>1. phone.orphans \in Nat /\ phone.orphans > 0
                BY <3>2, <1>a DEF ScannedLate
            <4>2. phone.orphans - 1 \in Nat
                BY <4>1
            <4>3. phone' = [phone EXCEPT !.orphans = phone.orphans - 1]
                BY <3>2 DEF ScannedLate
            <4> QED BY <4>2, <4>3, <1>a
        <3> QED BY <1>2, <3>1, <3>2
    <2>3. UNCHANGED <<paper, desk, call, past>>
        BY <1>2 DEF Scanned, ScannedLate
    <2>4. TypeOK'
        BY <2>1, <2>2, <2>3, <1>a DEF TypeOK
    <2> QED BY <2>3, <2>4 DEF ConfirmationsAgree
<1>3. CASE SubmitFails \/ LoseSubmit
    <2>1. phone' \in [page : {"capture", "sending", "sent"}, scanning : BOOLEAN, orphans : Nat]
        <3>1. CASE SubmitFails
            BY <3>1, <1>a DEF SubmitFails
        <3>2. CASE LoseSubmit
            BY <3>2, <1>a DEF LoseSubmit
        <3> QED BY <1>3, <3>1, <3>2
    <2>2. /\ past' \in [losses : Nat, restarts : Nat, confirmed : Reading, overlapped : BOOLEAN]
          /\ past'.confirmed = past.confirmed /\ past'.overlapped = past.overlapped
        BY <1>3, <1>a DEF SubmitFails, LoseSubmit
    <2>3. UNCHANGED <<paper, run, desk, call>>
        BY <1>3 DEF SubmitFails, LoseSubmit
    <2>4. TypeOK'
        BY <2>1, <2>2, <2>3, <1>a DEF TypeOK
    <2> QED BY <2>2, <2>3, <2>4 DEF ConfirmationsAgree
<1>4. CASE Restart
    <2>1. /\ run' \in Run /\ (run'.state = "ready_for_review" => run'.drafted)
          /\ phone' \in [page : {"capture", "sending", "sent"}, scanning : BOOLEAN, orphans : Nat]
          /\ past' \in [losses : Nat, restarts : Nat, confirmed : Reading, overlapped : BOOLEAN]
          /\ past'.confirmed = past.confirmed /\ past'.overlapped = past.overlapped
          /\ UNCHANGED <<paper, desk, call>>
        <3>1. /\ run' = [run EXCEPT !.known = FALSE]
              /\ phone' = [phone EXCEPT !.scanning = FALSE, !.orphans = 0]
              /\ past' = [past EXCEPT !.restarts = @ + 1]
              /\ UNCHANGED <<paper, desk, call>>
            BY <1>4 DEF Restart
        <3>2. run' \in Run /\ (run'.state = "ready_for_review" => run'.drafted)
            BY <3>1, <1>a DEF Run
        <3>3. phone' \in [page : {"capture", "sending", "sent"}, scanning : BOOLEAN, orphans : Nat]
            BY <3>1, <1>a
        <3>4. /\ past' \in [losses : Nat, restarts : Nat, confirmed : Reading, overlapped : BOOLEAN]
              /\ past'.confirmed = past.confirmed /\ past'.overlapped = past.overlapped
            BY <3>1, <1>a
        <3> QED BY <3>1, <3>2, <3>3, <3>4
    <2>2. TypeOK'
        BY <2>1, <1>a DEF TypeOK
    <2> QED BY <2>1, <2>2 DEF ConfirmationsAgree
<1>5. ASSUME NEW c \in Calls, Poll(c) PROVE IInv'
    <2> DEFINE next == [FreeCall EXCEPT !.kind = "poll", !.stage = "sent", !.answers = Blank]
    <2>1. call' = [call EXCEPT ![c] = next] /\ UNCHANGED <<paper, run, phone, desk, past>>
        BY <1>5 DEF Poll, Send
    <2>2. next \in Call /\ next.kind = "poll"
        BY <1>a, FreeCallType, ReadingTypes DEF Call
    <2> HIDE DEF next
    <2>3. TypeOK'
        BY <2>1, <2>2, <1>a, CallUpdate DEF TypeOK
    <2> QED BY <2>1, <2>2, <2>3, CallsKept
<1>6. ASSUME NEW c \in Calls, ServePoll(c) PROVE IInv'
    <2> DEFINE ready == run.drafted /\ run.state = "ready_for_review"
               next == [call[c] EXCEPT !.stage = "answered", !.answers = run.draft, !.ready = ready]
    <2>1. /\ call[c].kind = "poll" /\ call' = [call EXCEPT ![c] = next]
          /\ UNCHANGED <<paper, run, phone, desk, past>>
        BY <1>6, <1>a DEF ServePoll
    <2>2. ready \in BOOLEAN /\ run.draft \in Reading /\ call[c] \in Call
        BY <1>a DEF Run
    <2> HIDE DEF ready
    <2>3. next \in Call /\ next.kind = "poll"
        BY <2>1, <2>2 DEF Call
    <2> HIDE DEF next
    <2>4. TypeOK'
        BY <2>1, <2>3, <1>a, CallUpdate DEF TypeOK
    <2> QED BY <2>1, <2>3, <2>4, CallsKept
<1>7. ASSUME NEW c \in Calls, ReceivePoll(c) PROVE IInv'
    <2>1. /\ call' = [call EXCEPT ![c] = FreeCall] /\ UNCHANGED <<paper, run, phone, past>>
          /\ \/ desk' = [desk EXCEPT !.phase = "review", !.answers = call[c].answers]
             \/ desk' = desk
        BY <1>7 DEF ReceivePoll
    <2>2. /\ desk' \in [phase : {"waiting", "review", "graded", "error"}, answers : Reading,
                        shown : Verdicts]
          /\ desk'.phase = "graded" => desk'.shown # {}
          /\ desk'.phase # "graded" \/ desk' = desk
        <3>1. CASE desk' = desk
            BY <3>1, <1>a
        <3>2. CASE desk' = [desk EXCEPT !.phase = "review", !.answers = call[c].answers]
            <4>1. call[c].answers \in Reading
                BY <1>b
            <4>2. desk'.phase = "review"
                BY <3>2, <1>a
            <4>3. desk' \in [phase : {"waiting", "review", "graded", "error"}, answers : Reading,
                             shown : Verdicts]
                BY <3>2, <4>1, <1>a
            <4> QED BY <4>2, <4>3
        <3> QED BY <2>1, <3>1, <3>2
    <2>3. TypeOK'
        BY <2>1, <2>2, <1>a, FreeCallType, CallUpdate DEF TypeOK
    <2> QED BY <2>1, <2>2, <2>3, FreeCallType, CallsKept
<1>8. ASSUME NEW i \in Items, Edit(i) PROVE IInv'
    <2>1. /\ desk' = [desk EXCEPT !.answers = [@ EXCEPT ![i] = paper[i]]] /\ desk.phase = "review"
          /\ UNCHANGED <<paper, run, phone, call, past>>
        BY <1>8 DEF Edit
    <2>2. [desk.answers EXCEPT ![i] = paper[i]] \in Reading
        BY <1>a DEF Reading
    <2>3. /\ desk' \in [phase : {"waiting", "review", "graded", "error"}, answers : Reading,
                        shown : Verdicts]
          /\ desk'.phase = "review"
        BY <2>1, <2>2, <1>a
    <2>4. TypeOK'
        BY <2>1, <2>3, <1>a DEF TypeOK
    <2> QED BY <2>1, <2>3, <2>4 DEF ConfirmationsAgree
<1>9. ASSUME NEW c \in Calls, Confirm(c) PROVE IInv'
    <2> DEFINE next == [FreeCall EXCEPT !.kind = "confirm", !.stage = "sent", !.answers = desk.answers]
               second == \E o \in Calls : call[o].kind = "confirm"
    <2>1. /\ call' = [call EXCEPT ![c] = next] /\ UNCHANGED <<paper, run, phone, desk>>
          /\ desk.phase = "review" /\ call[c].kind = "none"
          /\ past' = [past EXCEPT !.confirmed = desk.answers, !.overlapped = @ \/ second]
        BY <1>9 DEF Confirm, Send
    <2>2. next \in Call /\ next.kind = "confirm" /\ next.stage = "sent" /\ next.answers = desk.answers
        BY <1>a, FreeCallType DEF Call
    <2> HIDE DEF next
    <2>3. /\ past' \in [losses : Nat, restarts : Nat, confirmed : Reading, overlapped : BOOLEAN]
          /\ past'.confirmed = desk.answers /\ past'.overlapped = (past.overlapped \/ second)
        <3>1. second \in BOOLEAN /\ desk.answers \in Reading
            BY <1>a
        <3> HIDE DEF second
        <3> QED BY <2>1, <3>1, <1>a
    <2>4. TypeOK'
        BY <2>1, <2>2, <2>3, <1>a, CallUpdate DEF TypeOK
    <2>5. call'[c] = next /\ \A o \in Calls \ {c} : call'[o] = call[o]
        BY <2>1, <2>2, <1>a, CallUpdate
    <2>6. ~past'.overlapped => \A o \in Calls \ {c} : call'[o].kind # "confirm"
        BY <2>3, <2>5
    <2>7. \A o \in Calls : call'[o].kind = "confirm" /\ call'[o].stage = "answered"
                             => call'[o].result # {}
        BY <2>2, <2>5 DEF ConfirmationsAgree
    <2> QED BY <2>1, <2>2, <2>3, <2>4, <2>5, <2>6, <2>7 DEF ConfirmationsAgree
<1>10. ASSUME NEW c \in Calls, ServeConfirm(c) PROVE IInv'
    <2> DEFINE verdict == {RightIn(call[c].answers)}
               next == [call[c] EXCEPT !.stage = "answered", !.result = verdict]
    <2>0. verdict \in Verdicts /\ verdict # {} /\ call[c] \in Call
        BY <1>a, ReadingTypes
    <2>1. /\ run' = [run EXCEPT !.state = "graded", !.result = verdict]
          /\ call[c].kind = "confirm" /\ UNCHANGED <<paper, phone, desk, past>>
        BY <1>10 DEF ServeConfirm
    <2>2. run' \in Run /\ run'.result = verdict /\ run'.state = "graded"
        <3> HIDE DEF verdict
        <3> QED BY <2>0, <2>1, <1>a DEF Run, State
    <2>3. call' = [call EXCEPT ![c] = next]
        <3>1. call' = [call EXCEPT ![c].stage = "answered", ![c].result = run'.result]
            BY <1>10 DEF ServeConfirm
        <3> HIDE DEF verdict
        <3> QED BY <2>2, <3>1, <1>a
    <2>4. /\ next \in Call /\ next.kind = "confirm" /\ next.result = verdict
          /\ next.answers = call[c].answers
        <3> HIDE DEF verdict
        <3> QED BY <2>0, <2>1 DEF Call
    <2> HIDE DEF next
    <2>5. TypeOK'
        BY <2>1, <2>2, <2>3, <2>4, <1>a, CallUpdate DEF TypeOK
    <2>6. call'[c] = next /\ \A o \in Calls \ {c} : call'[o] = call[o]
        BY <2>3, <2>4, <1>a, CallUpdate
    <2>7. ~past.overlapped => next.answers = past.confirmed /\ next.result = {RightIn(past.confirmed)}
        BY <2>1, <2>4 DEF ConfirmationsAgree
    <2>8. next.result # {}
        BY <2>0, <2>4
    <2> HIDE DEF verdict
    <2> QED BY <2>1, <2>5, <2>6, <2>7, <2>8 DEF ConfirmationsAgree, RightIn
<1>11. ASSUME NEW c \in Calls, ReceiveConfirm(c) PROVE IInv'
    <2>1. /\ call[c].kind = "confirm" /\ call[c].stage = "answered"
          /\ desk' = [desk EXCEPT !.phase = "graded", !.shown = call[c].result]
          /\ call' = [call EXCEPT ![c] = FreeCall] /\ UNCHANGED <<paper, run, phone, past>>
        BY <1>11 DEF ReceiveConfirm
    <2>2. /\ desk' \in [phase : {"waiting", "review", "graded", "error"}, answers : Reading,
                        shown : Verdicts]
          /\ desk'.shown = call[c].result
        BY <2>1, <1>a, <1>b
    <2>3. desk'.shown # {} /\ (~past.overlapped => desk'.shown = {RightIn(past.confirmed)})
        BY <2>1, <2>2 DEF ConfirmationsAgree
    <2>4. call'[c] = FreeCall /\ \A o \in Calls \ {c} : call'[o] = call[o]
        BY <2>1, <1>a
    <2>5. TypeOK'
        BY <2>1, <2>2, <2>3, <1>a, FreeCallType, CallUpdate DEF TypeOK
    <2> QED BY <2>1, <2>3, <2>4, <2>5, FreeCallType DEF ConfirmationsAgree, RightIn
<1>12. ASSUME NEW c \in Calls, NotFound(c) \/ Lose(c) PROVE IInv'
    <2>1. /\ desk' = AfterError(c) /\ call' = [call EXCEPT ![c] = FreeCall]
          /\ UNCHANGED <<paper, run, phone>>
        BY <1>12 DEF NotFound, Lose, Fails
    <2>2. /\ past' \in [losses : Nat, restarts : Nat, confirmed : Reading, overlapped : BOOLEAN]
          /\ past'.confirmed = past.confirmed /\ past'.overlapped = past.overlapped
        BY <1>12, <1>a DEF NotFound, Lose
    <2>3. /\ desk' \in [phase : {"waiting", "review", "graded", "error"}, answers : Reading,
                        shown : Verdicts]
          /\ desk'.phase = "graded" => desk'.shown # {}
          /\ desk'.phase # "graded" \/ desk' = desk
        BY <2>1, <1>a DEF AfterError
    <2>4. TypeOK'
        BY <2>1, <2>2, <2>3, <1>a, FreeCallType, CallUpdate DEF TypeOK
    <2> QED BY <2>1, <2>2, <2>3, <2>4, FreeCallType, CallsKept
<1>13. CASE UNCHANGED vars
    BY <1>13 DEF vars, TypeOK, ConfirmationsAgree
<1> QED BY <1>1, <1>2, <1>3, <1>4, <1>5, <1>6, <1>7, <1>8, <1>9, <1>10, <1>11, <1>12, <1>13 DEF Next

(* Every reachable state has the types of the model; a run that is ready   *)
(* for review has a draft and a graded page a verdict (session.py:99).     *)
THEOREM SpecTypeOK == Spec => []TypeOK
<1>1. IInv => TypeOK
    BY DEF IInv
<1> QED BY <1>1, IInvInit, IInvStep, PTL DEF Spec

(* The verdict on the page is the one of the answers confirmed last, as    *)
(* long as no two confirmations were in flight at once (session.py:91).    *)
THEOREM SpecVerdictIsOfConfirmed == Spec => []VerdictIsOfConfirmed
<1>1. IInv => VerdictIsOfConfirmed
    BY DEF IInv, ConfirmationsAgree, VerdictIsOfConfirmed, RightIn
<1> QED BY <1>1, IInvInit, IInvStep, PTL DEF Spec
================================================================================
