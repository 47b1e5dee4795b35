---------------------------- MODULE TurnClient_proof ---------------------------
(***************************************************************************)
(* Proofs about the turn service and its client, for any number of         *)
(* handlers, lessons, calls and restarts.                                  *)
(***************************************************************************)
EXTENDS TurnClient, FiniteSetTheorems, TLAPS

(* The nesting is one level deep: the goal is active when nothing is       *)
(* paused, and there is one paused confirmed set otherwise.                *)
OneLevel(l) ==
    /\ l.paused = {} <=> l.kc = Goal
    /\ \A one, other \in l.paused : one = other

ServiceTypeOK ==
    /\ live \in LiveSession
    /\ OneLevel(live)
    /\ handler \in [Handlers -> Handler]
    /\ store \in [opened : BOOLEAN, turns : Seq(Nat), rows : [Lessons -> Row]]
    /\ past \in Past
--------------------------------------------------------------------------------
(* What the operators of a turn return.                                    *)

LEMMA StartType ==
    ASSUME NEW opened \in BOOLEAN
    PROVE  Start(opened) \in LiveSession /\ OneLevel(Start(opened))
BY ServiceAssumption DEF Start, LiveSession, OneLevel

LEMMA GoneType == Gone \in LiveSession /\ OneLevel(Gone) /\ ~Gone.present
<1>1. Start(FALSE) \in LiveSession /\ OneLevel(Start(FALSE))
    BY StartType
<1> QED BY <1>1 DEF Gone, LiveSession, OneLevel

LEMMA ReplyTypes == NoReply \in Reply /\ ErrorReply \in Reply
BY DEF NoReply, ErrorReply, Reply

LEMMA FreeType == Free \in Handler /\ NoRoll \in [kc : Lessons \cup {NoLesson}, row : Row]
BY ReplyTypes DEF Free, NoRoll, Handler, Stage, Working, Writing, Row

(* Whatever a turn leads to, the confirmed sets it leaves hold only what   *)
(* they held before and the lesson whose probe it passed.                  *)
Carries(l, o) ==
    /\ o.live.confirmed \subseteq l.confirmed \cup (UNION l.paused) \cup ({o.reply.passed} \cap Lessons)
    /\ \A s \in o.live.paused : s \in l.paused \/ s = l.confirmed
    /\ o.live.present = l.present
    /\ o.live.opened = l.opened
    /\ o.live.turnCount = l.turnCount

GoodOutcome(l, o) ==
    /\ o.live \in LiveSession
    /\ OneLevel(o.live)
    /\ o.reply \in Reply
    /\ Carries(l, o)

LEMMA VerdictGood ==
    ASSUME NEW l \in LiveSession, NEW m \in LiveSession, OneLevel(m),
           NEW passed \in Lessons \cup {NoLesson}, past \in Past,
           m.confirmed \subseteq l.confirmed \cup (UNION l.paused) \cup ({passed} \cap Lessons),
           \A s \in m.paused : s \in l.paused \/ s = l.confirmed,
           m.present = l.present, m.opened = l.opened, m.turnCount = l.turnCount
    PROVE  GoodOutcome(l, Verdict(m, passed))
<1> DEFINE v == Verdict(m, passed)
<1>1. Fresh \in Nat
    BY DEF Fresh, Past
<1>2. v.live = [m EXCEPT !.item = Fresh] /\ v.reply = [kind |-> "verdict", next |-> Fresh, passed |-> passed]
    BY DEF Verdict
<1>3. v.live \in LiveSession /\ v.reply \in Reply
    BY <1>1, <1>2 DEF LiveSession, Reply
<1>4. /\ v.live.confirmed = m.confirmed /\ v.live.paused = m.paused /\ v.live.kc = m.kc
      /\ v.live.present = m.present /\ v.live.opened = m.opened
      /\ v.live.turnCount = m.turnCount /\ v.reply.passed = passed
    BY <1>2 DEF LiveSession
<1>5. OneLevel(v.live)
    BY <1>4 DEF OneLevel
<1> QED BY <1>3, <1>4, <1>5 DEF GoodOutcome, Carries

LEMMA PracticeGood ==
    ASSUME NEW l \in LiveSession, OneLevel(l), past \in Past, NEW o \in PracticeOutcomes(l)
    PROVE  GoodOutcome(l, o)
<1> DEFINE practised == [l EXCEPT !.touched = TRUE]
           probed == [practised EXCEPT !.probing = TRUE]
           dropped(k) == [l EXCEPT !.kc = k, !.touched = FALSE, !.confirmed = {},
                                   !.paused = {l.confirmed}]
<1>1. practised \in LiveSession /\ OneLevel(practised) /\ probed \in LiveSession /\ OneLevel(probed)
    BY DEF LiveSession, OneLevel
<1>2. CASE o = Verdict(practised, NoLesson)
    BY <1>1, <1>2, VerdictGood DEF LiveSession
<1>3. CASE o = Verdict(probed, NoLesson)
    BY <1>1, <1>3, VerdictGood DEF LiveSession
<1>4. ASSUME NEW k \in Lessons \ {Goal}, o = Verdict(dropped(k), NoLesson)
      PROVE  GoodOutcome(l, o)
    <2>1. dropped(k) \in LiveSession /\ dropped(k).paused = {l.confirmed}
          /\ dropped(k).kc = k /\ dropped(k).confirmed = {}
          /\ dropped(k).present = l.present /\ dropped(k).opened = l.opened
          /\ dropped(k).turnCount = l.turnCount
        BY DEF LiveSession
    <2>2. OneLevel(dropped(k))
        BY <2>1 DEF OneLevel
    <2> HIDE DEF dropped
    <2>3. GoodOutcome(l, Verdict(dropped(k), NoLesson))
        BY <2>1, <2>2, VerdictGood
    <2> QED BY <2>3, <1>4
<1> QED BY <1>2, <1>3, <1>4 DEF PracticeOutcomes

LEMMA ProbeGood ==
    ASSUME NEW l \in LiveSession, OneLevel(l), past \in Past, NEW o \in ProbeOutcomes(l)
    PROVE  GoodOutcome(l, o)
<1> DEFINE over == [l EXCEPT !.probing = FALSE]
           completed == [over EXCEPT !.confirmed = @ \cup {l.kc}]
           resumed == [over EXCEPT !.kc = Goal, !.confirmed = UNION l.paused, !.paused = {}]
<1>1. over \in LiveSession /\ OneLevel(over)
    BY DEF LiveSession, OneLevel
<1>2. CASE o = Verdict(over, NoLesson) \/ o = Verdict(l, NoLesson)
    BY <1>1, <1>2, VerdictGood DEF LiveSession
<1>3. CASE l.paused = {} /\ o = Verdict(completed, l.kc)
    <2>1. completed \in LiveSession /\ OneLevel(completed)
          /\ completed.confirmed = l.confirmed \cup {l.kc} /\ completed.paused = l.paused
          /\ completed.present = l.present /\ completed.opened = l.opened
          /\ completed.turnCount = l.turnCount /\ l.kc \in Lessons
        BY DEF LiveSession, OneLevel
    <2> HIDE DEF completed
    <2>2. completed.confirmed \subseteq l.confirmed \cup (UNION l.paused) \cup ({l.kc} \cap Lessons)
        BY <2>1
    <2>3. GoodOutcome(l, Verdict(completed, l.kc))
        BY <2>1, <2>2, VerdictGood
    <2> QED BY <2>3, <1>3
<1>4. CASE l.paused # {} /\ o = Verdict(resumed, l.kc)
    <2>1. UNION l.paused \in SUBSET Lessons
        BY DEF LiveSession
    <2>2. resumed \in LiveSession /\ l.kc \in Lessons
          /\ resumed.confirmed = UNION l.paused /\ resumed.paused = {} /\ resumed.kc = Goal
          /\ resumed.present = l.present /\ resumed.opened = l.opened
          /\ resumed.turnCount = l.turnCount
        BY <2>1, ServiceAssumption DEF LiveSession
    <2>3. OneLevel(resumed)
        BY <2>2 DEF OneLevel
    <2> HIDE DEF resumed
    <2> QED BY <2>2, <2>3, <1>4, VerdictGood
<1> QED BY <1>2, <1>3, <1>4 DEF ProbeOutcomes

LEMMA OutcomeGood ==
    ASSUME NEW l \in LiveSession, OneLevel(l), past \in Past, NEW o \in AnswerOutcomes(l)
    PROVE  GoodOutcome(l, o)
<1>1. CASE o = FailedDrop(l)
    <2>1. Fresh \in Nat
        BY DEF Fresh, Past
    <2>2. o.live = [l EXCEPT !.touched = TRUE, !.item = Fresh] /\ o.reply = ErrorReply
        BY <1>1 DEF FailedDrop
    <2>3. o.live \in LiveSession /\ o.live.confirmed = l.confirmed /\ o.live.paused = l.paused
          /\ o.live.kc = l.kc /\ o.live.present = l.present /\ o.live.opened = l.opened
          /\ o.live.turnCount = l.turnCount
        <3>1. ASSUME NEW n \in Nat PROVE [l EXCEPT !.touched = TRUE, !.item = n] \in LiveSession
            <4> DEFINE m == [l EXCEPT !.touched = TRUE]
            <4>1. m \in LiveSession
                BY DEF LiveSession
            <4>2. [m EXCEPT !.item = n] \in LiveSession
                <5> HIDE DEF m
                <5> QED BY <3>1, <4>1 DEF LiveSession
            <4> QED BY <4>2
        <3>2. /\ o.live.confirmed = l.confirmed /\ o.live.paused = l.paused
              /\ o.live.kc = l.kc /\ o.live.present = l.present /\ o.live.opened = l.opened
              /\ o.live.turnCount = l.turnCount
            BY <2>2 DEF LiveSession
        <3> QED BY <2>1, <2>2, <3>1, <3>2
    <2>4. OneLevel(o.live)
        BY <2>3 DEF OneLevel
    <2> QED BY <2>2, <2>3, <2>4, ReplyTypes DEF GoodOutcome, Carries
<1>2. CASE o \in PracticeOutcomes(l)
    BY <1>2, PracticeGood
<1>3. CASE o \in ProbeOutcomes(l)
    BY <1>3, ProbeGood
<1> QED BY <1>1, <1>2, <1>3 DEF AnswerOutcomes
--------------------------------------------------------------------------------
(* The steps the service sees: its own, a request that got lost before it  *)
(* arrived, and those of the page alone.                                   *)

Dropped(h) ==
    /\ handler' = [handler EXCEPT ![h] = Free]
    /\ UNCHANGED <<live, store, past>>

ServiceStep ==
    \/ \E h \in Handlers : \/ \E call \in {"submit", "hint"} : Arrive(h, call)
                           \/ HandlerStep(h)
                           \/ Dropped(h) /\ handler[h].stage \in {"sent", "done"}
    \/ Restart \/ Resume
    \/ UNCHANGED serviceVars

LEMMA NextIsServiceStep == Next => ServiceStep
<1> SUFFICES ASSUME Next PROVE ServiceStep
    OBVIOUS
<1>1. ASSUME NEW h \in Handlers, Submit(h) \/ AskHint(h) PROVE ServiceStep
    BY <1>1 DEF Submit, AskHint, Call, ServiceStep
<1>2. ASSUME NEW h \in Handlers, Receive(h) \/ Discard(h) PROVE ServiceStep
    BY <1>2 DEF Receive, Discard, Release, Dropped, ServiceStep
<1>3. ASSUME NEW h \in Handlers, LoseRequest(h) PROVE ServiceStep
    BY <1>3 DEF LoseRequest, Dropped, ServiceStep
<1>4. ASSUME NEW h \in Handlers, LoseReply(h) PROVE ServiceStep
    BY <1>4 DEF LoseReply, ServiceStep, serviceVars
<1>5. ASSUME NEW h \in Handlers, HandlerStep(h) PROVE ServiceStep
    BY <1>5 DEF ServiceStep
<1>6. CASE HandleNext
    BY <1>6 DEF HandleNext, ServiceStep, serviceVars
<1>7. CASE ServiceRestarts \/ Resume
    BY <1>7 DEF ServiceRestarts, ServiceStep
<1> QED BY <1>1, <1>2, <1>3, <1>4, <1>5, <1>6, <1>7 DEF Next
--------------------------------------------------------------------------------
(* Type correctness of the service.                                        *)

LEMMA ServiceTypeInit == ServiceInit => ServiceTypeOK
<1> SUFFICES ASSUME ServiceInit PROVE ServiceTypeOK
    OBVIOUS
<1>1. PICK opened \in BOOLEAN :
          /\ live = Start(opened)
          /\ store = [opened |-> opened, turns |-> <<>>, rows |-> [k \in Lessons |-> "none"]]
    BY DEF ServiceInit
<1>2. live \in LiveSession /\ OneLevel(live)
    BY <1>1, StartType
<1>3. handler \in [Handlers -> Handler]
    BY FreeType DEF ServiceInit
<1>4. store \in [opened : BOOLEAN, turns : Seq(Nat), rows : [Lessons -> Row]]
    BY <1>1 DEF Row
<1>5. past \in Past
    BY DEF ServiceInit, Past
<1> QED BY <1>2, <1>3, <1>4, <1>5 DEF ServiceTypeOK

(* A handler that goes on keeps its type.                                  *)
LEMMA ToType ==
    ASSUME NEW h \in Handlers, handler \in [Handlers -> Handler], NEW stage \in Stage
    PROVE  /\ To(h, stage) \in Handler
           /\ To(h, stage).roll = handler[h].roll
           /\ To(h, stage).index = handler[h].index
           /\ To(h, stage).reply = handler[h].reply
           /\ To(h, stage).stage = stage
BY DEF To, Handler

LEMMA ReplyUpdate ==
    ASSUME NEW t \in Handler, NEW r \in Reply
    PROVE  /\ [t EXCEPT !.reply = r] \in Handler
           /\ [t EXCEPT !.reply = r].roll = t.roll
BY DEF Handler

LEMMA DoneType ==
    ASSUME NEW h \in Handlers, handler \in [Handlers -> Handler]
    PROVE  Done(h) \in Handler /\ Done(h).roll = NoRoll
<1>1. "done" \in Stage
    BY DEF Stage
<1>2. PICK t \in Handler : t = To(h, "done")
    BY <1>1, ToType
<1>3. "none" \in Row /\ NoRoll \in [kc : Lessons \cup {NoLesson}, row : Row]
    BY FreeType DEF Row
<1>4. PICK roll \in [kc : Lessons \cup {NoLesson}, row : Row], loaded \in Row :
          roll = NoRoll /\ loaded = "none"
    BY <1>3
<1>5. Done(h) = [t EXCEPT !.index = 0, !.roll = roll, !.loaded = loaded]
    BY <1>2, <1>4 DEF Done
<1>6. [t EXCEPT !.index = 0, !.roll = roll, !.loaded = loaded] \in Handler
    BY DEF Handler
<1>7. [t EXCEPT !.index = 0, !.roll = roll, !.loaded = loaded].roll = roll
    BY DEF Handler
<1> QED BY <1>4, <1>5, <1>6, <1>7

LEMMA HandlerUpdate ==
    ASSUME handler \in [Handlers -> Handler], NEW h \in Handlers, NEW next \in Handler,
           handler' = [handler EXCEPT ![h] = next]
    PROVE  /\ handler' \in [Handlers -> Handler]
           /\ handler'[h] = next
           /\ \A g \in Handlers \ {h} : handler'[g] = handler[g]
OBVIOUS

LEMMA RollType ==
    ASSUME live \in LiveSession
    PROVE  /\ MasteryRollup(live) \in [kc : Lessons \cup {NoLesson}, row : Row]
           /\ MasteryRollup(live).row = "confirmed" => MasteryRollup(live).kc \in live.confirmed
BY DEF MasteryRollup, NoRoll, LiveSession, Row
--------------------------------------------------------------------------------
(* What is confirmed anywhere was earned: in the live record, in the paused*)
(* parent, in a roll-up on its way to the database and in the rows.        *)
EarnedInv ==
    /\ live.confirmed \subseteq past.earned
    /\ \A s \in live.paused : s \subseteq past.earned
    /\ \A h \in Handlers : handler[h].roll.row = "confirmed" => handler[h].roll.kc \in past.earned
    /\ StoredWasEarned

ServiceInv == ServiceTypeOK /\ EarnedInv

LEMMA ServiceInvInit == ServiceInit => ServiceInv
<1> SUFFICES ASSUME ServiceInit PROVE ServiceInv
    OBVIOUS
<1>1. ServiceTypeOK
    BY ServiceTypeInit
<1>2. live.confirmed = {} /\ live.paused = {}
    BY DEF ServiceInit, Start
<1>3. \A h \in Handlers : handler[h].roll.row = "none"
    BY DEF ServiceInit, Free, NoRoll
<1>4. \A k \in Lessons : store.rows[k] = "none"
    BY DEF ServiceInit
<1> QED BY <1>1, <1>2, <1>3, <1>4 DEF ServiceInv, EarnedInv, StoredWasEarned

(* A handler that keeps its roll-up, or loses it, earns nothing.           *)
LEMMA RollKept ==
    ASSUME ServiceInv, NEW h \in Handlers, NEW next \in Handler,
           next.roll \in {handler[h].roll, NoRoll},
           handler' = [handler EXCEPT ![h] = next],
           live' \in LiveSession, OneLevel(live'), past' \in Past,
           past.earned \subseteq past'.earned,
           live'.confirmed \subseteq past'.earned,
           \A s \in live'.paused : s \subseteq past'.earned,
           UNCHANGED store
    PROVE  ServiceInv'
<1>1. ServiceTypeOK'
    BY HandlerUpdate DEF ServiceInv, ServiceTypeOK, OneLevel
<1>2. handler'[h] = next /\ \A g \in Handlers \ {h} : handler'[g] = handler[g]
    BY HandlerUpdate DEF ServiceInv, ServiceTypeOK
<1>3. \A g \in Handlers : handler'[g].roll.row = "confirmed" => handler'[g].roll.kc \in past'.earned
    BY <1>2 DEF ServiceInv, EarnedInv, NoRoll
<1>4. StoredWasEarned'
    BY DEF ServiceInv, EarnedInv, StoredWasEarned
<1> QED BY <1>1, <1>3, <1>4 DEF ServiceInv, EarnedInv

LEMMA DecideEarned == ASSUME ServiceInv, NEW h \in Handlers, Decide(h) PROVE ServiceInv'
<1>1. PICK o \in AnswerOutcomes(live) :
          /\ live' = o.live
          /\ handler' = [handler EXCEPT ![h] =
                 [To(h, IF o.reply = ErrorReply THEN "done" ELSE "decided") EXCEPT !.reply = o.reply]]
          /\ past' = [past EXCEPT !.served = Fresh,
                                  !.earned = @ \cup ({o.reply.passed} \cap Lessons),
                                  !.overlapped = @ \/ Overlaps(h)]
    BY DEF Decide
<1>2. GoodOutcome(live, o)
    BY OutcomeGood DEF ServiceInv, ServiceTypeOK
<1> DEFINE stage == IF o.reply = ErrorReply THEN "done" ELSE "decided"
           next == [To(h, stage) EXCEPT !.reply = o.reply]
<1>3. stage \in Stage
    BY DEF Stage, Working
<1>4. next \in Handler /\ next.roll = handler[h].roll
    <2>1. To(h, stage) \in Handler /\ To(h, stage).roll = handler[h].roll
        BY <1>3, ToType DEF ServiceInv, ServiceTypeOK
    <2>2. o.reply \in Reply
        BY <1>2 DEF GoodOutcome
    <2> HIDE DEF stage
    <2> QED BY <2>1, <2>2, ReplyUpdate
<1>5. past' \in Past /\ past'.earned = past.earned \cup ({o.reply.passed} \cap Lessons)
    <2>1. Fresh \in Nat /\ Overlaps(h) \in BOOLEAN
        BY DEF Fresh, Past, ServiceInv, ServiceTypeOK, Overlaps
    <2> QED BY <1>1, <2>1 DEF Past, ServiceInv, ServiceTypeOK
<1>6. live'.confirmed \subseteq past'.earned /\ \A s \in live'.paused : s \subseteq past'.earned
    BY <1>1, <1>2, <1>5 DEF GoodOutcome, Carries, ServiceInv, EarnedInv
<1>7. live' \in LiveSession /\ OneLevel(live') /\ UNCHANGED store
    BY <1>1, <1>2 DEF GoodOutcome, Decide
<1>8. handler' = [handler EXCEPT ![h] = next]
    BY <1>1
<1> HIDE DEF next
<1> QED BY <1>4, <1>5, <1>6, <1>7, <1>8, RollKept

LEMMA ServiceInvStep == ServiceInv /\ ServiceStep => ServiceInv'
<1> SUFFICES ASSUME ServiceInv, ServiceStep PROVE ServiceInv'
    OBVIOUS
<1> USE DEF ServiceInv
<1>a. /\ live \in LiveSession /\ OneLevel(live) /\ past \in Past
      /\ handler \in [Handlers -> Handler]
      /\ live.confirmed \subseteq past.earned
      /\ \A s \in live.paused : s \subseteq past.earned
    BY DEF ServiceTypeOK, EarnedInv
<1>b. {"free", "sent", "done", "indexed", "rolled", "selected", "voicing", "decided"} \subseteq Stage
    BY DEF Stage, Working, Writing
<1>1. ASSUME NEW h \in Handlers, NEW call \in {"submit", "hint"}, Arrive(h, call) PROVE ServiceInv'
    <2> DEFINE next == [Free EXCEPT !.stage = "sent", !.call = call]
    <2>1. next \in Handler /\ next.roll = NoRoll
        BY FreeType, <1>b DEF Handler, Free
    <2>2. handler' = [handler EXCEPT ![h] = next] /\ UNCHANGED <<live, store, past>>
        BY <1>1 DEF Arrive
    <2> HIDE DEF next
    <2> QED BY <2>1, <2>2, <1>a, RollKept
<1>2. ASSUME NEW h \in Handlers, NotFound(h) PROVE ServiceInv'
    <2> DEFINE next == [To(h, "done") EXCEPT !.reply = ErrorReply]
    <2>1. next \in Handler /\ next.roll = handler[h].roll
        BY <1>a, <1>b, ToType, ReplyTypes, ReplyUpdate
    <2>2. handler' = [handler EXCEPT ![h] = next] /\ UNCHANGED <<live, store, past>>
        BY <1>2 DEF NotFound
    <2> HIDE DEF next
    <2> QED BY <2>1, <2>2, <1>a, RollKept
<1>3. ASSUME NEW h \in Handlers, Decide(h) PROVE ServiceInv'
    BY <1>3, DecideEarned
<1>4. ASSUME NEW h \in Handlers, ReadHint(h) PROVE ServiceInv'
    <2> DEFINE said == [kind |-> "hint", next |-> live.item, passed |-> NoLesson]
               next == [To(h, IF live.probing THEN "decided" ELSE "voicing") EXCEPT !.reply = said]
    <2>1. said \in Reply
        BY <1>a DEF LiveSession, Reply
    <2>2. next \in Handler /\ next.roll = handler[h].roll
        BY <2>1, <1>a, <1>b, ToType DEF Handler
    <2>3. /\ handler' = [handler EXCEPT ![h] = next]
          /\ past' = [past EXCEPT !.overlapped = @ \/ Overlaps(h)]
          /\ UNCHANGED <<live, store>>
        BY <1>4 DEF ReadHint
    <2>4. past' \in Past /\ past'.earned = past.earned
        BY <2>3, <1>a DEF Past, Overlaps
    <2> HIDE DEF next
    <2> QED BY <2>2, <2>3, <2>4, <1>a, RollKept
<1>5. ASSUME NEW h \in Handlers, VoiceHint(h) \/ SkipWrite(h) PROVE ServiceInv'
    <2>1. PICK stage \in Stage :
              handler' = [handler EXCEPT ![h] = To(h, stage)] /\ UNCHANGED <<live, store, past>>
        BY <1>5, <1>b DEF VoiceHint, SkipWrite
    <2>2. To(h, stage) \in Handler /\ To(h, stage).roll = handler[h].roll
        BY <1>a, ToType
    <2> QED BY <2>1, <2>2, <1>a, RollKept
<1>6. ASSUME NEW h \in Handlers, TakeIndex(h) PROVE ServiceInv'
    <2> DEFINE next == [To(h, "indexed") EXCEPT !.index = live.turnCount]
    <2>1. next \in Handler /\ next.roll = handler[h].roll
        BY <1>a, <1>b, ToType DEF Handler, LiveSession
    <2>2. /\ handler' = [handler EXCEPT ![h] = next]
          /\ live' = [live EXCEPT !.turnCount = @ + 1]
          /\ UNCHANGED <<store, past>>
        BY <1>6 DEF TakeIndex
    <2>3. live' \in LiveSession /\ live'.confirmed = live.confirmed /\ live'.paused = live.paused
          /\ live'.kc = live.kc
        BY <2>2, <1>a DEF LiveSession
    <2>4. OneLevel(live')
        BY <2>3, <1>a DEF OneLevel
    <2> HIDE DEF next
    <2> QED BY <2>1, <2>2, <2>3, <2>4, <1>a, RollKept
<1>7. ASSUME NEW h \in Handlers, InsertTurn(h) PROVE ServiceInv'
    <2> DEFINE next == [To(h, "rolled") EXCEPT !.roll = MasteryRollup(live)]
    <2>1. next \in Handler /\ next.roll = MasteryRollup(live)
        BY <1>a, <1>b, ToType, RollType DEF Handler
    <2>2. handler' = [handler EXCEPT ![h] = next] /\ UNCHANGED <<live, store, past>>
        BY <1>7 DEF InsertTurn
    <2> HIDE DEF next
    <2>3. ServiceTypeOK'
        BY <2>1, <2>2, HandlerUpdate DEF ServiceTypeOK, OneLevel
    <2>4. \A g \in Handlers : handler'[g].roll.row = "confirmed" => handler'[g].roll.kc \in past'.earned
        BY <2>1, <2>2, <1>a, HandlerUpdate, RollType DEF EarnedInv
    <2> QED BY <2>2, <2>3, <2>4 DEF EarnedInv, StoredWasEarned
<1>8. ASSUME NEW h \in Handlers, SelectRow(h) PROVE ServiceInv'
    <2> DEFINE kc == handler[h].roll.kc
               next == [To(h, "selected") EXCEPT !.loaded = IF kc = NoLesson THEN "none"
                                                            ELSE store.rows[kc]]
    <2>1. (IF kc = NoLesson THEN "none" ELSE store.rows[kc]) \in Row
        BY <1>a DEF ServiceTypeOK, Handler, Row
    <2>2. next \in Handler /\ next.roll = handler[h].roll
        BY <2>1, <1>a, <1>b, ToType DEF Handler
    <2>3. handler' = [handler EXCEPT ![h] = next] /\ UNCHANGED <<live, store, past>>
        BY <1>8 DEF SelectRow
    <2> HIDE DEF next
    <2> QED BY <2>2, <2>3, <1>a, RollKept
<1>9. ASSUME NEW h \in Handlers, Commit(h) PROVE ServiceInv'
    <2> DEFINE roll == handler[h].roll
               written(k) == IF k = roll.kc /\ roll.row # handler[h].loaded THEN roll.row
                             ELSE store.rows[k]
    <2>1. /\ store' = [store EXCEPT !.turns = Append(@, handler[h].index),
                                   !.rows = [k \in Lessons |-> written(k)]]
          /\ handler' = [handler EXCEPT ![h] = Done(h)]
          /\ UNCHANGED <<live, past>>
        BY <1>9 DEF Commit
    <2>2. Done(h) \in Handler /\ Done(h).roll = NoRoll
        BY <1>a, DoneType
    <2>3. \A k \in Lessons : written(k) \in Row
        BY <1>a DEF ServiceTypeOK, Handler
    <2>4. handler[h].index \in Nat
        BY <1>a DEF Handler
    <2>5. store' \in [opened : BOOLEAN, turns : Seq(Nat), rows : [Lessons -> Row]]
          /\ store'.rows = [k \in Lessons |-> written(k)]
        <3>1. store \in [opened : BOOLEAN, turns : Seq(Nat), rows : [Lessons -> Row]]
            BY DEF ServiceTypeOK
        <3>2. Append(store.turns, handler[h].index) \in Seq(Nat)
            BY <2>4, <3>1
        <3>3. [k \in Lessons |-> written(k)] \in [Lessons -> Row]
            <4> HIDE DEF written
            <4> QED BY <2>3
        <3> HIDE DEF written
        <3> QED BY <2>1, <3>1, <3>2, <3>3
    <2>6. ServiceTypeOK'
        BY <2>1, <2>2, <2>5, HandlerUpdate DEF ServiceTypeOK, OneLevel
    <2>7. StoredWasEarned'
        BY <2>1, <2>5 DEF EarnedInv, StoredWasEarned
    <2>8. \A g \in Handlers : handler'[g].roll.row = "confirmed" => handler'[g].roll.kc \in past'.earned
        BY <2>1, <2>2, <1>a, HandlerUpdate DEF EarnedInv, NoRoll
    <2> QED BY <2>1, <2>6, <2>7, <2>8 DEF EarnedInv
<1>10. ASSUME NEW h \in Handlers, WriteFails(h) PROVE ServiceInv'
    <2>1. Done(h) \in Handler /\ Done(h).roll = NoRoll
        BY <1>a, DoneType
    <2>2. /\ handler' = [handler EXCEPT ![h] = Done(h)]
          /\ past' = [past EXCEPT !.lost = TRUE]
          /\ UNCHANGED <<live, store>>
        BY <1>10 DEF WriteFails
    <2>3. past' \in Past /\ past'.earned = past.earned
        BY <2>2, <1>a DEF Past
    <2> QED BY <2>1, <2>2, <2>3, <1>a, RollKept
<1>11. ASSUME NEW h \in Handlers, Dropped(h) PROVE ServiceInv'
    <2>1. Free \in Handler /\ Free.roll = NoRoll
        BY FreeType DEF Free
    <2> QED BY <2>1, <1>11, <1>a, RollKept DEF Dropped
<1>12. CASE Restart
    <2> DEFINE lost == \E h \in Handlers : handler[h].stage \in Writing
    <2>1. /\ live' = Gone /\ handler' = [h \in Handlers |-> Free] /\ UNCHANGED store
          /\ past' = [past EXCEPT !.restarts = @ + 1, !.lost = @ \/ lost]
        BY <1>12 DEF Restart
    <2>2. past' \in Past /\ past'.earned = past.earned
        <3>1. past.restarts + 1 \in Nat /\ (past.lost \/ lost) \in BOOLEAN
            BY <1>a DEF Past
        <3>2. ASSUME NEW n \in Nat, NEW b \in BOOLEAN
              PROVE  /\ [past EXCEPT !.restarts = n, !.lost = b] \in Past
                     /\ [past EXCEPT !.restarts = n, !.lost = b].earned = past.earned
            BY <1>a DEF Past
        <3>3. past' = [past EXCEPT !.restarts = past.restarts + 1, !.lost = past.lost \/ lost]
            BY <2>1
        <3> HIDE DEF lost
        <3> QED BY <3>1, <3>2, <3>3
    <2>3. ServiceTypeOK'
        BY <2>1, <2>2, GoneType, FreeType DEF ServiceTypeOK, OneLevel
    <2>4. live'.confirmed = {} /\ live'.paused = {}
        BY <2>1 DEF Gone, Start
    <2>5. \A h \in Handlers : handler'[h].roll.row = "none"
        BY <2>1 DEF Free, NoRoll
    <2> QED BY <2>1, <2>2, <2>3, <2>4, <2>5 DEF EarnedInv, StoredWasEarned
<1>13. CASE Resume
    <2>1. live' = Rehydrated /\ past' = [past EXCEPT !.served = Fresh] /\ UNCHANGED <<handler, store>>
        BY <1>13 DEF Resume
    <2>2. Fresh \in Nat /\ Len(store.turns) \in Nat
        BY <1>a DEF Fresh, Past, ServiceTypeOK
    <2>3. Start(TRUE) \in LiveSession /\ Start(TRUE).kc = Goal /\ Start(TRUE).paused = {}
        BY StartType DEF Start
    <2>4. live' \in LiveSession /\ live'.kc = Goal /\ live'.paused = {}
          /\ live'.confirmed = {k \in Lessons : store.rows[k] = "confirmed"}
        BY <2>1, <2>2, <2>3 DEF Rehydrated, LiveSession
    <2>5. past' \in Past /\ past'.earned = past.earned
        BY <2>1, <2>2, <1>a DEF Past
    <2>6. ServiceTypeOK'
        BY <2>1, <2>4, <2>5 DEF ServiceTypeOK, OneLevel
    <2> QED BY <2>1, <2>4, <2>5, <2>6 DEF EarnedInv, StoredWasEarned
<1>14. CASE UNCHANGED serviceVars
    BY <1>14 DEF serviceVars, ServiceTypeOK, EarnedInv, StoredWasEarned, OneLevel
<1> QED BY <1>1, <1>2, <1>3, <1>4, <1>5, <1>6, <1>7, <1>8, <1>9, <1>10, <1>11, <1>12, <1>13, <1>14
        DEF ServiceStep, HandlerStep
--------------------------------------------------------------------------------
(* The page in front of it.                                                *)

PageTypeOK ==
    /\ page \in Page
    /\ waiting \subseteq Handlers
    /\ calls \in Nat /\ disturbed \in BOOLEAN

IInv == ServiceInv /\ PageTypeOK

LEMMA PageUpdates ==
    ASSUME page \in Page, NEW reply \in Reply, NEW call \in {"submit", "hint"}
    PROVE  /\ AfterError(call) \in Page
           /\ AfterReply(call, reply) \in Page
           /\ [page EXCEPT !.phase = "submitting"] \in Page
           /\ [page EXCEPT !.phase = "answering", !.item = page.result.next,
                           !.result = NoReply, !.hinted = FALSE] \in Page
<1>1. AfterError(call) \in Page
    BY DEF AfterError, Page
<1>2. AfterReply(call, reply) \in Page
    <2>1. CASE reply.kind = "verdict"
        BY <2>1 DEF AfterReply, Page
    <2>2. CASE reply.kind = "hint"
        BY <2>2 DEF AfterReply, Page
    <2>3. CASE reply.kind \notin {"verdict", "hint"}
        BY <1>1, <2>3 DEF AfterReply
    <2> QED BY <2>1, <2>2, <2>3
<1>3. page.result.next \in Nat /\ NoReply \in Reply
    BY ReplyTypes DEF Page, Reply
<1>4. [page EXCEPT !.phase = "answering", !.item = page.result.next,
                   !.result = NoReply, !.hinted = FALSE] \in Page
    <2>1. ASSUME NEW n \in Nat, NEW r \in Reply
          PROVE  [page EXCEPT !.phase = "answering", !.item = n, !.result = r, !.hinted = FALSE]
                     \in Page
        BY DEF Page
    <2> QED BY <1>3, <2>1
<1>5. [page EXCEPT !.phase = "submitting"] \in Page
    BY DEF Page
<1> QED BY <1>1, <1>2, <1>4, <1>5

LEMMA IInvInit == Init => IInv
<1> SUFFICES ASSUME Init PROVE IInv
    OBVIOUS
<1>1. ServiceInv
    BY ServiceInvInit DEF Init
<1>2. live.item \in Nat
    BY <1>1 DEF ServiceInv, ServiceTypeOK, LiveSession
<1>3. page \in Page
    BY <1>2, ReplyTypes DEF Init, Page
<1> QED BY <1>1, <1>3 DEF IInv, PageTypeOK, Init

LEMMA IInvStep == IInv /\ [Next]_vars => IInv'
<1> SUFFICES ASSUME IInv, [Next]_vars PROVE IInv'
    OBVIOUS
<1>1. ServiceInv'
    BY ServiceInvStep, NextIsServiceStep DEF IInv, vars, ServiceStep, serviceVars
<1>a. /\ handler \in [Handlers -> Handler] /\ page \in Page /\ waiting \subseteq Handlers
      /\ calls \in Nat /\ disturbed \in BOOLEAN
    BY DEF IInv, ServiceInv, ServiceTypeOK, PageTypeOK
<1>b. \A h \in Handlers : handler[h].call \in {"submit", "hint"} /\ handler[h].reply \in Reply
    BY <1>a DEF Handler
<1>c. Busy \in BOOLEAN
    BY DEF Busy
<1>2. ASSUME NEW h \in Handlers, Submit(h) \/ AskHint(h) PROVE PageTypeOK'
    <2>1. page' \in Page
        BY <1>2, <1>a, PageUpdates, ReplyTypes DEF Submit, AskHint
    <2>2. waiting' = waiting \cup {h} /\ calls' = calls + 1 /\ disturbed' = (disturbed \/ Busy)
        BY <1>2 DEF Submit, AskHint, Call
    <2> QED BY <2>1, <2>2, <1>a, <1>c DEF PageTypeOK
<1>3. ASSUME NEW h \in Handlers, Receive(h) PROVE PageTypeOK'
    <2>1. /\ page' = AfterReply(handler[h].call, handler[h].reply)
          /\ waiting' = waiting \ {h} /\ calls' = calls
          /\ disturbed' = (disturbed \/ handler[h].reply.kind = "error")
        BY <1>3 DEF Receive
    <2>2. page' \in Page
        BY <2>1, <1>a, <1>b, PageUpdates
    <2> QED BY <2>1, <2>2, <1>a DEF PageTypeOK
<1>4. ASSUME NEW h \in Handlers, LoseRequest(h) \/ LoseReply(h) PROVE PageTypeOK'
    <2>1. page' = AfterError(handler[h].call) /\ waiting' = waiting \ {h} /\ disturbed' = TRUE
          /\ calls' = calls
        BY <1>4 DEF LoseRequest, LoseReply
    <2>2. page' \in Page
        BY <2>1, <1>a, <1>b, PageUpdates, ReplyTypes
    <2> QED BY <2>1, <2>2, <1>a DEF PageTypeOK
<1>5. ASSUME UNCHANGED <<page, waiting, calls, disturbed>> PROVE PageTypeOK'
    BY <1>5, <1>a DEF PageTypeOK
<1>6. ASSUME HandleNext PROVE PageTypeOK'
    BY <1>6, <1>a, PageUpdates, ReplyTypes DEF HandleNext, PageTypeOK
<1>7. ASSUME ServiceRestarts PROVE PageTypeOK'
    BY <1>7, <1>a, PageUpdates, ReplyTypes DEF ServiceRestarts, PageTypeOK
<1>8. PageTypeOK'
    BY <1>2, <1>3, <1>4, <1>5, <1>6, <1>7 DEF Next, vars, Discard
<1> QED BY <1>1, <1>8 DEF IInv

(* Every reachable state has the types of the model, whatever overlapped,  *)
(* failed or was restarted: a pass swaps tutor and paused parent in one    *)
(* step (service.py:1342).                                                 *)
THEOREM SpecTypeOK == Spec => []TypeOK
<1>1. IInv => TypeOK
    BY DEF IInv, ServiceInv, ServiceTypeOK, OneLevel, PageTypeOK, TypeOK
<1> QED BY <1>1, IInvInit, IInvStep, PTL DEF Spec

(* The rows never confirm a lesson whose probe was not passed.             *)
THEOREM SpecStoredWasEarned == Spec => []StoredWasEarned
<1>1. IInv => StoredWasEarned
    BY DEF IInv, ServiceInv, EarnedInv
<1> QED BY <1>1, IInvInit, IInvStep, PTL DEF Spec
--------------------------------------------------------------------------------
(* Turn indexes.  As long as no write was lost, the rows and the handlers  *)
(* on their way to write one hold each index below the turn count once.    *)

Writers == {h \in Handlers : handler[h].stage \in Writing}

(* No record, no work: a restart freed every handler.                      *)
IdleWhenGone ==
    /\ live = Gone \/ live.present
    /\ live = Gone => \A h \in Handlers : handler[h].stage \notin Working

IndexCount ==
    /\ live.present => Len(store.turns) + Cardinality(Writers) = live.turnCount
    /\ \A i \in 1..Len(store.turns) :
          store.turns[i] < (IF live.present THEN live.turnCount ELSE Len(store.turns))
    /\ \A i, j \in 1..Len(store.turns) : i # j => store.turns[i] # store.turns[j]
    /\ \A h \in Writers :
          /\ handler[h].index < live.turnCount
          /\ \A i \in 1..Len(store.turns) : store.turns[i] # handler[h].index
          /\ \A g \in Writers \ {h} : handler[g].index # handler[h].index

IndexInv == IdleWhenGone /\ (past.lost \/ IndexCount)

LEMMA WritersFinite == IsFiniteSet(Writers) /\ Cardinality(Writers) \in Nat
BY ServiceAssumption, FS_Subset, FS_CardinalityType DEF Writers

LEMMA IndexInvInit == ServiceInit => IndexInv
<1> SUFFICES ASSUME ServiceInit PROVE IndexInv
    OBVIOUS
<1>0. PICK opened \in BOOLEAN :
          /\ live = Start(opened)
          /\ store = [opened |-> opened, turns |-> <<>>, rows |-> [k \in Lessons |-> "none"]]
    BY DEF ServiceInit
<1>1. /\ store.turns = <<>> /\ live.present /\ live.turnCount = 0
      /\ \A h \in Handlers : handler[h].stage = "free"
    BY <1>0 DEF ServiceInit, Start, Free
<1>2. Writers = {} /\ \A h \in Handlers : handler[h].stage \notin Working
    BY <1>1 DEF Writers, Writing, Working
<1>3. Len(store.turns) = 0 /\ Cardinality(Writers) = 0
    BY <1>1, <1>2, FS_EmptySet
<1> QED BY <1>1, <1>2, <1>3 DEF IndexInv, IdleWhenGone, IndexCount

(* A step of a handler that does not start or end a write changes nothing. *)
LEMMA WritersKept ==
    ASSUME ServiceTypeOK, IndexInv, NEW h \in Handlers, NEW next,
           handler' = [handler EXCEPT ![h] = next],
           next.stage \in Writing <=> handler[h].stage \in Writing,
           next.stage \in Writing => next.index = handler[h].index,
           next.stage \in Working => live' # Gone,
           live' = live \/ (live' # Gone /\ live'.present),
           live'.present = live.present, live'.turnCount = live.turnCount,
           store'.turns = store.turns, past'.lost = past.lost
    PROVE  IndexInv'
<1>1. handler'[h] = next /\ \A g \in Handlers \ {h} : handler'[g] = handler[g]
    BY DEF ServiceTypeOK
<1>2. Writers' = Writers
    BY <1>1 DEF Writers
<1>3. \A g \in Writers : handler'[g].index = handler[g].index
    BY <1>1 DEF Writers
<1>4. IdleWhenGone'
    BY <1>1 DEF IndexInv, IdleWhenGone
<1>5. IndexCount => IndexCount'
    BY <1>2, <1>3 DEF IndexCount
<1> QED BY <1>4, <1>5 DEF IndexInv

LEMMA TakeIndexCounts ==
    ASSUME ServiceTypeOK, IndexInv, NEW h \in Handlers, TakeIndex(h)
    PROVE  IndexInv'
<1>1. /\ live \in LiveSession /\ handler \in [Handlers -> Handler]
      /\ store.turns \in Seq(Nat) /\ past \in Past
    BY DEF ServiceTypeOK
<1>2. /\ handler[h].stage = "decided"
      /\ handler' = [handler EXCEPT ![h] = [To(h, "indexed") EXCEPT !.index = live.turnCount]]
      /\ live' = [live EXCEPT !.turnCount = @ + 1]
      /\ UNCHANGED <<store, past>>
    BY DEF TakeIndex
<1>3. /\ handler'[h].stage = "indexed" /\ handler'[h].index = live.turnCount
      /\ \A g \in Handlers \ {h} : handler'[g] = handler[g]
    BY <1>1, <1>2 DEF To, Handler
<1>4. live.present /\ live # Gone
    BY <1>2 DEF IndexInv, IdleWhenGone, Working
<1>5. /\ live'.present /\ live'.turnCount = live.turnCount + 1 /\ live.turnCount \in Nat
    BY <1>1, <1>2, <1>4 DEF LiveSession
<1>6. h \notin Writers /\ Writers' = Writers \cup {h}
    BY <1>2, <1>3 DEF Writers, Writing
<1>7. Cardinality(Writers') = Cardinality(Writers) + 1
    BY <1>6, WritersFinite, FS_AddElement
<1>8. IdleWhenGone'
    BY <1>5, GoneType DEF IdleWhenGone
<1>9. ASSUME IndexCount PROVE IndexCount'
    <2>1. Len(store'.turns) + Cardinality(Writers') = live'.turnCount
        <3>1. Len(store.turns) + Cardinality(Writers) = live.turnCount
            BY <1>4, <1>9 DEF IndexCount
        <3>2. Len(store.turns) \in Nat /\ store'.turns = store.turns
            BY <1>1, <1>2
        <3> QED BY <1>5, <1>7, <3>1, <3>2, WritersFinite
    <2>2. \A i \in 1..Len(store.turns) : store.turns[i] < live.turnCount /\ store.turns[i] \in Nat
        BY <1>1, <1>4, <1>9 DEF IndexCount
    <2>3. \A g \in Writers : handler'[g] = handler[g] /\ handler[g].index < live.turnCount
                            /\ handler[g].index \in Nat
        BY <1>1, <1>3, <1>6, <1>9 DEF IndexCount, Writers, Handler
    <2>4. \A g \in Writers' :
              /\ handler'[g].index < live'.turnCount
              /\ \A i \in 1..Len(store'.turns) : store'.turns[i] # handler'[g].index
              /\ \A f \in Writers' \ {g} : handler'[f].index # handler'[g].index
        BY <1>2, <1>3, <1>5, <1>6, <1>9, <2>2, <2>3 DEF IndexCount
    <2>5. \A i \in 1..Len(store'.turns) : store'.turns[i] < live'.turnCount
        BY <1>2, <1>5, <2>2
    <2> QED BY <1>2, <1>5, <1>9, <2>1, <2>4, <2>5 DEF IndexCount
<1> QED BY <1>2, <1>8, <1>9 DEF IndexInv

LEMMA CommitCounts ==
    ASSUME ServiceTypeOK, IndexInv, NEW h \in Handlers, Commit(h)
    PROVE  IndexInv'
<1>1. /\ live \in LiveSession /\ handler \in [Handlers -> Handler]
      /\ store \in [opened : BOOLEAN, turns : Seq(Nat), rows : [Lessons -> Row]]
    BY DEF ServiceTypeOK
<1> DEFINE index == handler[h].index
           n == Len(store.turns)
<1>2. /\ handler[h].stage = "selected"
      /\ handler' = [handler EXCEPT ![h] = Done(h)]
      /\ store'.turns = Append(store.turns, index)
      /\ UNCHANGED <<live, past>>
    BY <1>1 DEF Commit
<1>3. Done(h).stage = "done"
    BY <1>1 DEF Done, To, Handler
<1>4. handler'[h].stage = "done" /\ \A g \in Handlers \ {h} : handler'[g] = handler[g]
    BY <1>1, <1>2, <1>3
<1>5. live.present /\ live # Gone
    BY <1>2 DEF IndexInv, IdleWhenGone, Working, Writing
<1>6. h \in Writers /\ Writers' = Writers \ {h}
    BY <1>2, <1>4 DEF Writers, Writing
<1>7. Cardinality(Writers') = Cardinality(Writers) - 1
    BY <1>6, WritersFinite, FS_RemoveElement
<1>8. IdleWhenGone'
    BY <1>2, <1>5, GoneType DEF IdleWhenGone
<1>9. ASSUME IndexCount PROVE IndexCount'
    <2>1. index \in Nat /\ index < live.turnCount /\ \A i \in 1..n : store.turns[i] # index
        BY <1>1, <1>6, <1>9 DEF IndexCount, Handler
    <2>2. /\ Len(store'.turns) = n + 1 /\ n \in Nat
          /\ store'.turns[n + 1] = index
          /\ \A i \in 1..n : store'.turns[i] = store.turns[i]
        BY <1>1, <1>2, <2>1
    <2>3. live.turnCount \in Nat /\ n + Cardinality(Writers) = live.turnCount
        BY <1>1, <1>5, <1>9 DEF IndexCount, LiveSession
    <2>4. Len(store'.turns) + Cardinality(Writers') = live'.turnCount
        BY <1>2, <1>7, <2>2, <2>3, WritersFinite
    <2>5. \A i \in 1..Len(store'.turns) : i = n + 1 \/ i \in 1..n
        BY <2>2
    <2>6. \A i \in 1..Len(store'.turns) : store'.turns[i] < live'.turnCount
        BY <1>2, <1>5, <1>9, <2>1, <2>2, <2>5 DEF IndexCount
    <2>7. \A i, j \in 1..Len(store'.turns) : i # j => store'.turns[i] # store'.turns[j]
        BY <1>9, <2>1, <2>2, <2>5 DEF IndexCount
    <2>8. \A g \in Writers' :
              /\ handler'[g].index < live'.turnCount
              /\ \A i \in 1..Len(store'.turns) : store'.turns[i] # handler'[g].index
              /\ \A f \in Writers' \ {g} : handler'[f].index # handler'[g].index
        <3>1. \A g \in Writers' : g \in Writers \ {h} /\ handler'[g] = handler[g]
            BY <1>4, <1>6 DEF Writers
        <3>2. \A g \in Writers \ {h} : handler[g].index # index
            BY <1>6, <1>9 DEF IndexCount
        <3> QED BY <1>2, <1>9, <2>2, <2>5, <3>1, <3>2 DEF IndexCount
    <2> HIDE DEF n, index
    <2> QED BY <1>2, <1>5, <2>4, <2>6, <2>7, <2>8 DEF IndexCount
<1> QED BY <1>2, <1>8, <1>9 DEF IndexInv

LEMMA IndexInvStep == ServiceTypeOK /\ IndexInv /\ ServiceStep => IndexInv'
<1> SUFFICES ASSUME ServiceTypeOK, IndexInv, ServiceStep PROVE IndexInv'
    OBVIOUS
<1>a. live \in LiveSession /\ handler \in [Handlers -> Handler] /\ past \in Past
    BY DEF ServiceTypeOK
<1>b. live = Gone => ~live.present /\ \A h \in Handlers : handler[h].stage \notin Working
    BY GoneType DEF IndexInv, IdleWhenGone
<1>c. live # Gone => live.present
    BY DEF IndexInv, IdleWhenGone
<1>1. ASSUME NEW h \in Handlers, NEW call \in {"submit", "hint"}, Arrive(h, call) PROVE IndexInv'
    <2>1. Free.stage = "free" /\ [Free EXCEPT !.stage = "sent", !.call = call].stage = "sent"
        BY DEF Free
    <2> QED BY <1>1, <2>1, WritersKept DEF Arrive, Writing, Working
<1>2. ASSUME NEW h \in Handlers, NotFound(h) PROVE IndexInv'
    <2>1. [To(h, "done") EXCEPT !.reply = ErrorReply].stage = "done"
        BY <1>a DEF To, Handler
    <2> QED BY <1>2, <2>1, WritersKept DEF NotFound, Writing, Working
<1>3. ASSUME NEW h \in Handlers, Decide(h) PROVE IndexInv'
    <2>1. PICK o \in AnswerOutcomes(live) :
              /\ live' = o.live
              /\ handler' = [handler EXCEPT ![h] =
                     [To(h, IF o.reply = ErrorReply THEN "done" ELSE "decided")
                         EXCEPT !.reply = o.reply]]
              /\ past' = [past EXCEPT !.served = Fresh,
                                      !.earned = @ \cup ({o.reply.passed} \cap Lessons),
                                      !.overlapped = @ \/ Overlaps(h)]
        BY <1>3 DEF Decide
    <2>2. Carries(live, o)
        BY OutcomeGood, <1>a DEF GoodOutcome, ServiceTypeOK
    <2>3. [To(h, IF o.reply = ErrorReply THEN "done" ELSE "decided") EXCEPT !.reply = o.reply].stage
              \in {"done", "decided"}
        BY <1>a DEF To, Handler
    <2>4. past'.lost = past.lost
        BY <1>a, <2>1 DEF Past
    <2>5. handler[h].stage = "sent" /\ live # Gone /\ UNCHANGED store
        BY <1>3 DEF Decide
    <2>6. live'.present /\ live' # Gone /\ live'.turnCount = live.turnCount
        BY <1>c, <2>1, <2>2, <2>5, GoneType DEF Carries
    <2> QED BY <1>c, <2>1, <2>3, <2>4, <2>5, <2>6, WritersKept DEF Writing, Working
<1>4. ASSUME NEW h \in Handlers, ReadHint(h) PROVE IndexInv'
    <2> DEFINE next == [To(h, IF live.probing THEN "decided" ELSE "voicing")
                       EXCEPT !.reply = [kind |-> "hint", next |-> live.item, passed |-> NoLesson]]
    <2>1. next.stage \in {"decided", "voicing"}
        BY <1>a DEF To, Handler
    <2>2. /\ handler' = [handler EXCEPT ![h] = next]
          /\ past' = [past EXCEPT !.overlapped = @ \/ Overlaps(h)]
          /\ handler[h].stage = "sent" /\ live # Gone /\ UNCHANGED <<live, store>>
        BY <1>4 DEF ReadHint
    <2>3. past'.lost = past.lost
        BY <1>a, <2>2 DEF Past
    <2> HIDE DEF next
    <2> QED BY <2>1, <2>2, <2>3, WritersKept DEF Writing, Working
<1>5. ASSUME NEW h \in Handlers, VoiceHint(h) \/ SkipWrite(h) PROVE IndexInv'
    <2>1. To(h, "decided").stage = "decided" /\ To(h, "done").stage = "done"
        BY <1>a DEF To, Handler
    <2>2. live # Gone
        BY <1>5, <1>b DEF VoiceHint, SkipWrite, Working
    <2> QED BY <1>5, <2>1, <2>2, WritersKept DEF VoiceHint, SkipWrite, Writing, Working
<1>6. ASSUME NEW h \in Handlers, TakeIndex(h) PROVE IndexInv'
    BY <1>6, TakeIndexCounts
<1>7. ASSUME NEW h \in Handlers, InsertTurn(h) \/ SelectRow(h) PROVE IndexInv'
    <2>1. PICK next \in {handler'[h]} :
              /\ handler' = [handler EXCEPT ![h] = next]
              /\ next.stage \in {"rolled", "selected"} /\ next.index = handler[h].index
        <3>1. CASE InsertTurn(h)
            BY <3>1, <1>a DEF InsertTurn, To, Handler
        <3>2. CASE SelectRow(h)
            BY <3>2, <1>a DEF SelectRow, To, Handler
        <3> QED BY <1>7, <3>1, <3>2
    <2>2. handler[h].stage \in {"indexed", "rolled"} /\ UNCHANGED <<live, store, past>>
        BY <1>7 DEF InsertTurn, SelectRow
    <2>3. live # Gone
        BY <2>2, <1>b DEF Working, Writing
    <2> QED BY <2>1, <2>2, <2>3, WritersKept DEF Writing, Working
<1>8. ASSUME NEW h \in Handlers, Commit(h) PROVE IndexInv'
    BY <1>8, CommitCounts
<1>9. ASSUME NEW h \in Handlers, WriteFails(h) PROVE IndexInv'
    <2>1. /\ handler' = [handler EXCEPT ![h] = Done(h)] /\ handler[h].stage \in Writing
          /\ past' = [past EXCEPT !.lost = TRUE] /\ UNCHANGED live
        BY <1>9 DEF WriteFails
    <2>2. past'.lost
        BY <2>1, <1>a DEF Past
    <2>3. live # Gone
        BY <2>1, <1>b DEF Working
    <2> QED BY <1>c, <2>1, <2>2, <2>3 DEF IndexInv, IdleWhenGone
<1>10. ASSUME NEW h \in Handlers, Dropped(h), handler[h].stage \in {"sent", "done"} PROVE IndexInv'
    <2>1. Free.stage = "free"
        BY DEF Free
    <2> QED BY <1>10, <2>1, WritersKept DEF Dropped, Writing, Working
<1>11. CASE Restart
    <2> DEFINE lost == \E h \in Handlers : handler[h].stage \in Writing
    <2>1. /\ live' = Gone /\ live # Gone /\ handler' = [h \in Handlers |-> Free] /\ UNCHANGED store
          /\ past' = [past EXCEPT !.restarts = @ + 1, !.lost = @ \/ lost]
        BY <1>11 DEF Restart
    <2>2. past'.lost = (past.lost \/ lost)
        <3> HIDE DEF lost
        <3> QED BY <2>1, <1>a DEF Past
    <2>3. \A h \in Handlers : handler'[h].stage = "free"
        BY <2>1 DEF Free
    <2>4. Writers' = {} /\ IdleWhenGone'
        BY <2>1, <2>3 DEF Writers, Writing, IdleWhenGone, Working
    <2>5. ASSUME ~past'.lost PROVE IndexCount'
        <3>1. Writers = {} /\ IndexCount
            BY <2>2, <2>5 DEF Writers, IndexInv
        <3>2. Cardinality(Writers) = 0
            BY <3>1, FS_EmptySet
        <3>3. Len(store.turns) = live.turnCount /\ live.present
            BY <1>c, <2>1, <3>1, <3>2 DEF IndexCount, ServiceTypeOK
        <3>4. ~live'.present
            BY <2>1, GoneType
        <3> QED BY <2>1, <2>4, <3>1, <3>3, <3>4 DEF IndexCount
    <2> QED BY <2>4, <2>5 DEF IndexInv
<1>12. CASE Resume
    <2>1. live' = Rehydrated /\ past' = [past EXCEPT !.served = Fresh] /\ UNCHANGED <<handler, store>>
          /\ live = Gone
        BY <1>12 DEF Resume
    <2>2. live'.present /\ live'.turnCount = Len(store.turns)
        BY <2>1 DEF Rehydrated, Start
    <2>3. past'.lost = past.lost
        BY <2>1, <1>a DEF Past
    <2>4. Writers = {} /\ Writers' = {}
        BY <1>b, <2>1 DEF Writers, Working
    <2>5. Cardinality(Writers') = 0
        BY <2>4, FS_EmptySet
    <2>6. IdleWhenGone'
        BY <2>2, GoneType DEF IdleWhenGone
    <2>7. Len(store.turns) \in Nat
        BY DEF ServiceTypeOK
    <2>8. IndexCount => IndexCount'
        BY <1>b, <2>1, <2>2, <2>4, <2>5, <2>7 DEF IndexCount
    <2> QED BY <2>3, <2>6, <2>8 DEF IndexInv
<1>13. CASE UNCHANGED serviceVars
    BY <1>13 DEF serviceVars, IndexInv, IdleWhenGone, IndexCount, Writers
<1> QED BY <1>1, <1>2, <1>3, <1>4, <1>5, <1>6, <1>7, <1>8, <1>9, <1>10, <1>11, <1>12, <1>13
        DEF ServiceStep, HandlerStep

(* The turn indexes repeat only after a lost write: a resume that counts   *)
(* the rows goes on where the last process stopped (service.py:1878).      *)
THEOREM SpecIndexesRepeatOnlyAfterLoss == Spec => []IndexesRepeatOnlyAfterLoss
<1>1. Init => IInv /\ IndexInv
    BY IInvInit, IndexInvInit DEF Init
<1>2. IInv /\ IndexInv /\ [Next]_vars => (IInv /\ IndexInv)'
    BY IInvStep, IndexInvStep, NextIsServiceStep
        DEF IInv, ServiceInv, vars, ServiceStep, serviceVars
<1>3. IInv /\ IndexInv => IndexesRepeatOnlyAfterLoss
    BY DEF IndexInv, IndexCount, IndexesRepeatOnlyAfterLoss
<1> QED BY <1>1, <1>2, <1>3, PTL DEF Spec
--------------------------------------------------------------------------------
(* Stored confirmations.  A nested pass is never stored, because it brings *)
(* the parent back before the write: only the goal is stored as confirmed. *)

GoalOnly(l) ==
    /\ l.confirmed \subseteq {Goal}
    /\ \A s \in l.paused : s \subseteq {Goal}
    /\ l.kc # Goal => l.confirmed = {}

Held(l) == l.confirmed \cup UNION l.paused

RollInv ==
    \A h \in Handlers :
        /\ handler[h].roll # NoRoll => handler[h].stage \in {"rolled", "selected"}
        /\ handler[h].roll.kc \in Lessons => handler[h].roll.row \in {"open", "confirmed"}
        /\ handler[h].roll.row = "confirmed" => handler[h].roll.kc = Goal

(* Without overlap one handler works at a time, and the write on its way   *)
(* agrees with what the live record still holds.                           *)
QuietRows ==
    /\ \A g, h \in Handlers :
          handler[g].stage \in Working /\ handler[h].stage \in Working => g = h
    /\ store.rows[Goal] = "confirmed" /\ live.present => Goal \in Held(live)
    /\ \A h \in Handlers :
          /\ handler[h].roll = [kc |-> Goal, row |-> "open"] => store.rows[Goal] # "confirmed"
          /\ handler[h].roll.row = "confirmed" => Goal \in Held(live)

RowsInv ==
    /\ IdleWhenGone
    /\ GoalOnly(live)
    /\ RollInv
    /\ \A k \in Lessons : store.rows[k] = "confirmed" => k = Goal
    /\ past.overlapped \/ QuietRows

LEMMA OutcomeHolds ==
    ASSUME NEW l \in LiveSession, OneLevel(l), GoalOnly(l), NEW o \in AnswerOutcomes(l)
    PROVE  GoalOnly(o.live) /\ Held(l) \subseteq Held(o.live)
<1> DEFINE Shown(m) == [m EXCEPT !.item = Fresh]
<1>1. \A m \in LiveSession :
          /\ Shown(m).confirmed = m.confirmed
          /\ Shown(m).paused = m.paused
          /\ Shown(m).kc = m.kc
    BY DEF LiveSession
<1>2. \A m, passed : Verdict(m, passed).live = Shown(m)
    BY DEF Verdict
<1>3. ASSUME NEW m \in LiveSession, GoalOnly(m), Held(l) \subseteq Held(m), o.live = Shown(m)
      PROVE  GoalOnly(o.live) /\ Held(l) \subseteq Held(o.live)
    <2> HIDE DEF Shown
    <2> QED BY <1>1, <1>3 DEF GoalOnly, Held
<1> HIDE DEF Shown
<1>4. ASSUME o \in PracticeOutcomes(l)
      PROVE  GoalOnly(o.live) /\ Held(l) \subseteq Held(o.live)
    <2> DEFINE practised == [l EXCEPT !.touched = TRUE]
               probed == [practised EXCEPT !.probing = TRUE]
               dropped(k) == [l EXCEPT !.kc = k, !.touched = FALSE, !.confirmed = {},
                                       !.paused = {l.confirmed}]
    <2>1. /\ practised \in LiveSession /\ probed \in LiveSession
          /\ practised.kc = l.kc /\ practised.confirmed = l.confirmed /\ practised.paused = l.paused
          /\ probed.kc = l.kc /\ probed.confirmed = l.confirmed /\ probed.paused = l.paused
        BY DEF LiveSession
    <2>2. ASSUME NEW k \in Lessons, l.paused = {}, o = Verdict(dropped(k), NoLesson)
          PROVE  GoalOnly(o.live) /\ Held(l) \subseteq Held(o.live)
        <3>1. /\ dropped(k) \in LiveSession /\ dropped(k).confirmed = {}
              /\ dropped(k).paused = {l.confirmed}
            BY DEF LiveSession
        <3> HIDE DEF dropped
        <3>2. GoalOnly(dropped(k)) /\ Held(l) \subseteq Held(dropped(k))
            BY <3>1, <2>2 DEF GoalOnly, Held
        <3> QED BY <1>2, <1>3, <2>2, <3>1, <3>2
    <2>3. o \in {Verdict(practised, NoLesson), Verdict(probed, NoLesson)}
          \/ \E k \in Lessons : l.paused = {} /\ o = Verdict(dropped(k), NoLesson)
        BY <1>4 DEF PracticeOutcomes
    <2> HIDE DEF practised, probed, dropped
    <2>4. CASE o \in {Verdict(practised, NoLesson), Verdict(probed, NoLesson)}
        <3>1. GoalOnly(practised) /\ GoalOnly(probed)
              /\ Held(l) = Held(practised) /\ Held(l) = Held(probed)
            BY <2>1 DEF GoalOnly, Held
        <3> QED BY <1>2, <1>3, <2>1, <2>4, <3>1
    <2> QED BY <2>2, <2>3, <2>4
<1>5. ASSUME o \in ProbeOutcomes(l)
      PROVE  GoalOnly(o.live) /\ Held(l) \subseteq Held(o.live)
    <2> DEFINE over == [l EXCEPT !.probing = FALSE]
               completed == [over EXCEPT !.confirmed = @ \cup {l.kc}]
               resumed == [over EXCEPT !.kc = Goal, !.confirmed = UNION l.paused, !.paused = {}]
    <2>0. UNION l.paused \in SUBSET Lessons /\ l.confirmed \cup {l.kc} \in SUBSET Lessons
        BY DEF LiveSession
    <2>1. /\ over \in LiveSession /\ over.kc = l.kc /\ over.confirmed = l.confirmed
          /\ over.paused = l.paused
        BY DEF LiveSession
    <2>2. /\ completed \in LiveSession /\ completed.kc = l.kc
          /\ completed.confirmed = l.confirmed \cup {l.kc} /\ completed.paused = l.paused
        BY <2>0 DEF LiveSession
    <2>3. /\ resumed \in LiveSession /\ resumed.kc = Goal
          /\ resumed.confirmed = UNION l.paused /\ resumed.paused = {}
        BY <2>0, ServiceAssumption DEF LiveSession
    <2>4. \/ o \in {Verdict(over, NoLesson), Verdict(l, NoLesson)}
          \/ l.paused = {} /\ o = Verdict(completed, l.kc)
          \/ l.paused # {} /\ o = Verdict(resumed, l.kc)
        BY <1>5 DEF ProbeOutcomes
    <2> HIDE DEF over, completed, resumed
    <2>5. CASE o \in {Verdict(over, NoLesson), Verdict(l, NoLesson)}
        <3>1. GoalOnly(over) /\ Held(over) = Held(l)
            BY <2>1 DEF GoalOnly, Held
        <3> QED BY <1>2, <1>3, <2>1, <2>5, <3>1
    <2>6. CASE l.paused = {} /\ o = Verdict(completed, l.kc)
        <3>1. GoalOnly(completed) /\ Held(l) \subseteq Held(completed)
            BY <2>2, <2>6 DEF GoalOnly, Held, OneLevel
        <3> QED BY <1>2, <1>3, <2>2, <2>6, <3>1
    <2>7. CASE l.paused # {} /\ o = Verdict(resumed, l.kc)
        <3>1. GoalOnly(resumed) /\ Held(l) \subseteq Held(resumed)
            BY <2>3, <2>7 DEF GoalOnly, Held, OneLevel
        <3> QED BY <1>2, <1>3, <2>3, <2>7, <3>1
    <2> QED BY <2>4, <2>5, <2>6, <2>7
<1>6. ASSUME o = FailedDrop(l)
      PROVE  GoalOnly(o.live) /\ Held(l) \subseteq Held(o.live)
    <2> DEFINE m == [l EXCEPT !.touched = TRUE, !.item = Fresh]
    <2>1. m.confirmed = l.confirmed /\ m.paused = l.paused /\ m.kc = l.kc
        BY DEF LiveSession
    <2>2. o.live = m
        BY <1>6 DEF FailedDrop
    <2> HIDE DEF m
    <2> QED BY <2>1, <2>2 DEF GoalOnly, Held
<1> QED BY <1>4, <1>5, <1>6 DEF AnswerOutcomes

LEMMA RowsInvInit == ServiceInit => RowsInv
<1> SUFFICES ASSUME ServiceInit PROVE RowsInv
    OBVIOUS
<1>1. PICK opened \in BOOLEAN :
          /\ live = Start(opened)
          /\ store = [opened |-> opened, turns |-> <<>>, rows |-> [k \in Lessons |-> "none"]]
    BY DEF ServiceInit
<1>2. \A h \in Handlers : handler[h] = Free
    BY DEF ServiceInit
<1>3. live.present /\ live.confirmed = {} /\ live.paused = {} /\ live.kc = Goal
    BY <1>1 DEF Start
<1>4. \A h \in Handlers : handler[h].stage = "free" /\ handler[h].roll = NoRoll
    BY <1>2 DEF Free
<1>5. \A k \in Lessons : store.rows[k] = "none"
    BY <1>1
<1>6. IdleWhenGone
    BY IndexInvInit DEF IndexInv
<1>7. NoRoll.kc = NoLesson /\ NoRoll.row = "none"
    BY DEF NoRoll
<1>8. RollInv
    BY <1>4, <1>7, ServiceAssumption DEF RollInv
<1>9. QuietRows
    BY <1>4, <1>5, <1>7, ServiceAssumption DEF QuietRows, Working, Writing
<1> QED BY <1>3, <1>5, <1>6, <1>8, <1>9 DEF RowsInv, GoalOnly

(* A step that writes no row and adds no roll-up.                          *)
LEMMA RowsKept ==
    ASSUME ServiceTypeOK, RowsInv, NEW h \in Handlers, NEW next,
           handler' = [handler EXCEPT ![h] = next],
           next.roll \in {handler[h].roll, NoRoll},
           next.roll # NoRoll => next.stage \in {"rolled", "selected"},
           next.stage \in Working => live' # Gone,
           live' = live \/ (live' # Gone /\ live'.present),
           live'.present = live.present,
           GoalOnly(live'), Held(live) \subseteq Held(live'),
           store'.rows = store.rows,
           past.overlapped => past'.overlapped,
           past'.overlapped \/ next.stage \notin Working \/ handler[h].stage \in Working
               \/ \A g \in Handlers \ {h} : handler[g].stage \notin Working
    PROVE  RowsInv'
<1>1. handler'[h] = next /\ \A g \in Handlers \ {h} : handler'[g] = handler[g]
    BY DEF ServiceTypeOK
<1>2. IdleWhenGone'
    BY <1>1 DEF RowsInv, IdleWhenGone
<1>3. NoRoll.kc = NoLesson /\ NoRoll.row = "none"
    BY DEF NoRoll
<1>4. RollInv'
    BY <1>1, <1>3, ServiceAssumption DEF RowsInv, RollInv
<1>5. ASSUME QuietRows, ~past'.overlapped PROVE QuietRows'
    <2>1. \A g, f \in Handlers :
              handler'[g].stage \in Working /\ handler'[f].stage \in Working => g = f
        BY <1>1, <1>5 DEF QuietRows
    <2>2. \A g \in Handlers :
              /\ handler'[g].roll = [kc |-> Goal, row |-> "open"] => store'.rows[Goal] # "confirmed"
              /\ handler'[g].roll.row = "confirmed" => Goal \in Held(live')
        <3>1. NoRoll # [kc |-> Goal, row |-> "open"]
            BY <1>3, ServiceAssumption
        <3> QED BY <1>1, <1>3, <1>5, <3>1 DEF QuietRows
    <2> QED BY <1>5, <2>1, <2>2 DEF QuietRows, Held
<1> QED BY <1>2, <1>4, <1>5 DEF RowsInv, GoalOnly

LEMMA InsertKeepsRows ==
    ASSUME ServiceTypeOK, RowsInv, NEW h \in Handlers, InsertTurn(h)
    PROVE  RowsInv'
<1> DEFINE next == [To(h, "rolled") EXCEPT !.roll = MasteryRollup(live)]
<1>1. /\ handler[h].stage = "indexed" /\ handler' = [handler EXCEPT ![h] = next]
      /\ UNCHANGED <<live, store, past>>
    BY DEF InsertTurn
<1>2. next.stage = "rolled" /\ next.roll = MasteryRollup(live)
    BY DEF ServiceTypeOK, To, Handler
<1>3. handler'[h] = next /\ \A g \in Handlers \ {h} : handler'[g] = handler[g]
    BY <1>1 DEF ServiceTypeOK
<1> HIDE DEF next
<1>4. live.present /\ live # Gone /\ live \in LiveSession /\ OneLevel(live) /\ GoalOnly(live)
    BY <1>1 DEF RowsInv, IdleWhenGone, Working, Writing, ServiceTypeOK
<1>5. \/ next.roll = NoRoll
      \/ next.roll = [kc |-> live.kc, row |-> "confirmed"] /\ live.kc \in live.confirmed
      \/ next.roll = [kc |-> live.kc, row |-> "open"] /\ live.kc \notin live.confirmed
    BY <1>2 DEF MasteryRollup
<1>6. /\ next.roll.kc \in Lessons => next.roll.row \in {"open", "confirmed"}
      /\ next.roll.row = "confirmed" => next.roll.kc = Goal /\ Goal \in Held(live)
      /\ next.roll = [kc |-> Goal, row |-> "open"] => Goal \notin Held(live)
    <2>1. CASE next.roll = NoRoll
        BY <2>1, ServiceAssumption DEF NoRoll
    <2>2. CASE next.roll = [kc |-> live.kc, row |-> "confirmed"] /\ live.kc \in live.confirmed
        BY <1>4, <2>2 DEF GoalOnly, Held
    <2>3. CASE next.roll = [kc |-> live.kc, row |-> "open"] /\ live.kc \notin live.confirmed
        BY <1>4, <2>3 DEF GoalOnly, Held, OneLevel
    <2> QED BY <1>5, <2>1, <2>2, <2>3
<1>7. IdleWhenGone'
    BY <1>1, <1>4 DEF RowsInv, IdleWhenGone
<1>8. RollInv'
    BY <1>2, <1>3, <1>6 DEF RowsInv, RollInv
<1>9. QuietRows => QuietRows'
    <2> SUFFICES ASSUME QuietRows PROVE QuietRows'
        OBVIOUS
    <2>1. handler'[h].stage \in Working /\ handler[h].stage \in Working
        BY <1>1, <1>2, <1>3 DEF Working, Writing
    <2>2. \A g, f \in Handlers :
              handler'[g].stage \in Working /\ handler'[f].stage \in Working => g = f
        BY <1>3, <2>1 DEF QuietRows
    <2>3. \A g \in Handlers :
              /\ handler'[g].roll = [kc |-> Goal, row |-> "open"] => store'.rows[Goal] # "confirmed"
              /\ handler'[g].roll.row = "confirmed" => Goal \in Held(live')
        BY <1>1, <1>3, <1>4, <1>6 DEF QuietRows
    <2> QED BY <1>1, <2>2, <2>3 DEF QuietRows
<1> QED BY <1>1, <1>7, <1>8, <1>9 DEF RowsInv, GoalOnly

(* A commit writes what the live record still holds.                       *)
LEMMA CommitKeepsRows ==
    ASSUME ServiceTypeOK, RowsInv, NEW h \in Handlers, Commit(h)
    PROVE  /\ RowsInv'
           /\ \A k \in Lessons : ~past'.overlapped /\ store.rows[k] = "confirmed"
                                   => store'.rows[k] = "confirmed"
<1> DEFINE roll == handler[h].roll
           written(k) == IF k = roll.kc /\ roll.row # handler[h].loaded THEN roll.row
                         ELSE store.rows[k]
<1>1. /\ handler[h].stage = "selected" /\ handler' = [handler EXCEPT ![h] = Done(h)]
      /\ store' = [store EXCEPT !.turns = Append(@, handler[h].index),
                                 !.rows = [k \in Lessons |-> written(k)]]
      /\ UNCHANGED <<live, past>>
    BY DEF Commit
<1>2. \A k \in Lessons : store'.rows[k] = written(k)
    <2> HIDE DEF written
    <2> QED BY <1>1 DEF ServiceTypeOK
<1>3. Done(h).stage = "done" /\ Done(h).roll = NoRoll
    BY DoneType DEF ServiceTypeOK, Done, To, Handler
<1>4. /\ handler'[h].stage = "done" /\ handler'[h].roll = NoRoll
      /\ \A g \in Handlers \ {h} : handler'[g] = handler[g]
    BY <1>1, <1>3 DEF ServiceTypeOK
<1>5. live.present /\ live # Gone
    BY <1>1 DEF RowsInv, IdleWhenGone, Working, Writing
<1>6. NoRoll.kc = NoLesson /\ NoRoll.row = "none"
    BY DEF NoRoll
<1>7. IdleWhenGone'
    BY <1>1, <1>5 DEF IdleWhenGone
<1>8. RollInv'
    BY <1>4, <1>6, ServiceAssumption DEF RowsInv, RollInv
<1>9. \A k \in Lessons : store'.rows[k] = "confirmed" => k = Goal
    BY <1>2 DEF RowsInv, RollInv
<1>10. roll = [kc |-> roll.kc, row |-> roll.row]
    BY DEF ServiceTypeOK, Handler
<1>11. ASSUME QuietRows PROVE QuietRows'
    <2>1. \A g \in Handlers \ {h} : handler[g].stage \notin Working
        BY <1>1, <1>11 DEF QuietRows, Working, Writing
    <2>2. \A g \in Handlers : handler'[g].stage \notin Working
        BY <1>4, <2>1 DEF Working, Writing
    <2>3. \A g \in Handlers : handler'[g].roll = NoRoll
        BY <1>4, <2>1 DEF RowsInv, RollInv, Working, Writing
    <2>4. store'.rows[Goal] = "confirmed" => Goal \in Held(live)
        BY <1>2, <1>5, <1>11, ServiceAssumption DEF QuietRows
    <2>5. NoRoll # [kc |-> Goal, row |-> "open"]
        BY <1>6, ServiceAssumption
    <2> QED BY <1>1, <1>6, <2>2, <2>3, <2>4, <2>5 DEF QuietRows
<1>12. ASSUME NEW k \in Lessons, ~past.overlapped, store.rows[k] = "confirmed"
       PROVE  store'.rows[k] = "confirmed"
    <2>1. QuietRows /\ k = Goal
        BY <1>12 DEF RowsInv
    <2>2. k = roll.kc => roll.row = "confirmed"
        <3> SUFFICES ASSUME k = roll.kc, roll.row # "confirmed" PROVE FALSE
            OBVIOUS
        <3>1. roll.row = "open"
            BY DEF RowsInv, RollInv
        <3> QED BY <1>10, <1>12, <2>1, <3>1 DEF QuietRows
    <2> QED BY <1>2, <1>12, <2>2
<1> HIDE DEF roll, written
<1> QED BY <1>1, <1>7, <1>8, <1>9, <1>11, <1>12 DEF RowsInv, GoalOnly

LEMMA RowsInvStep == ServiceTypeOK /\ RowsInv /\ ServiceStep => RowsInv'
<1> SUFFICES ASSUME ServiceTypeOK, RowsInv, ServiceStep PROVE RowsInv'
    OBVIOUS
<1>a. /\ live \in LiveSession /\ OneLevel(live) /\ handler \in [Handlers -> Handler]
      /\ past \in Past /\ GoalOnly(live)
    BY DEF ServiceTypeOK, RowsInv
<1>b. live = Gone => ~live.present /\ \A h \in Handlers : handler[h].stage \notin Working
    BY GoneType DEF RowsInv, IdleWhenGone
<1>c. live # Gone => live.present
    BY DEF RowsInv, IdleWhenGone
<1>d. \A h \in Handlers : handler[h].stage \notin {"rolled", "selected"} => handler[h].roll = NoRoll
    BY DEF RowsInv, RollInv
<1>1. ASSUME NEW h \in Handlers, NEW call \in {"submit", "hint"}, Arrive(h, call) PROVE RowsInv'
    <2> DEFINE next == [Free EXCEPT !.stage = "sent", !.call = call]
    <2>1. next.stage = "sent" /\ next.roll = NoRoll
        BY DEF Free
    <2>2. handler' = [handler EXCEPT ![h] = next] /\ UNCHANGED <<live, store, past>>
        BY <1>1 DEF Arrive
    <2> HIDE DEF next
    <2> QED BY <1>a, <2>1, <2>2, RowsKept DEF Writing, Working
<1>2. ASSUME NEW h \in Handlers, NotFound(h) PROVE RowsInv'
    <2> DEFINE next == [To(h, "done") EXCEPT !.reply = ErrorReply]
    <2>1. next.stage = "done" /\ next.roll = handler[h].roll
        BY <1>a DEF To, Handler
    <2>2. /\ handler' = [handler EXCEPT ![h] = next] /\ handler[h].stage = "sent"
          /\ UNCHANGED <<live, store, past>>
        BY <1>2 DEF NotFound
    <2> HIDE DEF next
    <2> QED BY <1>a, <1>d, <2>1, <2>2, RowsKept DEF Writing, Working
<1>3. ASSUME NEW h \in Handlers, Decide(h) PROVE RowsInv'
    <2>1. PICK o \in AnswerOutcomes(live) :
              /\ live' = o.live
              /\ handler' = [handler EXCEPT ![h] =
                     [To(h, IF o.reply = ErrorReply THEN "done" ELSE "decided")
                         EXCEPT !.reply = o.reply]]
              /\ past' = [past EXCEPT !.served = Fresh,
                                      !.earned = @ \cup ({o.reply.passed} \cap Lessons),
                                      !.overlapped = @ \/ Overlaps(h)]
        BY <1>3 DEF Decide
    <2>2. Carries(live, o) /\ GoalOnly(o.live) /\ Held(live) \subseteq Held(o.live)
        BY OutcomeGood, OutcomeHolds, <1>a DEF GoodOutcome
    <2> DEFINE next == [To(h, IF o.reply = ErrorReply THEN "done" ELSE "decided")
                           EXCEPT !.reply = o.reply]
    <2>3. next.stage \in {"done", "decided"} /\ next.roll = handler[h].roll
        BY <1>a DEF To, Handler
    <2>4. past'.overlapped = (past.overlapped \/ Overlaps(h))
        <3>1. Overlaps(h) \in BOOLEAN /\ past.overlapped \in BOOLEAN
            BY <1>a DEF Overlaps, Past
        <3> QED BY <1>a, <2>1, <3>1 DEF Past
    <2>5. handler[h].stage = "sent" /\ live # Gone /\ UNCHANGED store
        BY <1>3 DEF Decide
    <2>6. live'.present /\ live' # Gone /\ live'.present = live.present
        BY <1>c, <2>1, <2>2, <2>5, GoneType DEF Carries
    <2>7. handler' = [handler EXCEPT ![h] = next]
        BY <2>1
    <2>8. past'.overlapped \/ \A g \in Handlers \ {h} : handler[g].stage \notin Working
        BY <2>4 DEF Overlaps
    <2>9. handler[h].roll = NoRoll
        BY <1>d, <2>5
    <2> HIDE DEF next
    <2>10. GoalOnly(live') /\ Held(live) \subseteq Held(live')
        BY <2>1, <2>2
    <2>11. past.overlapped => past'.overlapped
        BY <2>4
    <2>12. store'.rows = store.rows
        BY <2>5
    <2> QED BY <2>3, <2>6, <2>7, <2>8, <2>9, <2>10, <2>11, <2>12, RowsKept
<1>4. ASSUME NEW h \in Handlers, ReadHint(h) PROVE RowsInv'
    <2> DEFINE next == [To(h, IF live.probing THEN "decided" ELSE "voicing")
                       EXCEPT !.reply = [kind |-> "hint", next |-> live.item, passed |-> NoLesson]]
    <2>1. next.stage \in {"decided", "voicing"} /\ next.roll = handler[h].roll
        BY <1>a DEF To, Handler
    <2>2. /\ handler' = [handler EXCEPT ![h] = next]
          /\ past' = [past EXCEPT !.overlapped = @ \/ Overlaps(h)]
          /\ handler[h].stage = "sent" /\ live # Gone /\ UNCHANGED <<live, store>>
        BY <1>4 DEF ReadHint
    <2>3. past'.overlapped = (past.overlapped \/ Overlaps(h))
        <3>1. Overlaps(h) \in BOOLEAN /\ past.overlapped \in BOOLEAN
            BY <1>a DEF Overlaps, Past
        <3> QED BY <1>a, <2>2, <3>1 DEF Past
    <2>4. past'.overlapped \/ \A g \in Handlers \ {h} : handler[g].stage \notin Working
        BY <2>3 DEF Overlaps
    <2>5. handler[h].roll = NoRoll
        BY <1>d, <2>2
    <2> HIDE DEF next
    <2> QED BY <1>a, <2>1, <2>2, <2>3, <2>4, <2>5, RowsKept
<1>5. ASSUME NEW h \in Handlers, VoiceHint(h) \/ SkipWrite(h) PROVE RowsInv'
    <2>1. PICK stage \in {"decided", "done"} :
              /\ handler' = [handler EXCEPT ![h] = To(h, stage)]
              /\ handler[h].stage \in {"voicing", "decided"} /\ UNCHANGED <<live, store, past>>
        BY <1>5 DEF VoiceHint, SkipWrite
    <2>2. To(h, stage).stage = stage /\ To(h, stage).roll = handler[h].roll
        BY <1>a DEF To, Handler
    <2>3. live # Gone /\ handler[h].stage \in Working
        BY <2>1, <1>b DEF Working
    <2>4. handler[h].roll = NoRoll
        BY <1>d, <2>1
    <2> QED BY <1>a, <2>1, <2>2, <2>3, <2>4, RowsKept
<1>6. ASSUME NEW h \in Handlers, TakeIndex(h) PROVE RowsInv'
    <2> DEFINE next == [To(h, "indexed") EXCEPT !.index = live.turnCount]
    <2>1. next.stage = "indexed" /\ next.roll = handler[h].roll
        BY <1>a DEF To, Handler
    <2>2. /\ handler' = [handler EXCEPT ![h] = next]
          /\ live' = [live EXCEPT !.turnCount = @ + 1]
          /\ handler[h].stage = "decided" /\ UNCHANGED <<store, past>>
        BY <1>6 DEF TakeIndex
    <2>3. live # Gone /\ handler[h].stage \in Working /\ handler[h].roll = NoRoll
        BY <2>2, <1>b, <1>d DEF Working
    <2>4. /\ live'.confirmed = live.confirmed /\ live'.paused = live.paused
          /\ live'.kc = live.kc /\ live'.present = live.present
        BY <1>a, <2>2 DEF LiveSession
    <2>5. GoalOnly(live') /\ Held(live) \subseteq Held(live') /\ live'.present /\ live' # Gone
        BY <1>a, <1>c, <2>3, <2>4, GoneType DEF GoalOnly, Held
    <2> HIDE DEF next
    <2> QED BY <2>1, <2>2, <2>3, <2>4, <2>5, RowsKept
<1>7. ASSUME NEW h \in Handlers, InsertTurn(h) PROVE RowsInv'
    BY <1>7, InsertKeepsRows
<1>8. ASSUME NEW h \in Handlers, SelectRow(h) PROVE RowsInv'
    <2> DEFINE kc == handler[h].roll.kc
               next == [To(h, "selected") EXCEPT !.loaded = IF kc = NoLesson THEN "none"
                                                            ELSE store.rows[kc]]
    <2>1. next.stage = "selected" /\ next.roll = handler[h].roll
        BY <1>a DEF To, Handler
    <2>2. /\ handler' = [handler EXCEPT ![h] = next] /\ handler[h].stage = "rolled"
          /\ UNCHANGED <<live, store, past>>
        BY <1>8 DEF SelectRow
    <2>3. live # Gone /\ handler[h].stage \in Working
        BY <2>2, <1>b DEF Working, Writing
    <2> HIDE DEF next
    <2> QED BY <1>a, <2>1, <2>2, <2>3, RowsKept
<1>9. ASSUME NEW h \in Handlers, Commit(h) PROVE RowsInv'
    BY <1>9, CommitKeepsRows
<1>10. ASSUME NEW h \in Handlers, WriteFails(h) PROVE RowsInv'
    <2>1. /\ handler' = [handler EXCEPT ![h] = Done(h)] /\ past' = [past EXCEPT !.lost = TRUE]
          /\ UNCHANGED <<live, store>>
        BY <1>10 DEF WriteFails
    <2>2. Done(h).stage = "done" /\ Done(h).roll = NoRoll
        BY <1>a, DoneType DEF Done, To, Handler
    <2>3. past'.overlapped = past.overlapped
        BY <1>a, <2>1 DEF Past
    <2> QED BY <1>a, <2>1, <2>2, <2>3, RowsKept DEF Working, Writing
<1>11. ASSUME NEW h \in Handlers, Dropped(h) PROVE RowsInv'
    <2>1. Free.stage = "free" /\ Free.roll = NoRoll
        BY DEF Free
    <2> QED BY <1>a, <1>11, <2>1, RowsKept DEF Dropped, Writing, Working
<1>12. CASE Restart
    <2> DEFINE lost == \E h \in Handlers : handler[h].stage \in Writing
    <2>1. /\ live' = Gone /\ handler' = [h \in Handlers |-> Free] /\ UNCHANGED store
          /\ past' = [past EXCEPT !.restarts = @ + 1, !.lost = @ \/ lost]
        BY <1>12 DEF Restart
    <2>2. past'.overlapped = past.overlapped
        <3> HIDE DEF lost
        <3> QED BY <2>1, <1>a DEF Past
    <2>3. /\ \A h \in Handlers : handler'[h].stage = "free" /\ handler'[h].roll = NoRoll
          /\ NoRoll.kc = NoLesson /\ NoRoll.row = "none"
        BY <2>1 DEF Free, NoRoll
    <2>4. /\ \A h \in Handlers : handler'[h].stage \notin Working
          /\ live'.confirmed = {} /\ live'.paused = {} /\ ~live'.present /\ live' = Gone
        BY <2>1, <2>3, GoneType DEF Working, Writing, Gone, Start
    <2>5. RollInv'
        BY <2>3, ServiceAssumption DEF RollInv
    <2>6. QuietRows'
        BY <2>3, <2>4, ServiceAssumption DEF QuietRows
    <2> QED BY <2>1, <2>4, <2>5, <2>6 DEF RowsInv, IdleWhenGone, GoalOnly
<1>13. CASE Resume
    <2>1. /\ live = Gone /\ live' = Rehydrated /\ past' = [past EXCEPT !.served = Fresh]
          /\ UNCHANGED <<handler, store>>
        BY <1>13 DEF Resume
    <2>2. past'.overlapped = past.overlapped
        BY <1>a, <2>1 DEF Past
    <2>3. /\ live'.present /\ live'.kc = Goal /\ live'.paused = {}
          /\ live'.confirmed = {k \in Lessons : store.rows[k] = "confirmed"}
        BY <2>1 DEF Rehydrated, Start
    <2>4. GoalOnly(live') /\ live' # Gone
        BY <2>3, GoneType DEF GoalOnly, RowsInv
    <2>5. \A h \in Handlers : handler'[h].stage \notin Working /\ handler'[h].roll = NoRoll
        BY <1>b, <1>d, <2>1 DEF Working, Writing
    <2>6. NoRoll.row = "none" /\ NoRoll # [kc |-> Goal, row |-> "open"]
        BY ServiceAssumption DEF NoRoll
    <2>7. QuietRows'
        BY <2>1, <2>3, <2>5, <2>6, ServiceAssumption DEF QuietRows, Held
    <2> QED BY <2>1, <2>3, <2>4, <2>7 DEF RowsInv, IdleWhenGone, GoalOnly, RollInv
<1>14. CASE UNCHANGED serviceVars
    BY <1>14 DEF serviceVars, RowsInv, IdleWhenGone, GoalOnly, RollInv, QuietRows, Held
<1> QED BY <1>1, <1>2, <1>3, <1>4, <1>5, <1>6, <1>7, <1>8, <1>9, <1>10, <1>11, <1>12, <1>13, <1>14
        DEF ServiceStep, HandlerStep

(* While requests do not overlap, a stored confirmation stays, through     *)
(* failed writes, nested lessons, restarts and resumes                     *)
(* (repositories.py:566).                                                  *)
THEOREM SpecStoredConfirmationStays == Spec => StoredConfirmationStays
<1> DEFINE Stays == \A k \in Lessons :
           ~past'.overlapped /\ store.rows[k] = "confirmed" => store'.rows[k] = "confirmed"
<1>1. Init => IInv /\ RowsInv
    BY IInvInit, RowsInvInit DEF Init
<1>2. IInv /\ RowsInv /\ [Next]_vars => (IInv /\ RowsInv)'
    BY IInvStep, RowsInvStep, NextIsServiceStep
        DEF IInv, ServiceInv, vars, ServiceStep, serviceVars
<1>3. IInv /\ RowsInv /\ [Next]_vars => [Stays]_vars
    <2> SUFFICES ASSUME IInv, RowsInv, Next PROVE Stays
        OBVIOUS
    <2>1. ServiceStep /\ ServiceTypeOK
        BY NextIsServiceStep DEF IInv, ServiceInv
    <2>2. ASSUME NEW h \in Handlers, Commit(h) PROVE Stays
        BY <2>1, <2>2, CommitKeepsRows
    <2>3. ASSUME store' = store PROVE Stays
        BY <2>3
    <2> HIDE DEF Stays
    <2> QED BY <2>1, <2>2, <2>3
            DEF ServiceStep, HandlerStep, Arrive, NotFound, Decide, ReadHint, VoiceHint, SkipWrite,
                TakeIndex, InsertTurn, SelectRow, WriteFails, Dropped, Restart, Resume, serviceVars
<1>4. Spec => [][Stays]_vars
    <2> HIDE DEF Stays
    <2> QED BY <1>1, <1>2, <1>3, PTL DEF Spec
<1> QED BY <1>4 DEF StoredConfirmationStays
--------------------------------------------------------------------------------
(* The quiet page.  While nothing overlaps or fails there is one call at a *)
(* time: an answer leaves the page submitting until its verdict names the  *)
(* item of the service, a hint leaves both as they are.                    *)

PendingAgrees(h) ==
    /\ handler[h].call = "submit" =>
          /\ page.phase = "submitting"
          /\ handler[h].stage # "sent" =>
                \/ handler[h].reply.kind = "error"
                \/ handler[h].reply.kind = "verdict" /\ handler[h].reply.next = live.item
    /\ handler[h].call = "hint" =>
          /\ page.phase = "answering"
          /\ handler[h].stage # "sent" =>
                handler[h].reply.kind = "hint" /\ handler[h].reply.next = live.item

QuietPage ==
    /\ live.present
    /\ \A h \in Handlers : handler[h].stage # "free" <=> h \in waiting
    /\ \A g, h \in waiting : g = h
    /\ \A h \in waiting : PendingAgrees(h)
    /\ page.phase = "answering" => page.item = live.item /\ (page.hinted => page.result.next = page.item)
    /\ page.phase = "submitting" => waiting # {}
    /\ page.phase = "feedback" =>
          waiting = {} /\ page.result.kind = "verdict" /\ page.result.next = live.item

QuietInv == disturbed \/ QuietPage

LEMMA OutcomeShown ==
    ASSUME NEW l \in LiveSession, NEW o \in AnswerOutcomes(l)
    PROVE  o.reply = ErrorReply \/ (o.reply.kind = "verdict" /\ o.reply.next = o.live.item)
<1>1. CASE o = FailedDrop(l)
    BY <1>1 DEF FailedDrop
<1>2. ASSUME NEW m, NEW passed, o = Verdict(m, passed)
      PROVE  o.reply.kind = "verdict" /\ o.reply.next = Fresh /\ o.live = [m EXCEPT !.item = Fresh]
    BY <1>2 DEF Verdict
<1>3. ASSUME NEW m \in LiveSession, NEW passed, o = Verdict(m, passed)
      PROVE  o.reply.kind = "verdict" /\ o.reply.next = o.live.item
    BY <1>2, <1>3 DEF LiveSession
<1>4. ASSUME o \in PracticeOutcomes(l)
      PROVE  \E m \in LiveSession, passed \in Lessons \cup {NoLesson} : o = Verdict(m, passed)
    <2> DEFINE practised == [l EXCEPT !.touched = TRUE]
               probed == [practised EXCEPT !.probing = TRUE]
               dropped(k) == [l EXCEPT !.kc = k, !.touched = FALSE, !.confirmed = {},
                                       !.paused = {l.confirmed}]
    <2>1. practised \in LiveSession /\ probed \in LiveSession
          /\ \A k \in Lessons : dropped(k) \in LiveSession
        BY DEF LiveSession
    <2>2. o \in {Verdict(practised, NoLesson), Verdict(probed, NoLesson)}
          \/ \E k \in Lessons : o = Verdict(dropped(k), NoLesson)
        BY <1>4 DEF PracticeOutcomes
    <2> HIDE DEF practised, probed, dropped
    <2> QED BY <2>1, <2>2
<1>5. ASSUME o \in ProbeOutcomes(l)
      PROVE  \E m \in LiveSession, passed \in Lessons \cup {NoLesson} : o = Verdict(m, passed)
    <2> DEFINE over == [l EXCEPT !.probing = FALSE]
               completed == [over EXCEPT !.confirmed = @ \cup {l.kc}]
               resumed == [over EXCEPT !.kc = Goal, !.confirmed = UNION l.paused, !.paused = {}]
    <2>0. UNION l.paused \in SUBSET Lessons /\ l.confirmed \cup {l.kc} \in SUBSET Lessons
          /\ l.kc \in Lessons
        BY DEF LiveSession
    <2>1. over \in LiveSession /\ completed \in LiveSession
        BY <2>0 DEF LiveSession
    <2>2. resumed \in LiveSession
        BY <2>0, ServiceAssumption DEF LiveSession
    <2>3. o \in {Verdict(over, NoLesson), Verdict(l, NoLesson), Verdict(completed, l.kc),
                Verdict(resumed, l.kc)}
        BY <1>5 DEF ProbeOutcomes
    <2> HIDE DEF over, completed, resumed
    <2> QED BY <2>0, <2>1, <2>2, <2>3
<1> QED BY <1>1, <1>3, <1>4, <1>5 DEF AnswerOutcomes

LEMMA QuietInvInit == Init => QuietInv
<1> SUFFICES ASSUME Init PROVE QuietPage
    BY DEF QuietInv
<1>1. live.present
    BY DEF Init, ServiceInit, Start
<1>2. \A h \in Handlers : handler[h].stage = "free"
    BY DEF Init, ServiceInit, Free
<1> QED BY <1>1, <1>2 DEF Init, QuietPage

(* A handler that goes on, its reply and the item staying what they are.   *)
LEMMA QuietKept ==
    ASSUME IInv, QuietPage, NEW h \in Handlers, NEW next,
           handler' = [handler EXCEPT ![h] = next],
           handler[h].stage \notin {"free", "sent"}, next.stage \notin {"free", "sent"},
           next.call = handler[h].call, next.reply = handler[h].reply,
           live'.present, live'.item = live.item,
           UNCHANGED <<page, waiting>>
    PROVE  QuietPage'
<1>1. handler'[h] = next /\ \A g \in Handlers \ {h} : handler'[g] = handler[g]
    BY DEF IInv, ServiceInv, ServiceTypeOK
<1>2. \A g \in Handlers : handler'[g].stage # "free" <=> g \in waiting'
    BY <1>1 DEF QuietPage
<1>3. \A g \in waiting : PendingAgrees(g)'
    BY <1>1 DEF QuietPage, PendingAgrees, IInv, PageTypeOK
<1> QED BY <1>2, <1>3 DEF QuietPage

LEMMA HandlerKeepsQuiet ==
    ASSUME IInv, QuietPage, NEW h \in Handlers, HandlerStep(h), UNCHANGED <<page, waiting>>
    PROVE  QuietPage'
<1>a. /\ live \in LiveSession /\ OneLevel(live) /\ handler \in [Handlers -> Handler]
      /\ past \in Past /\ waiting \subseteq Handlers
    BY DEF IInv, ServiceInv, ServiceTypeOK, PageTypeOK
<1>b. live # Gone /\ live.present
    BY GoneType DEF QuietPage
<1>c. \A g \in Handlers \ {h} : handler[h].stage # "free" => handler[g].stage = "free"
    BY DEF QuietPage
<1>1. CASE NotFound(h)
    BY <1>1, <1>b DEF NotFound
<1>2. CASE Decide(h)
    <2>1. PICK o \in AnswerOutcomes(live) :
              /\ live' = o.live
              /\ handler' = [handler EXCEPT ![h] =
                     [To(h, IF o.reply = ErrorReply THEN "done" ELSE "decided")
                         EXCEPT !.reply = o.reply]]
        BY <1>2 DEF Decide
    <2> DEFINE next == [To(h, IF o.reply = ErrorReply THEN "done" ELSE "decided")
                           EXCEPT !.reply = o.reply]
    <2>2. /\ next.stage \in {"done", "decided"} /\ next.reply = o.reply
          /\ next.call = handler[h].call
        BY <1>a DEF To, Handler
    <2>3. handler[h].stage = "sent" /\ handler[h].call = "submit"
        BY <1>2 DEF Decide
    <2>4. /\ live'.present
          /\ next.reply.kind = "error" \/ (next.reply.kind = "verdict" /\ next.reply.next = live'.item)
        BY <1>a, <1>b, <2>1, <2>2, OutcomeGood, OutcomeShown DEF GoodOutcome, Carries, ErrorReply, NoReply
    <2>5. handler' = [handler EXCEPT ![h] = next]
        BY <2>1
    <2> HIDE DEF next
    <2>6. handler'[h] = next /\ \A g \in Handlers \ {h} : handler'[g] = handler[g]
        BY <1>a, <2>5
    <2>7. h \in waiting /\ page.phase = "submitting"
        BY <2>3 DEF QuietPage, PendingAgrees
    <2>8. waiting = {h}
        BY <2>7 DEF QuietPage
    <2>9. \A g \in Handlers : handler'[g].stage # "free" <=> g \in waiting'
        BY <2>2, <2>6, <2>8 DEF QuietPage
    <2>10. PendingAgrees(h)'
        BY <2>2, <2>3, <2>4, <2>6, <2>7 DEF PendingAgrees
    <2> QED BY <2>4, <2>7, <2>8, <2>9, <2>10 DEF QuietPage
<1>3. CASE ReadHint(h)
    <2> DEFINE next == [To(h, IF live.probing THEN "decided" ELSE "voicing")
                       EXCEPT !.reply = [kind |-> "hint", next |-> live.item, passed |-> NoLesson]]
    <2>1. /\ next.stage \in {"decided", "voicing"} /\ next.call = handler[h].call
          /\ next.reply.kind = "hint" /\ next.reply.next = live.item
        BY <1>a DEF To, Handler
    <2>2. /\ handler' = [handler EXCEPT ![h] = next] /\ UNCHANGED live
          /\ handler[h].stage = "sent" /\ handler[h].call = "hint"
        BY <1>3 DEF ReadHint
    <2> HIDE DEF next
    <2>3. handler'[h] = next /\ \A g \in Handlers \ {h} : handler'[g] = handler[g]
        BY <1>a, <2>2
    <2>4. h \in waiting /\ page.phase = "answering"
        BY <2>2 DEF QuietPage, PendingAgrees
    <2>5. waiting = {h}
        BY <2>4 DEF QuietPage
    <2>6. \A g \in Handlers : handler'[g].stage # "free" <=> g \in waiting'
        BY <2>1, <2>3, <2>5 DEF QuietPage
    <2>7. PendingAgrees(h)'
        BY <2>1, <2>2, <2>3, <2>4 DEF PendingAgrees
    <2> QED BY <2>2, <2>4, <2>5, <2>6, <2>7 DEF QuietPage
<1>4. CASE VoiceHint(h) \/ SkipWrite(h) \/ InsertTurn(h) \/ SelectRow(h) \/ TakeIndex(h)
    <2>1. /\ handler' = [handler EXCEPT ![h] = handler'[h]]
          /\ handler[h].stage \in Working
          /\ handler'[h].stage \in Working \cup {"done"}
          /\ handler'[h].call = handler[h].call /\ handler'[h].reply = handler[h].reply
        <3>1. CASE VoiceHint(h) \/ SkipWrite(h)
            BY <3>1, <1>a DEF VoiceHint, SkipWrite, To, Handler, Working
        <3>2. CASE InsertTurn(h)
            BY <3>2, <1>a DEF InsertTurn, To, Handler, Working, Writing
        <3>3. CASE SelectRow(h)
            BY <3>3, <1>a DEF SelectRow, To, Handler, Working, Writing
        <3>4. CASE TakeIndex(h)
            BY <3>4, <1>a DEF TakeIndex, To, Handler, Working, Writing
        <3> QED BY <1>4, <3>1, <3>2, <3>3, <3>4
    <2>2. live'.present /\ live'.item = live.item
        BY <1>4, <1>a, <1>b DEF VoiceHint, SkipWrite, InsertTurn, SelectRow, TakeIndex, LiveSession
    <2> QED BY <2>1, <2>2, QuietKept DEF Working, Writing
<1>5. CASE Commit(h) \/ WriteFails(h)
    <2>1. /\ Done(h).stage = "done" /\ Done(h).call = handler[h].call
          /\ Done(h).reply = handler[h].reply
        BY <1>a DEF Done, To, Handler
    <2>2. /\ handler' = [handler EXCEPT ![h] = Done(h)] /\ UNCHANGED live
          /\ handler[h].stage \in Writing
        BY <1>5 DEF Commit, WriteFails, Writing
    <2> QED BY <1>b, <2>1, <2>2, QuietKept DEF Writing
<1> QED BY <1>1, <1>2, <1>3, <1>4, <1>5 DEF HandlerStep

LEMMA QuietInvStep == IInv /\ QuietInv /\ [Next]_vars => QuietInv'
<1> SUFFICES ASSUME IInv, QuietInv, [Next]_vars, ~disturbed' PROVE QuietPage'
    BY DEF QuietInv
<1>a. /\ handler \in [Handlers -> Handler] /\ waiting \subseteq Handlers /\ page \in Page
      /\ disturbed \in BOOLEAN
    BY DEF IInv, ServiceInv, ServiceTypeOK, PageTypeOK
<1>1. ASSUME NEW h \in Handlers, NEW call \in {"submit", "hint"}, Call(h, call), ~disturbed,
             page' = IF call = "submit" THEN [page EXCEPT !.phase = "submitting"] ELSE page
      PROVE  QuietPage'
    <2>1. /\ page.phase = "answering" /\ ~Busy /\ UNCHANGED live /\ waiting' = waiting \cup {h}
          /\ handler' = [handler EXCEPT ![h] = [Free EXCEPT !.stage = "sent", !.call = call]]
        BY <1>1 DEF Call, Arrive
    <2>2. QuietPage
        BY <1>1 DEF QuietInv
    <2>3. waiting' = {h}
        BY <1>a, <2>1, <2>2 DEF QuietPage, Busy
    <2>4. /\ handler'[h].stage = "sent" /\ handler'[h].call = call
          /\ \A g \in Handlers \ {h} : handler'[g].stage = "free"
        BY <1>a, <2>1 DEF Busy, Free
    <2>5. /\ call = "submit" => page'.phase = "submitting"
          /\ call = "hint" => page' = page
        BY <1>1, <1>a DEF Page
    <2>6. PendingAgrees(h)'
        BY <2>1, <2>4, <2>5 DEF PendingAgrees
    <2> QED BY <2>1, <2>2, <2>3, <2>4, <2>5, <2>6 DEF QuietPage
<1>2. ASSUME NEW h \in Handlers, Submit(h) \/ AskHint(h) PROVE QuietPage'
    <2>1. ~disturbed
        BY <1>2, <1>a DEF Submit, AskHint, Call
    <2> QED BY <1>1, <1>2, <2>1 DEF Submit, AskHint
<1>3. ASSUME NEW h \in Handlers, Receive(h) PROVE QuietPage'
    <2>1. /\ h \in waiting /\ waiting' = waiting \ {h} /\ UNCHANGED live
          /\ handler[h].stage = "done" /\ handler' = [handler EXCEPT ![h] = Free]
          /\ page' = AfterReply(handler[h].call, handler[h].reply)
          /\ disturbed' = (disturbed \/ handler[h].reply.kind = "error")
        BY <1>3 DEF Receive, Release
    <2>2. QuietPage /\ handler[h].reply.kind # "error"
        BY <1>a, <2>1 DEF QuietInv
    <2>3. waiting' = {} /\ PendingAgrees(h)
        BY <2>1, <2>2 DEF QuietPage
    <2>4. \A g \in Handlers : handler'[g].stage = "free"
        BY <1>a, <2>1, <2>2 DEF QuietPage, Free
    <2>5. CASE handler[h].call = "submit"
        <3>1. handler[h].reply.kind = "verdict" /\ handler[h].reply.next = live.item
            BY <2>1, <2>2, <2>3, <2>5 DEF PendingAgrees
        <3>2. page'.phase = "feedback" /\ page'.result = handler[h].reply
            BY <1>a, <2>1, <3>1 DEF AfterReply, Page
        <3> QED BY <2>1, <2>2, <2>3, <2>4, <3>1, <3>2 DEF QuietPage
    <2>6. CASE handler[h].call = "hint"
        <3>1. /\ handler[h].reply.kind = "hint" /\ handler[h].reply.next = live.item
              /\ page.phase = "answering"
            BY <2>1, <2>3, <2>6 DEF PendingAgrees
        <3>2. page' = [page EXCEPT !.result = handler[h].reply, !.hinted = TRUE]
            BY <2>1, <3>1 DEF AfterReply
        <3>3. page'.phase = "answering" /\ page'.item = page.item /\ page'.result = handler[h].reply
            BY <1>a, <3>1, <3>2 DEF Page
        <3> QED BY <2>1, <2>2, <2>3, <2>4, <3>1, <3>3 DEF QuietPage
    <2> QED BY <1>a, <2>5, <2>6 DEF Handler
<1>4. ASSUME NEW h \in Handlers, LoseRequest(h) \/ LoseReply(h) PROVE QuietPage'
    BY <1>4 DEF LoseRequest, LoseReply
<1>5. ASSUME NEW h \in Handlers, Discard(h) PROVE QuietPage'
    BY <1>5 DEF Discard, Release, QuietInv, QuietPage
<1>6. ASSUME NEW h \in Handlers, HandlerStep(h), UNCHANGED <<page, waiting, calls, disturbed>>
      PROVE  QuietPage'
    BY <1>6, HandlerKeepsQuiet DEF QuietInv
<1>7. CASE HandleNext
    <2>1. QuietPage /\ waiting = {} /\ page.result.next = live.item
        BY <1>7 DEF HandleNext, QuietInv, QuietPage
    <2>2. /\ page'.phase = "answering" /\ page'.item = live.item /\ ~page'.hinted
          /\ UNCHANGED <<live, handler, waiting>>
        BY <1>7, <1>a, <2>1 DEF HandleNext, Page
    <2> QED BY <2>1, <2>2 DEF QuietPage
<1>8. CASE ServiceRestarts
    BY <1>8 DEF ServiceRestarts
<1>9. CASE Resume /\ UNCHANGED <<page, waiting, calls, disturbed>>
    BY <1>9, GoneType DEF Resume, QuietInv, QuietPage
<1>10. CASE UNCHANGED vars
    BY <1>10 DEF vars, QuietInv, QuietPage, PendingAgrees
<1> QED BY <1>2, <1>3, <1>4, <1>5, <1>6, <1>7, <1>8, <1>9, <1>10 DEF Next

(* While calls neither overlap nor fail, the page shows the item the       *)
(* service will judge, and what it counts as a hint was one on that item   *)
(* (Tutor.tsx:521, 578).                                                   *)
THEOREM SpecQuietPageAgrees == Spec => []QuietPageAgrees
<1>1. Init => IInv /\ QuietInv
    BY IInvInit, QuietInvInit
<1>2. IInv /\ QuietInv /\ [Next]_vars => (IInv /\ QuietInv)'
    BY IInvStep, QuietInvStep
<1>3. IInv /\ QuietInv => QuietPageAgrees
    BY DEF QuietInv, QuietPage, QuietPageAgrees
<1> QED BY <1>1, <1>2, <1>3, PTL DEF Spec
================================================================================
