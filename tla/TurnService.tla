------------------------------ MODULE TurnService ------------------------------
(***************************************************************************)
(* One session of the tutor on the server: the handlers of a thread pool   *)
(* that share its live record without a lock, the rows it is written to    *)
(* after each decision, the restart that loses the record and the resume   *)
(* that rebuilds one from the rows (api/service.py, db/repositories.py).   *)
(*                                                                         *)
(* A handler is split where it waits: for the voice of a hint and for the  *)
(* database.  What LiveLesson decides is reduced here to what is stored    *)
(* and to which item is on screen; every outcome of a turn stays possible. *)
(***************************************************************************)
EXTENDS Naturals, FiniteSets, Sequences

CONSTANTS Handlers,      \* threads that may serve a request of this session
          Lessons, Goal, \* the session's goal and the prerequisites below it
          NoLesson

ASSUME ServiceAssumption ==
    /\ IsFiniteSet(Handlers)
    /\ Goal \in Lessons
    /\ NoLesson \notin Lessons

VARIABLES live,     \* the _LiveSession of the process, or Gone
          handler,  \* what each thread is doing
          store,    \* the committed rows: session opened, turn indexes, mastery rows
          past      \* history, for the properties only (served numbers the items)

serviceVars == <<live, handler, store, past>>

(* paused is empty, or holds the confirmed set of the parent.              *)
LiveSession == [present : BOOLEAN, kc : Lessons, touched : BOOLEAN, item : Nat,
                probing : BOOLEAN, confirmed : SUBSET Lessons, paused : SUBSET SUBSET Lessons,
                opened : BOOLEAN, turnCount : Nat]

Row == {"none", "open", "confirmed"}   \* what is stored of a lesson's mastery

Start(opened) ==
    [present |-> TRUE, kc |-> Goal, touched |-> FALSE, item |-> 1, probing |-> FALSE,
     confirmed |-> {}, paused |-> {}, opened |-> opened, turnCount |-> 0]

(* The process knows no such session.                                      *)
Gone == [Start(FALSE) EXCEPT !.present = FALSE]

Writing == {"indexed", "rolled", "selected"}
Working == Writing \cup {"voicing", "decided"}
Stage == Working \cup {"free", "sent", "done"}

Reply == [kind : {"none", "verdict", "hint", "error"}, next : Nat,
          passed : Lessons \cup {NoLesson}]
NoReply == [kind |-> "none", next |-> 0, passed |-> NoLesson]
ErrorReply == [NoReply EXCEPT !.kind = "error"]

Handler == [stage : Stage, call : {"submit", "hint"}, reply : Reply, index : Nat,
            roll : [kc : Lessons \cup {NoLesson}, row : Row], loaded : Row]
NoRoll == [kc |-> NoLesson, row |-> "none"]
Free == [stage |-> "free", call |-> "submit", reply |-> NoReply, index |-> 0,
         roll |-> NoRoll, loaded |-> "none"]

Past == [served : Nat, earned : SUBSET Lessons, lost : BOOLEAN, overlapped : BOOLEAN,
         restarts : Nat]
--------------------------------------------------------------------------------
(* What a submitted answer may do to the live record.                      *)

Fresh == past.served + 1

Verdict(l, passed) ==
    [live |-> [l EXCEPT !.item = Fresh],
     reply |-> [kind |-> "verdict", next |-> Fresh, passed |-> passed]]

(* A practice answer: the next problem, the probe, or a drop one level.    *)
PracticeOutcomes(l) ==
    LET practised == [l EXCEPT !.touched = TRUE]
        dropped(k) == [l EXCEPT !.kc = k, !.touched = FALSE, !.confirmed = {},
                                !.paused = {l.confirmed}]
    IN {Verdict(practised, NoLesson)}
       \cup {Verdict([practised EXCEPT !.probing = TRUE], NoLesson) : k \in {l.kc} \ l.confirmed}
       \cup {Verdict(dropped(k), NoLesson) :
                k \in IF l.paused = {} THEN Lessons \ {Goal} ELSE {}}

(* The drop whose prerequisite has no content: the next problem was served,*)
(* then the request became an error.                                       *)
FailedDrop(l) == [live |-> [l EXCEPT !.touched = TRUE, !.item = Fresh], reply |-> ErrorReply]

(* FAULTY: the parent comes back and stays paused.                         *)
ProbeOutcomesKeepsParent(l) ==
    LET over == [l EXCEPT !.probing = FALSE]
        completed == [over EXCEPT !.confirmed = @ \cup {l.kc}]
        resumed == [over EXCEPT !.kc = Goal, !.confirmed = UNION l.paused]
    IN {Verdict(over, NoLesson), Verdict(l, NoLesson),
        Verdict(IF l.paused = {} THEN completed ELSE resumed, l.kc)}

(* A probe answer: the probe fails, goes on, or is passed; a nested pass   *)
(* brings the parent back with its own confirmed set.                      *)
ProbeOutcomes(l) ==
    LET over == [l EXCEPT !.probing = FALSE]
        completed == [over EXCEPT !.confirmed = @ \cup {l.kc}]
        resumed == [over EXCEPT !.kc = Goal, !.confirmed = UNION l.paused, !.paused = {}]
    IN {Verdict(over, NoLesson), Verdict(l, NoLesson),
        Verdict(IF l.paused = {} THEN completed ELSE resumed, l.kc)}

AnswerOutcomes(l) ==
    IF l.probing THEN ProbeOutcomes(l)
    ELSE PracticeOutcomes(l) \cup (IF l.paused = {} THEN {FailedDrop(l)} ELSE {})
--------------------------------------------------------------------------------
(* The session and learner rows may fail to open: the session then runs    *)
(* with no row for ever.                                                   *)
ServiceInit ==
    /\ \E opened \in BOOLEAN :
          /\ live = Start(opened)
          /\ store = [opened |-> opened, turns |-> <<>>, rows |-> [k \in Lessons |-> "none"]]
    /\ handler = [h \in Handlers |-> Free]
    /\ past = [served |-> 1, earned |-> {}, lost |-> FALSE, overlapped |-> FALSE,
               restarts |-> 0]

Arrive(h, call) ==
    /\ handler[h].stage = "free"
    /\ handler' = [handler EXCEPT ![h] = [Free EXCEPT !.stage = "sent", !.call = call]]
    /\ UNCHANGED <<live, store, past>>

Overlaps(h) == \E g \in Handlers \ {h} : handler[g].stage \in Working

To(h, stage) == [handler[h] EXCEPT !.stage = stage]

(* A handler that is done keeps only its reply.                            *)
Done(h) == [To(h, "done") EXCEPT !.index = 0, !.roll = NoRoll, !.loaded = "none"]

(* Unknown session: nothing was rebuilt since the restart.                 *)
NotFound(h) ==
    /\ handler[h].stage = "sent"
    /\ live = Gone
    /\ handler' = [handler EXCEPT ![h] = [To(h, "done") EXCEPT !.reply = ErrorReply]]
    /\ UNCHANGED <<live, store, past>>

(* The whole decision of a submitted answer.  The request names the problem*)
(* it answers and nobody reads that: the judgement is of the item held.    *)
Decide(h) ==
    /\ handler[h].stage = "sent" /\ handler[h].call = "submit"
    /\ live # Gone
    /\ \E o \in AnswerOutcomes(live) :
          /\ live' = o.live
          /\ handler' = [handler EXCEPT ![h] =
                 [To(h, IF o.reply = ErrorReply THEN "done" ELSE "decided")
                     EXCEPT !.reply = o.reply]]
          /\ past' = [past EXCEPT !.served = Fresh,
                                  !.earned = @ \cup ({o.reply.passed} \cap Lessons),
                                  !.overlapped = @ \/ Overlaps(h)]
    /\ UNCHANGED store

(* A hint reads the problem, then waits for its voice; during the probe the*)
(* step on screen is repeated at once.                                     *)
ReadHint(h) ==
    /\ handler[h].stage = "sent" /\ handler[h].call = "hint"
    /\ live # Gone
    /\ handler' = [handler EXCEPT ![h] =
           [To(h, IF live.probing THEN "decided" ELSE "voicing")
               EXCEPT !.reply = [kind |-> "hint", next |-> live.item, passed |-> NoLesson]]]
    /\ past' = [past EXCEPT !.overlapped = @ \/ Overlaps(h)]
    /\ UNCHANGED <<live, store>>

VoiceHint(h) ==
    /\ handler[h].stage = "voicing"
    /\ handler' = [handler EXCEPT ![h] = To(h, "decided")]
    /\ UNCHANGED <<live, store, past>>
--------------------------------------------------------------------------------
(* Writing the turn: the index is taken, the turn inserted and the roll-up *)
(* read, the mastery row looked up, everything committed.                  *)

SkipWrite(h) ==
    /\ handler[h].stage = "decided"
    /\ ~live.opened
    /\ handler' = [handler EXCEPT ![h] = To(h, "done")]
    /\ UNCHANGED <<live, store, past>>

TakeIndex(h) ==
    /\ handler[h].stage = "decided"
    /\ live.opened
    /\ handler' = [handler EXCEPT ![h] = [To(h, "indexed") EXCEPT !.index = live.turnCount]]
    /\ live' = [live EXCEPT !.turnCount = @ + 1]
    /\ UNCHANGED <<store, past>>

(* FAULTY: mastery still to be checked by the probe is stored as confirmed.*)
MasteryRollupProvisional(l) ==
    IF ~l.touched THEN NoRoll
    ELSE [kc |-> l.kc,
          row |-> IF l.probing \/ l.kc \in l.confirmed THEN "confirmed" ELSE "open"]

(* The active lesson and its flag; a lesson not answered yet has no row.   *)
MasteryRollup(l) ==
    IF ~l.touched THEN NoRoll
    ELSE [kc |-> l.kc, row |-> IF l.kc \in l.confirmed THEN "confirmed" ELSE "open"]

InsertTurn(h) ==
    /\ handler[h].stage = "indexed"
    /\ handler' = [handler EXCEPT ![h] = [To(h, "rolled") EXCEPT !.roll = MasteryRollup(live)]]
    /\ UNCHANGED <<live, store, past>>

SelectRow(h) ==
    LET kc == handler[h].roll.kc IN
    /\ handler[h].stage = "rolled"
    /\ handler' = [handler EXCEPT ![h] =
           [To(h, "selected") EXCEPT !.loaded = IF kc = NoLesson THEN "none" ELSE store.rows[kc]]]
    /\ UNCHANGED <<live, store, past>>

(* Two first writes of one lesson: the second breaks the unique key.       *)
Collides(h) ==
    /\ handler[h].roll.kc \in Lessons
    /\ handler[h].loaded = "none"
    /\ store.rows[handler[h].roll.kc] # "none"

(* An update carries only what differs from what was looked up.            *)
Commit(h) ==
    LET roll == handler[h].roll
        written(k) == IF k = roll.kc /\ roll.row # handler[h].loaded THEN roll.row
                      ELSE store.rows[k]
    IN
    /\ handler[h].stage = "selected"
    /\ ~Collides(h)
    /\ store' = [store EXCEPT !.turns = Append(@, handler[h].index),
                              !.rows = [k \in Lessons |-> written(k)]]
    /\ handler' = [handler EXCEPT ![h] = Done(h)]
    /\ UNCHANGED <<live, past>>

(* Any step of the write may fail, and the collision always does: the      *)
(* transaction is rolled back and the failure swallowed.                   *)
WriteFails(h) ==
    /\ handler[h].stage \in Writing
    /\ handler' = [handler EXCEPT ![h] = Done(h)]
    /\ past' = [past EXCEPT !.lost = TRUE]
    /\ UNCHANGED <<live, store>>

Release(h) ==
    /\ handler[h].stage = "done"
    /\ handler' = [handler EXCEPT ![h] = Free]
    /\ UNCHANGED <<live, store, past>>
--------------------------------------------------------------------------------
Restart ==
    /\ live # Gone
    /\ live' = Gone
    /\ handler' = [h \in Handlers |-> Free]
    /\ past' = [past EXCEPT !.restarts = @ + 1,
                            !.lost = @ \/ \E h \in Handlers : handler[h].stage \in Writing]
    /\ UNCHANGED store

(* FAULTY: the rebuilt record starts with nothing confirmed.               *)
RehydratedUnconfirmed ==
    [Start(TRUE) EXCEPT !.item = Fresh, !.turnCount = Len(store.turns)]

(* FAULTY: the turn count of a rebuilt record starts over.                 *)
RehydratedFromZero ==
    [Start(TRUE) EXCEPT !.item = Fresh,
                        !.confirmed = {k \in Lessons : store.rows[k] = "confirmed"}]

Rehydrated ==
    [Start(TRUE) EXCEPT !.item = Fresh, !.turnCount = Len(store.turns),
                        !.confirmed = {k \in Lessons : store.rows[k] = "confirmed"}]

(* Nothing to resume from when the rows were never opened.                 *)
Resume ==
    /\ live = Gone
    /\ store.opened
    /\ live' = Rehydrated
    /\ past' = [past EXCEPT !.served = Fresh]
    /\ UNCHANGED <<handler, store>>

HandlerStep(h) ==
    \/ NotFound(h) \/ Decide(h) \/ ReadHint(h) \/ VoiceHint(h)
    \/ SkipWrite(h) \/ TakeIndex(h) \/ InsertTurn(h) \/ SelectRow(h) \/ Commit(h) \/ WriteFails(h)

ServiceNext ==
    \/ \E h \in Handlers : \/ \E call \in {"submit", "hint"} : Arrive(h, call)
                           \/ HandlerStep(h) \/ Release(h)
    \/ Restart \/ Resume

ServiceSpec == ServiceInit /\ [][ServiceNext]_serviceVars
================================================================================
