# WhollyMath: TLA+ models, checks and proofs

WhollyMath is a tutor for middle-school mathematics: a FastAPI service that runs one *live
session* per learner, a React client, a PostgreSQL store, and a set of parts around them
(homework, accounts, course map, teacher views, telemetry, voice). This directory holds TLA+
models of its core, the TLC runs that check them on small instances, and TLAPS proofs of the
theorems that hold for every value of the constants.

The centre is the **turn loop** of a live lesson (`src/backend/app/api/service.py`, with the
tutor, policy, scheduler, mastery, probe and remediation modules it calls), because the
product promises depend on it. Around it are modelled: how a turn is written down while
threads share a session and the service restarts, the lesson page that calls it over a network
that loses things, the homework run over two devices, the accounts of a child and its parent,
the content of the lessons from the draw of a problem to the verdict, and what the course
pages and the teacher's dashboard make of the stored rows. All paths below are relative to
`src/backend/app/` unless they start with `src/`.

- [Inventory](#inventory) -- the parts of the system, modelled or not
- [Modules](#modules) -- which module models which code, and how
- [Runs](#runs) -- what each run checks, its bounds, and why they are enough
- [Fairness](#fairness-and-liveness)
- [Proofs](#proofs)
- [Findings](#where-the-code-and-its-comments-disagree)
- [Not modelled, and the plan](#not-modelled-and-the-plan)

## Inventory

### The live session (modelled)

| part | code | state it keeps | operations |
|---|---|---|---|
| turn loop | `api/service.py` `SessionStore`, `_LiveSession` | the active tutor, the HelpNeed stream, the probe's steps and index, the confirmed set, the probe cooldown, the hint count, the paused parent, the flow | `process_turn`: submit (practice, probe step), hint (practice, probe); drop to a prerequisite; resume of the parent; completion |
| tutor session | `tutor/session.py` `TutorSession` | goal, history, current problem, surface, correct streak, error run, mastery model | `for_goal_kc`, `submit_answer`, `present_problem` |
| surface policy | `policy/transitions.py`, `policy/signal_routing.py` | none | `next_transition`: stuck, fade, reroute by kind of error, else stay |
| practice scheduler | `policy/scheduler.py` | none | difficulty ramp, rotation through representations, re-practice after an error |
| transfer probe | `tutor/live_transfer_probe.py` | none | builds the steps of the confirm gate |
| mastery model | `mastery/mastery_model.py` | BKT estimate, log of observations | `declare_mastery` |
| remediation | `policy/intervention_gate.py`, `policy/remediation_router.py`, `policy/remediation_flow.py`, `domain/prerequisites.py` | the flow (in lesson / in remediation with its context) | the sustained-help gate, the target selector, trigger, clear |
| catalogue | `domain/lesson_spec.py`, `domain/knowledge_components.py` | static tables | lookups |

They interact by plain calls inside one request. A submitted answer goes: verifier verdict
-> counters and surface policy -> mastery evidence -> does the transfer probe open? -> serve
the next problem -> HelpNeed reading -> does the learner drop to a prerequisite? -> response.
While a probe runs, answers bypass the tutor: they are judged by the verifier alone. While a
prerequisite is worked, the parent's seven fields wait in a snapshot.

What makes it hard: the conditions of the probe are spread over six fields updated on
different paths; five paths serve a problem and each must reset the same things; two axes
(surface and flow) and two lessons (paused and active) have to move together; the schedule,
the cooldown and the re-practice rule interact over many turns. What must hold: nobody is
confirmed without an earned, whole, two-representation probe; the item on screen is the one
that will be judged; a drop is one level, and gives the parent back untouched; a learner who
has the skill gets to the end.

### Storing a session, and the page in front of it (modelled)

| part | code | state it keeps | operations |
|---|---|---|---|
| turn persistence | `api/service.py` `_persist_turn`, `_mastery_rollup`; `db/repositories.py`, `db/models.py` | `Session`, `Turn` and `MasteryState` rows | one transaction after each decision; failures are logged and swallowed |
| resume | `api/service.py` `resume`, `_rehydrate` | the live record, rebuilt from the rows | a new record with the goal, the confirmed set and the turn count |
| turn client | `src/frontend/src/pages/Tutor.tsx`, `src/frontend/src/api/index.ts` | phase, item, last result, whether a hint was shown | submit, hint, next |

Routes are plain functions served from a thread pool and a live session has no lock, so two
requests of one session interleave wherever a handler waits: for the voice of a hint, for the
database. A write that fails is never reported. After a restart the live record is gone; the
code can rebuild one, but no route does. The page goes on answering while it waits for a hint
and treats every failure alike. What must hold: what is stored as confirmed was earned and
stays; turn indexes do not repeat for no reason; the page and the service are at one item as
long as nothing overlaps or gets lost; an answer is never left without a reply.

### Homework, accounts (modelled)

| part | code | state it keeps | operations |
|---|---|---|---|
| homework run | `homework/session.py`, `scanner.py`, `grading.py`, `assignment.py`; `src/frontend/src/pages/Homework.tsx`, `HomeworkUpload.tsx` | one `HwRun` in memory: draft, state, result; the two pages | assign, submit pages, status, confirm; polling; correcting the read-back |
| accounts | `api/child_account_service.py`, `api/parent_auth_service.py`, `api/parent_session.py`, `auth/pin_lockout.py` | the child's row with its failed count and lock time, the parent's verified flag, `AuthSession` rows, one cookie per browser | sign up, verify, create, delete, sign in, open the profile, reset the PIN, sign out here or everywhere |

No step of a homework run looks at its state, and polls, uploads and confirmations may overtake
each other. A PIN is hashed between the read of the row and its write, so that requests for one
child interleave; a write carries only the columns that changed. What must hold: a verdict is of
what the learner confirmed; pages sent come up for review; a lock lasts as long as promised and
no longer; a child is served only for a verified parent and never on a session that was
signed out.

### Content, course and dashboard (modelled)

| part | code | state it keeps | operations |
|---|---|---|---|
| content | `domain/problem_generators.py`, `domain/verifier.py`, `domain/misconceptions.py`, `tutor/worked_example.py`, `tutor/hints.py`, `domain/lesson_spec.py`; the widgets of `src/frontend/src/workspace/` | none; the hint count and the last misconception of a session | draw a problem, walk it, predict its slips, grade an answer, pick its widget, read a hint |
| course progress | `mastery/retention.py`, `course_map.py`, `progression.py`, `unit_progress.py`; `domain/curriculum.py`, `domain/prerequisites.py` | none: functions of the mastery rows and the day | map, study plan, units with their lessons |
| teacher dashboard | `teacher/`, `api/teacher_service.py` | assignments | alerts, bucket, help-need trend, current unit and lesson, assign a unit |

The content is some ten thousand lines in which each lesson is written by hand, several times:
as a generator, a step builder, a slip and a widget. A collision of a slip with the right
answer shows for one draw in hundreds. The course pages are four modules that each read the
same rows in a way of their own, with time passing.

### The rest (not modelled)

| part | code | why |
|---|---|---|
| rate limiter | `api/rate_limit.py` | one counter behind one lock; its tests reach the edges |
| telemetry, nudge | `events/ingest.py`, `policy/mid_problem_help.py`, `policy/state_classifier.py` | they annotate responses and append rows nobody reads |
| spoken help | `tts/` | a cache in front of a speech service |
| HelpNeed predictor, language model, voice | `helpneed/`, `llm/`, `persona_surface/` | learned models: free choices of the models here |
| personas, evaluation | `personas/`, `eval/` | offline experiments |
| the other pages | `src/frontend/src/` | rendering |

## Modules

| module | models | notes |
|---|---|---|
| `LessonCatalog` | the tables the turn loop reads | constants with `CatalogAssumption`; the theorems hold for every catalogue |
| `LessonSpecs` | the declared contract of every lesson: representations advertised, error routes, misconceptions | data, one definition per stretch of a registry |
| `SurfacePolicy` | `next_transition` and the routing of errors to surfaces | thresholds `FadeStreak`, `StuckErrors` |
| `MasteryRules` | the evidence rules of `declare_mastery` | the log of observations is what the rules read off it |
| `PracticeSchedule` | ramp, rotation, re-practice, the probe's steps | functions only |
| `Remediation` | sustained-help gate, target selector, flow machine | the stream is the length of its trailing run of high readings |
| `LiveLesson` | the session: every path of `process_turn` | composes the ones above |
| `MasteryGate` | abstract: a stack of at most two lessons and a gate | what `LiveLesson` implements |
| `CapableLearner` | the session with its learner | the liveness properties |
| `TurnService` | threads over one live record, the write in four steps, restart, resume | what `LiveLesson` decides, reduced to what is stored and which item is on screen |
| `TurnClient` | the page and the network in front of `TurnService` | EXTENDS it; fairness and the properties of both |
| `Homework` | the run, the phone, the desktop and its requests | |
| `ChildAccounts` | the child's row, sessions, cookies, requests in flight, the clock | |
| `Rationals`, `Problems` | exact fractions; the shape of a problem and of a worked step | |
| `NumberProblems`, `FractionProblems`, `RatioProblems`, `ExpressionProblems`, `GeometryProblems`, `StatisticsProblems` | per strand: what each generator can draw, what each slip leads to, the worked steps | sets of problems where the code draws one |
| `ProblemBank` | the registries over the strands and the grading of an answer | |
| `PracticeItem` | one item from the draw to the verdict, with its widget and its hints | |
| `CourseCatalog` | the curriculum and the forward graph | the source's own data, which the runs substitute for those constants |
| `CourseProgress` | the rows, the days, and what the pages make of them | curriculum, teaching order and graph are constants with a `CatalogAssumption` of their own; the theorems hold for every course |
| `TeacherDashboard` | a student's answers and assignments over `CourseProgress` | EXTENDS it |
| `MC...` | the values TLC takes for the constants | |
| `PracticeSchedule_proof`, `LiveLesson_proof`, `TurnClient_proof`, `Homework_proof`, `ChildAccounts_proof`, `CourseProgress_proof`, `TeacherDashboard_proof`, `PracticeItem_proof` | the theorems | |

An operator whose comment starts with FAULTY is the definition after it with a plausible
mistake; no model uses it. `PROJECT.json` pairs each with the property that catches it.

The sections on state, actions and abstraction that follow are about `LiveLesson`; those of the
other models come after.

### State

| variable of `LiveLesson` | field of the code |
|---|---|
| `tutor` | `live.tutor`: `goal` is `history[0].observation.kc` (one KC per live lesson), `answered` is `len(history)`, `problem` is `current_problem`, `last` is what the scheduler reads of `history[-1]`, `evidence` is what `declare_mastery` reads of the observations |
| `helpRun` | `live.help_need_history`, through the only question asked of it |
| `probe`, `step` | `live.probe_steps`, `live.probe_index` |
| `confirmed`, `cooldown`, `hints` | `live.confirmed`, `live.probe_cooldown`, `live.hints_this_problem` |
| `paused` | `live.paused_parent`: empty or one snapshot |
| `leftover` | `live.paused_parent` once more: a drop that failed left a snapshot there; no code reads it before the next drop overwrites it, so whether there is one is all that is kept |
| `flow` | `live.flow` |
| `reply` | what the last response shows: surface, item, and which of worked example, explanation, intervention, completion and remediation panel; or that the request was an error |
| `rested` | history variable, for the properties only: practice since the last failed probe |

### Actions

| action | code path |
|---|---|
| `AnswerOpensProbe` | `_answer_response`, when the six conditions hold: nothing is served behind the probe |
| `AnswerServesNext` | `_answer_response`, the usual end: serve, take the reading, maybe offer help |
| `AnswerBeginsRemediation` | `_answer_response` -> `_maybe_remediate` -> `_begin_remediation`; the parent's next problem is served before the pause |
| `AnswerFailsToDrop` | the same path where the chosen prerequisite has no content: an error between the snapshot and the swap, after the answer counted and the next problem was served |
| `ProbeStepWrong`, `ProbeStepRight`, `ProbePassed`, `ProbePassedResumesParent` | the four ends of `_probe_turn` |
| `RequestHint`, `RequestHintDuringProbe` | `_hint_response`, `_probe_hint_response` |

Each action is a whole handler. An answer is a record `o \in Answer`: the verifier's verdict
and category, whether a hint was declared, whether the time was above the engagement floor,
whether the BKT estimate ends above the threshold, and whether the HelpNeed reading is high.
The last two are real-valued models in the code and free choices here, so the model has every
behaviour of the code and some a particular fit of the estimators would not show; a property
that holds of the model holds for any fit.

### What the model abstracts

- **Practice index.** The code counts answers for ever. The count is compared with the ramp
  minimum and taken modulo the number of representations; an index that would reach
  `IndexCap` is folded back by `Rotation`, a multiple of every lesson's number of
  representations, and stays above the minimum. No condition tells the two apart. The
  difficulty of a problem is a function of the index and is at its top by then.
- **Counters** are compared with one bound and are kept at it (`AtMost`): streak, error run,
  attempts, correct items, help run, hints.
- **Problems** are the lesson, the representation, and the index that seeds them. Texts,
  numbers, hint lines, voice and layout are left out.
- **Categories of a wrong answer** are a constant, `Slips`, any subset of the verifier's
  four; the theorems hold for each, the runs of one lesson take all four.
- **The lowest BKT estimate** among the candidate prerequisites is a free choice.

`LessonAssumption`, `CatalogAssumption` and the other named assumptions state what is
required of the constants; TLC evaluates them in every run.

### The other models

**`TurnService`.** `live` is the `_LiveSession` reduced to what a write reads: active lesson,
whether it has answers yet, the item (a number; each item served gets the next), whether a
probe runs, the confirmed set, the parent's confirmed set while it is paused, whether rows were
opened, the turn count. `handler` is what each thread is doing. A turn is `Decide` (a submitted
answer: any outcome `LiveLesson` has for it) or `ReadHint` and `VoiceHint`, then the write:
`TakeIndex`, `InsertTurn` with the roll-up, `SelectRow`, `Commit` -- or `WriteFails` at each of
these, and always where two first rows of a lesson collide. `SkipWrite` is the session that never
got its rows. The decision is one step: it makes no call that waits. `Restart` and `Resume` are
the operator's. `past` is history.

**`TurnClient`.** `page` is phase, item shown, last result and whether a hint counts against
the answer; `waiting` are the requests it still waits for. `LoseRequest` breaks the connection
before the request arrived, `LoseReply` after: the handler goes on and its reply is discarded.
`disturbed` remembers whether calls overlapped, failed or were lost.

**`Homework`.** Items are numbers, those of the new skill first. An answer is the item it is
right for; a line of the photograph is legible or not, and an illegible one is *skipped*, so
later answers move up, as `_extract_answers` does. `run` is the `HwRun`; `phone.orphans` counts
scans whose phone has given up; `call` are the desktop's requests, each sent, answered, received
or lost at any time. `Restart` loses the run.

**`ChildAccounts`.** `child` is the row (with its id and a number for the PIN), `sessions` the
`AuthSession` rows in the order of their ids, `cookie` what each browser presents. `StartLogin`
and `StartReset` read the row; `WrongPin`, `AcceptPin`, `ResetChildPin` are what happens after
the hash, with a write (`Saved`) of the columns that differ from what was *read*; `Orphaned` is
the request whose child is gone. `past` counts wrong PINs in a row and remembers when the lock
was tripped last, to say what the lock should be.

**Content.** A generator is the *set* of problems it can draw at a tier and format; `Serve`
picks any. A problem keeps its operands, the value or structured answer it is graded against,
and its kind. A worked step keeps the numbers it writes, as written (`4/6` is not `2/3`, and
`0.25` is `<<25, 100, "decimal">>`), the value it reveals, and whether it names a non-numeric
answer. So the filter of the hints is the code's, which compares texts, and the properties
compare values. Expressions are kept as coefficient and constant or as operation
and constant: two are equivalent when these are equal. `Entries` is what the widget lets one
enter, restricted to the right answer and what a slip predicts; any other answer is
`AnswerOther`.

**`CourseProgress`.** `rows` are the mastery rows (percent, confirmed, day), an answer writes
one, days pass. The write overwrites the flag with the one its turn holds (`HeldFlags`): for a
skill that is confirmed it may be the old one, when the turn rolled up before the confirmation
and commits after it. Retention halves every three days; the cube of a percentage halves every day,
which keeps all comparisons in the integers and exact. Everything else is functions, named as in
the code. A learner may answer what the pages offer: an open lesson of an open unit, a skill the
map shows as open, a review.

**`TeacherDashboard`.** `turns` are the student's turns, `assigned` when each unit was last
assigned. An answer writes a row and a turn in one transaction. A request for a hint
(`StudentAsksHint`) is stored as a turn too, one that is not right and of the category `none`,
which the alerts count like any other; a right answer has no category (`NoCategory`, the column
is null). Rates are compared crosswise.

## Runs

`tlc -config <cfg> <module>` in this directory. Nine pass, three show a disagreement.

| run | module, cfg | checks | states |
|---|---|---|---|
| `single_lesson` | `MCLiveLesson`, `MCSingleLesson.cfg` | `TypeOK`, `ProbeIsEarned`, `RampWalked`, `SurfaceMatchesCounters` | 41 000 |
| `remediation` | `MCLiveLesson`, `MCRemediation.cfg` | `ScreenIsJudged`, `OneLevelDown`, `ConfirmedByWholeProbe`, `ParentPausesNeverResets`, `CompletesOnce`, `HintsStartOver`, `ImplementsGate` | 140 000 |
| `lesson_finishes` | `MCCapableLearner`, `MCLessonFinishes.cfg` | `CapableLearnerFinishes` | 122 000 |
| `turn_service` | `MCTurnClient`, `MCTurnService.cfg` | `TypeOK`, `StoredWasEarned`, `IndexesRepeatOnlyAfterLoss`, `QuietPageAgrees`, `StoredConfirmationStays`, `EveryAnswerReturns` | 985 000 |
| `accounts` | `MCChildAccounts`, `MCChildAccounts.cfg` | `TypeOK`, `LockoutExact`, `ServedChildIsVerified`, `SignedOutEverywhere` | 5 060 000 |
| `homework` | `MCHomework`, `MCHomework.cfg` | `TypeOK`, `VerdictIsOfConfirmed`, `SentPagesAreShown` | 889 000 |
| `practice_items` | `MCPracticeItem`, `MCPracticeItem.cfg` | `TypeOK`, `RightAnswerCanBeGiven`, `SlipIsDiagnosed`, `SlipIsRouted`, `WorkedEndsOnAnswer`, `HintsKeepAnswer` | 672 000 |
| `course` | `MCCourseProgress`, `MCCourse.cfg` | `TypeOK`, `PlanFollowsMap`, `ALessonIsOpen`, `ProgressIsKept` | 196 000 |
| `teacher` | `MCTeacherDashboard`, `MCTeacher.cfg` | `AlarmWearsOff`, `TrendsAgree`, `CurrentLessonIsOpen`, `LatestIsShown`, `RightAnswerRaisesNoAlarm` | 56 000 |
| `prerequisite_clears` | `MCCapableLearner`, `MCPrerequisiteClears.cfg` | `PrerequisiteClears` (violated) | |
| `failed_drop` | `MCLiveLesson`, `MCFailedDrop.cfg` | `PausedOnlyInRemediation` (violated) | |
| `playable_done` | `MCCourseProgress`, `MCPlayableDone.cfg` | `PlayableDoneIsMastered` (violated) | |

**`single_lesson`** uses the source's own thresholds: ramp minimum 10, two items per tier and
four tiers, cooldown 3, five engaged attempts, two representations, three correct items, fade
after two, stuck after two. Only the gate's window is 1 instead of 3, which here affects
nothing but the offer of help, and hints are not counted. Its lesson is `addition_unlike`, a
terminal lesson with the error-finding pair. It reaches probes, fails them, waits, reopens them,
and passes them.

**`remediation`** lowers the thresholds to one or none, so that a drop, the nested lesson, its
probe (failed and passed), the resumed parent and the parent's own probe all fit, with one hint
line to count. The catalogue is a chain: `integer_multiply_divide` drops to
`integer_add_subtract`, which itself lists prerequisites, so a second level of nesting is there
to be refused. That middle lesson may drop to `addition_unlike`, which an operation error
points at, or to `rationals_on_line`, which has no content, so both branches of the selector
and the drop that fails are taken. Wrong answers are operation errors (routed and flavored) or
of the unclassified kind (neither); any lesson with content may be the goal. The properties
here do not depend on the thresholds' size -- the theorems below say so for every size.

**`lesson_finishes`** has the learner wander anywhere and then have the skill. Two levels are
enough for a drop, a failed drop, a nested probe and the way back.

**`turn_service`** has two threads, the goal and one prerequisite, three calls of the page and
one restart. Two threads are enough for every overlap of two requests, three calls for a lost
reply whose handler still writes while two later ones run; the resume may come at any time after
the restart. `CHECK_DEADLOCK FALSE`: the page stops when its calls are spent. The proofs cover
the rest of the sizes.

**`accounts`** has two browsers of one household, a lock after two wrong PINs for two ticks of
a clock of three, sessions of two and three ticks, two sessions, four sign-ins, two PINs, one
sign-out: a lock trips, ends and trips again, a PIN is reset and a child created anew while
another request hashes. Browsers are interchangeable, hence the symmetry; no property is a
liveness property. It stops when its bounds are spent.

**`homework`** has two items, two requests of the desktop in flight, two losses and a restart.
With two items a skipped line already moves the other answer up. It stops once graded pages are
on screen and no bound is left.

**`practice_items`** takes *every* lesson with content in *every* live format at *every* tier.
The generators whose draws are too many are sampled through constants: data sets of 3 or 4
values (`SampleSizes`) that lie at most `SpreadSlack` apart from the code's smallest spread,
points at most 3 from the origin (`GridBound`), check registers of 2 or 3 entries
(`RegisterLengths`) with 0 or 3 quarters (`RegisterCents`). Up to three hints are asked for
(`MaxHints`): no problem drawn has more than three answer-free lines, so three hints reach
every line. All other draws are complete.

**`course`** uses the whole curriculum and graph of the source (`CourseCatalog`). A
learner starts with nothing, with all 44 skills of the teaching order, or with the skills of the
first one or two units (`Backgrounds`), then gives two answers (at 40 or 95 percent) over two days: 95 percent falls
under the review threshold of 70 within two days and 40 at once. Two answers are enough for a
skill that is confirmed and then answered again; the long chains are in the backgrounds.

**`teacher`** takes a student with all but the first lesson of the first unit behind them and
no turns, four alike (right, with a hint or without, wrong, or hints asked for), or four wrong
ones or hints and a right one (`Histories`), five more turns with two categories of wrong
answers, two days, two teachers of the class and one who is not, two units, three assignments:
nine turns move the window of eight past its oldest. The constraint `Explored` keeps apart what does not interact: assignments are given
before the first turn of the behaviour, days pass while there are at most two, and from then on
the student's estimate is the higher one, since the alerts do not read it.

### What the properties say

Live lesson:

- `ProbeIsEarned` -- while a probe runs: the goal is masterable and unconfirmed, the evidence
  meets every rule, the ramp minimum was reached and the wait after an earlier failure is
  over. The wait is measured by `rested`, not by the cooldown the code keeps.
- `RampWalked` -- the problem that opened the probe was of the hardest tier. It ties the
  service's `_LESSON_RAMP_MIN` to the scheduler's `_RAMP_STEP` and `_MAX_DIFFICULTY`, two
  files that do not refer to each other.
- `ScreenIsJudged` -- on every path, what the response shows is what the next answer is
  judged against, and the surface is that item's, unless the last request failed; the first
  response after a failure is right again.
- `OneLevelDown` -- flow and snapshot agree; the paused parent is the one the flow names, at
  its index; the active lesson is a prerequisite of it.
- `SurfaceMatchesCounters` -- surface, streak and error run tell one story.
- `ConfirmedByWholeProbe`, `CompletesOnce`, `ParentPausesNeverResets`, `HintsStartOver` --
  action properties, stated in the module.
- `ImplementsGate` -- the session, seen as a stack of lessons and a gate, is `MasteryGate`:
  confirmation through the open gate only, one level of nesting, return only by passing.

Turn service and client:

- `StoredWasEarned` -- no overlap, failure or restart stores a lesson as confirmed whose probe
  was not passed, although the write reads the active lesson after the turn.
- `IndexesRepeatOnlyAfterLoss` -- as long as no write was lost, threads take different indexes
  and a resume that counts rows goes on where the process stopped. After a loss they do repeat:
  the count in memory had moved on, the rows had not.
- `StoredConfirmationStays` -- while requests do not overlap. When they do, the later commit of
  an earlier turn can clear the flag.
- `QuietPageAgrees` -- while calls neither overlap nor get lost, the item on the page is the one
  judged, the feedback is a verdict, and a hint that counts was of this item. Otherwise none
  of the three holds: a lost reply leaves the page one item behind, and a late hint replaces
  the verdict.
- `EveryAnswerReturns` -- liveness, see below.

Homework and accounts:

- `VerdictIsOfConfirmed` -- no scan and no late poll comes between what was confirmed and what
  is shown. Two confirmations in flight may still arrive in either order.
- `SentPagesAreShown` -- liveness, see below.
- `LockoutExact` -- while PIN requests do not overlap, the account is locked exactly for
  `Duration` from the last of `Threshold` wrong PINs in a row. The model counts the wrong PINs
  itself (`past.streak`), the code keeps a counter that starts over and a lock time it never
  removes.
- `ServedChildIsVerified`, `SignedOutEverywhere` -- relate a cookie to the parent's flag and to
  the sign-outs since it was issued, across deletion, re-creation and requests in flight.

Content:

- `RightAnswerCanBeGiven` -- no draw asks for an answer its editor cannot hold: the ticks and
  ends of the number line come of the answer, the fraction boxes take digits only and may have a
  fixed denominator.
- `SlipIsDiagnosed` -- no predicted slip equals the right value or leads to a name the bank does
  not have for the lesson.
- `SlipIsRouted` -- every recognised category of a lesson has a route, to a representation the
  component advertises and (four lessons apart) the scheduler serves.
- `WorkedEndsOnAnswer` -- the last step of a worked example reveals the value the item is graded
  against and writes a number of that value. One kind of item is treated apart: the rate of
  several units, whose last step stops at the product it asks for ("3 x 5"); there the two
  factors written must give the answer.
- `HintsKeepAnswer` -- however often a hint is asked for, no line writes a number of the answer's
  value, in lowest terms or not, although the filter compares texts. Left out are the two
  things the filter misses: products and quotients of fractions, whose second line writes the
  answer unreduced, and the decimals a question itself states (`PosedDecimals`), which a line
  may repeat although one of them is the answer. The code's docstring makes neither exception
  (see the disagreements below).

Course and dashboard:

- `PlanFollowsMap` -- the plan recommends what the map shows as due or open, for learners who
  confirmed skills in any order; nothing only when all is fresh. It also says that the graph has
  no cycle and leaves nothing out.
- `ALessonIsOpen` -- an open unit opens exactly its first unfinished lesson, and behind every
  locked unit some unit is open and unfinished.
- `ProgressIsKept` -- no step that takes no confirmation back lowers a unit's status or its
  percentage: not a lower estimate, not the days. A write that clears a flag may; it
  takes requests that overlap (see `StoredConfirmationStays`).
- `RightAnswerRaisesNoAlarm`, `AlarmWearsOff` -- a right answer without a hint never moves a
  student into the struggling bucket, and nobody with six right answers among the last eight
  turns is in it. A hint asked for is one of the eight: six right answers that are each preceded
  by one do not suffice.
- `TrendsAgree` -- a falling accuracy and the help-need trend of one window agree for a student
  who takes no hints.
- `CurrentLessonIsOpen`, `LatestIsShown` -- the teacher is told of a lesson the student can
  open; the student sees the unit assigned last, also when it was assigned before.

`PausedOnlyInRemediation`, `PrerequisiteClears` and `PlayableDoneIsMastered` say what comments
and tests of the source say, and do not hold (see the findings).

## Fairness and liveness

`LiveLesson` itself has no fairness: a learner may leave at any time. `CapableLearner` states
what is assumed of one who stays: once capable, they go on submitting (weak fairness of a
practice answer and of a probe answer). The service adds no wait of its own -- each request is
judged in the handler that receives it -- so nothing else is needed, and hint requests in
between are allowed without bound as long as answers do come. `capable` means from some
moment on: right, unaided, above the engagement floor, estimate above the threshold, no help
predicted. What came before is arbitrary: a failed probe, a drop, a cooldown, any counters.

`CapableLearnerFinishes` holds where every prerequisite is masterable on the live surface.
`PrerequisiteClears` fails for catalogues where one is not; see the findings.

`TurnClient` assumes that a handler that can take a step does (a thread of the pool is
scheduled, the database answers or fails) and that a reply is delivered or its loss noticed
(the browser resolves or rejects the promise of `fetch`). Nothing makes the learner act, the
operator restart or the service resume. Then `EveryAnswerReturns`: an answer sent is followed by
its verdict or by an error, whatever fails while it is stored.

`Homework` assumes that the timer of the waiting page goes on polling (`setInterval`, as often
as a request is free), that requests are served or fail and replies arrive, and that a scan
ends. A loss is never forced and is bounded, because one that loses every poll shows nothing.
Then `SentPagesAreShown`: pages the phone reports as sent bring up the read-back, unless the
service restarts first; after a restart the run is unknown and the page polls for ever, which
is how the code has it.

The other models have safety properties only and no fairness.

## Proofs

`tlapm <module>.tla` for the eight `_proof` modules.

**Assumptions**: only the named assumptions on the constants. `CatalogAssumption` (each lesson
has at least one live representation and lists none twice; no lesson is its own
prerequisite), `PolicyAssumption`, `MasteryAssumption`, `ScheduleAssumption`,
`GateAssumption` (thresholds are positive where the code needs it), `LessonAssumption` (the
folding of the index is a multiple of every rotation and stays above the minimum). The
source's values satisfy them all. The turn service, homework and accounts need theirs too: a
finite set of threads, a goal among the lessons, at least one item, a positive threshold and
duration, bounds that are numbers. None of their theorems depends on a bound.

The course theorems assume of the curriculum (`CourseProgress!CatalogAssumption`) that each unit
has a lesson, that a lesson that only explains trains no skill with content, and that the
teaching order lists each prerequisite before what it unlocks, which is what
`src/backend/tests/domain/test_prerequisites.py` asserts of `SPINE_ORDER`; and
(`CourseAssumption`) that a row's percentage is between 1 and 99, as the BKT estimate never
reaches 0 or 1. The dashboard assumes of its facts (`TeacherAssumption`) that a turn is right
exactly when it has no error category, as `_persist_turn` stores it. The content assumes that the lessons
served have content (`ItemAssumption`), and of the constants that choose the draws only that
they stay within what the generators can draw: data of three to nine values
(`SampleAssumption`), a widest outlier that is a number (`SpreadAssumption`), grid coordinates up
to 10, registers of two to six rows and the four endings in cents (`GeometryAssumption`). So the
run's small samples and the generators' own ranges are both instances of its theorems. TLC
evaluates all the assumptions on the source's own data.

### Live lesson

**The inductive invariant** `IInv` is the conjunction of the checked invariants `TypeOK`,
`ProbeIsEarned`, `ScreenIsJudged`, `OneLevelDown`, `SurfaceMatchesCounters` and three parts
that make it inductive:

- `ProbeShape` -- the step on screen is a step of the probe; without it `ScreenIsJudged`
  would not survive a right step.
- `RestMatchesCooldown` -- practice since a failed probe and the remaining wait add up to the
  cooldown, for the active lesson and the paused one, and a lesson nobody works on waits for
  nothing. `ProbeIsEarned` speaks of the first, the code tests the second; and a drop starts
  the prerequisite with no wait, which is right only because of the third clause.
- `PausedServed` -- the paused tutor has just served: serving again on resume changes
  nothing. `ParentPausesNeverResets` claims the parent's *current problem* comes back too,
  although the code serves anew on resume instead of restoring it.

One lemma per action shows that it keeps `IInv`; lemmas about `SubmitAnswer`, `ServeNext` and
the policy carry the arithmetic. `Invariance` closes the induction.

**Theorems** of every catalogue and every threshold: `TypeCorrect`, `ProbeEarned`,
`ScreenJudged`, `DropsOneLevel`, `SurfaceAgrees` from `IInv`;
`ConfirmedOnlyByWholeProbe` from `IInv` and `ProbeSpansTwo`, which rests on
`ProbeSpansTwoRepresentations` of the schedule: for any masterable lesson and any format just
worked, the steps include two different representations, error-finding or not;
`ParentNeverResets`, `CompletesOnceOnly`; `RampIsWalked` from `IInv` and `ServedItem` (the
current problem carries the index it was served at); `HintsAlwaysStartOver` from these and
`FailedIsFresh` (a request that failed left a fresh practice problem behind);
`Refinement`, that every turn is a step of `MasteryGate` or none.

`RampIsWalked` has a hypothesis of its own: `LessonRampMin - 2 >= RampStep * (MaxDifficulty -
1)`. The source has `10 - 2 >= 2 * 3`. It is what a change to one of the three numbers must
keep.

### Turn service and client (`TurnClient_proof`)

`SpecTypeOK`, `SpecStoredWasEarned`, `SpecIndexesRepeatOnlyAfterLoss`,
`SpecStoredConfirmationStays`, `SpecQuietPageAgrees`, for any number of threads, lessons, calls
and restarts. The invariants are layered, each on the one before:

- `EarnedInv`: every confirmed set in the system -- active, paused, rolled up by a thread,
  stored -- holds only lessons whose probe was passed. It is what makes `StoredWasEarned`
  inductive: a lesson may be stored by a thread whose own turn had nothing to do with it.
- `IndexInv`: the indexes in the rows and those taken by threads that have not committed yet
  are distinct and below the turn count; without a loss there are as many as the count says,
  which is the cardinality argument a resume that counts rows rests on.
- `RowsInv`: while requests do not overlap, a thread's roll-up agrees with the confirmed set,
  and what it looked up is what is stored.
- `QuietInv`: while nothing overlaps or is lost, there is at most one request and the page waits
  for it, so page and service are one item apart only by the reply in between.

### Homework (`Homework_proof`)

`SpecTypeOK` and `SpecVerdictIsOfConfirmed`, for any number of items and requests. The
strengthening, `ConfirmationsAgree`, follows a confirmation through its stages: sent with what
was confirmed, answered with its verdict, shown.

### Accounts (`ChildAccounts_proof`)

`SpecTypeOK`, `SpecServedChildIsVerified`, `SpecLockoutExact`, `SpecSignedOutEverywhere`, for any
number of browsers, every threshold, duration and lifetime. The invariant has

- `ChildSessions`: a child's session was opened by a verified parent, for a child that exists or
  did. Ids only grow, so that a new child never inherits a session;
- `OneRequest`, `CountsAgree`, `SessionsSinceSignOut`, while requests do not overlap: the row
  hashed against is the row as it stands, so a write of the changed columns takes them all
  (`SavedType`); the count is the wrong PINs in a row; live sessions were begun after the last
  sign-out.

### Course (`CourseProgress_proof`)

`SpecTypeOK`, `SpecProgressIsKept`, `SpecALessonIsOpen`, `SpecPlanFollowsMap`, for any
curriculum, graph and set of backgrounds, any number of answers and days.

- *Progress.* A step that takes no confirmation back at most adds one; a day only moves skills
  from mastered to due, and `CompletedStatuses` has both. So the completed lessons of a unit grow,
  and with them status (a case analysis over `UnitStatus`, down to the unit before, whose
  mastered status unlocks) and percentage (`MoreIsNotLess`: cardinality and integer division
  are monotone).
- *A lesson is open.* Take the *least* unfinished unit (`FirstUnfinishedUnit`): what comes
  before it is mastered, so it is not locked. Inside a unit the display gate opens the least
  pending lesson, because each before it is completed (`OpenInOrder`).
- *Plan and map.* If no review is due, the plan looks for the first unlocked skill of the
  teaching order. Where none is unlocked, every skill is confirmed: else the unconfirmed skill
  that comes *first in the teaching order* has all its prerequisites before it, confirmed, and
  would be unlocked (`SomethingIsUnlocked`). This is where the topological order is needed. If
  a review is due, one that no other has faded more than exists, because fading is a strict
  order (`CrosswiseTransitive`, on products with powers of two) and the due skills are finitely
  many (`MinimalElement`, by strong induction on an order).

### Dashboard (`TeacherDashboard_proof`)

- `SpecLatestIsShown` rests on `DashboardInv`: stamps only grow, the last stamp belongs to the
  unit assigned last and to no other, and all of them lie below the next.
- `SpecCurrentLessonIsOpen` for any curriculum: a unit that is current is not locked and has a
  lesson; the in-progress, the available and the last completed lesson are tried in that order,
  and none of the three is shown as locked.
- `SpecAlarmWearsOff`: six right answers leave at most two places of the window of eight for a
  misconception, or for the category of a hint request, and three are needed; and the last three
  turns cannot all be wrong.
- `SpecRightAnswerRaisesNoAlarm`: the window after a right answer is the window before, moved by
  one; each place of a repeated misconception has its place in the old window, so the old one
  held as many (an injection, `RightAnswerRepeatsNothing`).
- `SpecTrendsAgree`: without hints, who needs help is who is wrong, so accuracy and need of help
  of a half add up to one; a drop of a quarter of the one is a rise of the other beyond the 15 %
  asked for (`DropIsRise`, on halves of three or four answers).

### Content (`PracticeItem_proof`)

All six properties of the run: `SpecTypeOK`, `SpecSlipIsRouted`, `SpecWorkedEndsOnAnswer`,
`SpecSlipIsDiagnosed`, `SpecRightAnswerCanBeGiven` and `SpecHintsKeepAnswer`, for every set of
lessons served and over *all* draws of every generator, those the run only samples included.

- `ItemInv`: what is on screen was drawn, for a lesson served, a tier, and a format of that
  lesson (`Drawn`). It is all the later proofs ask of the state.
- One lemma per generator (`...Draws`) says what it draws is of its lesson, in the format asked
  for, and of a kind the lesson has (`Kinds`); `GeneratedOf` puts the 44 together.
- *Routes.* `Errors` gives the categories a lesson's wrong answers can be put in, from its kinds
  and the registered slips (`NamedSlipsError`, `VerdictError`). `RegistryRow` looks a lesson up
  in the contract's tables, and `ErrorsAreRouted` goes through them: each of those categories
  has a *first* route, and it leads to a representation the scheduler serves, or to bars for the
  four lessons named in `BarsNotServed`.
- *Worked examples.* One lemma per lesson (`...Ends`) says that the last step reveals the answer
  and writes a number of its value; `WalksEnd` puts them together. A decimal has the value it
  stands for (`DecimalValue`; that a quotient or a balance terminates rests on `ReducedDivides`),
  and the factors of a rate multiply to it (`UnitRateEnds`). Most examples end on the problem's
  own answer; those that work it out again need arithmetic: `OverTheLcm`, that the two fractions
  brought over the least common multiple of their denominators and added (or subtracted) reduce
  to their sum (or difference). It rests on the facts about `Gcd` at the head of the module: that
  it divides both, and that Euclid's function *is* it, which the provers get without induction
  over a recursive function from the least positive combination of the two numbers (`GcdStep`,
  `CombinationsStep`).
- *Slips.* One lemma per lesson (`...Sound`, `...Diagnosed` for the structured kinds) says that
  every slip its problems predict is another number than the answer. Where the code compares
  quotients the lemma compares products: `CrossProducts` says when two reduced fractions are
  equal, `RationalReduced` and `RationalFlips` what reducing keeps. `VerdictOnSlip` follows the
  verifier to the first slip that matches and `NamesAreBanked` goes through the tables once, so
  that whatever matched first has a name the bank knows for the lesson. `LessonsHold` puts the
  44 together.
- *Totals and orders.* What the statistics lessons need of data of any length is proved of the
  code's folds: a sum over places has a step for one place (`SumStep`, `TotalSteps`) and is
  determined by it (`ShortTotals`, `ShiftedTotal`), an ascending order is the order statistics
  (`AscendingIs`: at place *i* stands the least value not exceeded by at least *i* of them, which
  is how `Ascending` is defined), a register grows row by row (`GrownSteps`, `BalanceIs`).
- *Editors.* The same lemmas say that the answer is no negative number where there are two boxes
  (`TwoBoxes`), `AnswerOnTick` that it is a tick of its number line, and `AnswerFits` follows the
  widget the item is shown with.
- *Hints.* `HintsKeepAnswer` is inductive given `ItemInv`; what it needs is `Kept`, one lemma per
  lesson (`...Kept`): no step of a worked example before the first that gives the answer away
  writes its value. The argument is not about digits: a number in lowest terms (`Lowest`) has
  the answer's value only if it *is* the answer, and then the filter finds its text. Sums,
  differences and products come reduced (`LowestOf`). Forms that are not in lowest terms need
  a reason each: a percentage over 100 is another value than the answer; the addends over the
  common denominator may have the answer's value (5/6 - 5/12), but then the line before has
  already written it and been taken out. A decimal in a line of `decimal_operations`
  or `check_register` is one the question states (`PosedSpares`). `LessonsKeep` puts the numeric
  lessons together and `LinesAre` says what the filter leaves of them.

### Model-checked only

Every invariant and every action property of the passing runs is stated by a theorem. What only
TLC checks:

- `CapableLearnerFinishes`, `EveryAnswerReturns` and `SentPagesAreShown`: liveness under fairness,
  which the prover cannot treat, nor the ENABLED in it.
- The three properties the runs find violated.

## Where the code and its comments disagree

1. **A prerequisite that cannot be mastered holds its parent for ever**
   (`prerequisite_clears`). The remediation table drops `decimal_operations` to
   `multi_digit_division`, which has one live representation. `is_masterable_live` is then
   false, the probe of the nested lesson never opens, and only a passed probe resumes the
   parent. The same holds of `unit_conversion` -> `unit_rate`, `gcf_lcm` ->
   `common_denominator` and `polygons_coordinate_plane` -> `coordinate_plane`.
   `policy/remediation_flow.py` says the learner "masters the prerequisite ... then resumes
   the parent".
2. **A drop to a lesson without content fails half-way** (`failed_drop`). The remediation table
   lists `rationals_on_line` for `integer_add_subtract`, and for `coordinate_plane` alone; it
   has no content yet, as `tests/domain/test_knowledge_components.py` pins. When the selector
   picks it, the snapshot of the parent is taken, then its first problem cannot be made and the
   request is an error. The answer counted, the next problem was served and not shown, and
   `paused_parent` holds a snapshot outside remediation, where a comment of `api/service.py`
   says it is `None`. The session goes on: `ScreenIsJudged` holds again from the next response.
3. **A unit with a lesson that has no skill is never mastered** (`playable_done`). The second,
   third and integers units end with a lesson that mixes their skills; it has no component and
   stays `available`. `_unit_status` asks all lessons that are not concept lessons, so these
   units stay in progress for ever, and progression never opens the units after them.
   `tests/mastery/test_unit_progress.py` says "placeholder/concept lessons don't gate the
   unit's mastered status".

Disagreements met on the way that have no run of their own:

- `tutor/live_transfer_probe.py:70` says the transfer step "must be a format the learner has NOT
  just worked"; for an error-finding lesson lines 100-104 take the first that is not symbolic,
  whichever was worked.
- `api/service.py:1017` calls the worked example and the explanation mutually exclusive, since
  "a correct answer never routes to S4"; one right answer does not leave S4 either, and the
  response then carries both.
- `db/models.py:373` says a resumed session does not demand again a probe the learner passed; the
  pass of a nested lesson is never stored, because the parent is swapped in before the write
  (`service.py:1342`).
- `api/schemas.py:520` has the client echo the problem it answers; the service does not read it,
  so a repeated answer is judged against the next problem.
- `domain/lesson_spec.py:180` says routing "can never target a widget the lesson does not
  render"; four fraction lessons (`equivalence`, `common_denominator`, `addition_unlike`,
  `subtraction_unlike`) route to bars, which no live item of theirs is posed with.
- The point widget is rendered with its defaults, one point within ten
  (`src/frontend/src/workspace/CoordinatePlane.tsx`), for polygons too; the set widget offers no
  natural numbers, which the answers of `classify_number_sets` may hold.
- A swapped point of `dependent_vars` is reported by a name the bank keeps for the plane
  lessons; and the bank lists misconceptions the verifier never reports
  (`reduce-means-smaller`, `treats-any-as-statistical`, `compare-totals-not-unit-rates`, ...).
- A request for a hint is stored as a turn with `correct` false and the category `none`, and
  nothing between the table and `teacher/alerts.py` tells it from an answer. Two wrong answers
  and a request, or three requests, raise `STUCK`, which `alerts.py:15` explains as "a trailing
  run of all-wrong answers" and the teacher reads as "Missed the last 3 problems in a row"; three
  requests among the last eight turns raise `REPEATED_MISCONCEPTION`, because the text "none" is
  a true value (`alerts.py:82`).
- `db/repositories.py:547` says "`confirmed` is sticky by construction at the call site". Each
  request rolls up the flag for itself: one that rolled up before the probe was passed and commits
  after the one that passed it clears the stored flag. It takes a lost reply and a second submit;
  `StoredConfirmationStays` and `ProgressIsKept` are stated for what is left.
- `api/service.py:1108` says hint lines "NEVER state the answer in any form". The filter knows the
  answer as a fraction or ratio and, when whole, as a number. A decimal passes: "Divide 0.25 by
  0.5" is read out for a quotient of 0.5, and an opening balance of $50.25 for a register that
  closes on it. The second worked line of a product or quotient of fractions, which writes the
  answer unreduced, passes in the same way. `HintsKeepAnswer` leaves both out.
- The worked example of a unit rate of several units ends on the product to be computed and never
  writes the answer (`tutor/worked_example.py:382`).
- `mastery/progression.py` documents an empty plan for a learner without recorded mastery; the
  plan recommends the root of the graph.
- `domain/lesson_spec.py` still calls some lessons practice-only whose live representations now
  make them masterable; and the selector's default for an unknown mastery is never used.

And behaviour no text speaks of: each new lesson opens a session with a learner row of its own,
so that a signed-in learner's row never receives the mastery rows the map would read
(`db/repositories.py`, `api/auth_routes.py`); the store of the homework runs is in memory, and
after a restart the page polls an unknown token for ever; pages sent again after grading put
the run back to review; an error on confirming discards the corrections; the rate limiter's
table only grows.

## Not modelled, and the plan

**Rate limiter, telemetry and nudges, spoken help** are small and mostly sequential; they are
left out because their tests reach what a model would. **Several children of one parent, class
rosters, reminders and charts** add rows of the same kind. **Texts** -- hint wording, stories,
explanations, voice -- are out of scope; so are the learned predictor and the language model
(their outputs are free choices in the models), the offline persona experiments and page
rendering. The BKT estimate is a real number: its comparisons with thresholds are free choices.
`run_transfer_probe` and `interleaved_set_passed` of `tutor/session.py` serve the personas and
are not called by the live loop.

The decision of a turn is one step of `TurnService`. The interpreter may switch threads inside
it; what two simultaneous answers to one item should come to is stated nowhere, so nothing
could be checked of it.

What is worth doing next: `TurnService`'s decision shown to be implemented by `LiveLesson`'s, which share their outcomes
by construction only; and the largest generators over all their draws instead of samples.

The four hazards in `PROJECT.json` that have a note instead of properties are named there with
the reason.
