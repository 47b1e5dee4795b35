----------------------------- MODULE Remediation ----------------------------
(***************************************************************************)
(* The remediation axis: when sustained struggle drops the learner, to     *)
(* which prerequisite, and the flow machine that remembers the drop.       *)
(***************************************************************************)
EXTENDS LessonCatalog

CONSTANT GateK    \* consecutive high help-need readings that trip the gate

ASSUME GateAssumption == GateK \in Nat \ {0}

\* The gate looks at the last GateK readings only, so the stream of readings
\* is represented by the length of its trailing run of high ones.
Scored(run, high) == IF high THEN AtMost(run + 1, GateK) ELSE 0

ShouldIntervene(run) == run >= GateK

\* The prerequisites of the flavor a slip points at.
ErrorFlavorMatches(category) ==
  CASE category = "magnitude" -> MagnitudeFlavored
    [] category = "operation" -> OperationFlavored
    [] OTHER                  -> {}

\* The prerequisites the selector chooses among: the flavored ones if the
\* lesson lists any, else all it lists.  Which of them has the lowest BKT
\* estimate is left open.
RemediationTargets(kc, category) ==
  LET listed   == RemediationRouting[kc]
      flavored == listed \cap ErrorFlavorMatches(category)
  IN  IF flavored # {} THEN flavored ELSE listed

InLesson == [state |-> "in_lesson", context |-> << >>]

\* The flow machine: one level only, and nothing to clear outside it.
ApplyTriggered(flow, context) ==
  IF flow.state = "in_remediation" THEN flow
  ELSE [state |-> "in_remediation", context |-> <<context>>]

ApplyCleared(flow) ==
  IF flow.state = "in_remediation" THEN InLesson ELSE flow
=============================================================================
