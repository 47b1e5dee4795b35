----------------------------- MODULE ChildAccounts -----------------------------
(***************************************************************************)
(* A child's account and the sessions opened on it: a parent who creates   *)
(* the child, opens its profile, resets its PIN, signs it out everywhere or*)
(* deletes it; a child who signs in with its PIN behind the lockout        *)
(* (api/child_account_service.py, auth/pin_lockout.py,                     *)
(* api/parent_auth_service.py, api/parent_session.py).                     *)
(*                                                                         *)
(* Each device has one cookie.  Requests that hash a PIN are split: the    *)
(* row is read, the slow hash runs, the row is written; a write carries    *)
(* only the columns that differ from what was read.                        *)
(***************************************************************************)
EXTENDS Naturals, Sequences

CONSTANTS Devices,
          Threshold, Duration,     \* of the PIN lockout
          ChildTTL, ParentTTL,     \* of the two kinds of session
          VerifyTTL,               \* of the link in the verification mail
          MaxTime, MaxSessions, MaxLogins,   \* bounds: clock, sessions, sign-ins,
          MaxPins, MaxSignOuts               \* PINs set, sign-outs

ASSUME AccountAssumption ==
    /\ Threshold \in Nat \ {0} /\ Duration \in Nat \ {0}
    /\ ChildTTL \in Nat \ {0} /\ ParentTTL \in Nat \ {0} /\ VerifyTTL \in Nat
    /\ {MaxTime, MaxSessions, MaxLogins, MaxPins, MaxSignOuts} \subseteq Nat

VARIABLES now,        \* the clock
          verified,   \* email_verified of the parent
          child,      \* the child's row
          sessions,   \* the auth_session rows, in the order of their jti
          cookie,     \* the jti each device presents, 0 for none
          request,    \* the request of a device whose PIN is being hashed
          past        \* history, for the properties only

vars == <<now, verified, child, sessions, cookie, request, past>>

(* id and pin number the children and the PINs; a new child gets both.     *)
Child == [present : BOOLEAN, id : Nat, pin : Nat, failed : Nat, lockedUntil : Nat]
Session == [kind : {"parent", "child"}, of : Nat, expires : Nat, revoked : BOOLEAN, begun : Nat]
Request == [kind : {"none", "login", "reset"}, row : Child, right : BOOLEAN, at : Nat, begun : Nat]
NoRequest == [kind |-> "none",
              row |-> [present |-> FALSE, id |-> 0, pin |-> 0, failed |-> 0, lockedUntil |-> 0],
              right |-> FALSE, at |-> 0, begun |-> 0]

Init ==
    /\ now = 1
    /\ verified = FALSE
    /\ child = NoRequest.row
    /\ sessions = <<>>
    /\ cookie = [d \in Devices |-> 0]
    /\ request = [d \in Devices |-> NoRequest]
    /\ past = [streak |-> 0, tripped |-> 0, overlapped |-> FALSE, signOuts |-> 0, logins |-> 0]

(* A request of the browser is honoured by a live row of the right kind.   *)
Honoured(d, kind) ==
    LET jti == cookie[d] IN
    /\ jti # 0
    /\ sessions[jti].kind = kind
    /\ ~sessions[jti].revoked
    /\ now < sessions[jti].expires
    /\ kind = "child" => child.present /\ sessions[jti].of = child.id

InFlight == \E d \in Devices : request[d].kind # "none"

(* What is remembered of sign-ins is of no use once requests overlapped.   *)
Remember(p) == IF p.overlapped THEN [p EXCEPT !.streak = 0, !.tripped = 0] ELSE p

(* IssueSession is the row and the cookie that names it.                   *)
IssueSession(d, kind, of, expires, begun) ==
    /\ Len(sessions) < MaxSessions
    /\ sessions' = Append(sessions, [kind |-> kind, of |-> of, expires |-> expires,
                                     revoked |-> FALSE, begun |-> begun])
    /\ cookie' = [cookie EXCEPT ![d] = Len(sessions) + 1]
--------------------------------------------------------------------------------
(* Time passes, and browsers drop the cookies whose age is over.           *)
Tick ==
    /\ now < MaxTime
    /\ now' = now + 1
    /\ cookie' = [d \in Devices |->
                      IF cookie[d] # 0 /\ sessions[cookie[d]].expires <= now + 1 THEN 0
                      ELSE cookie[d]]
    /\ UNCHANGED <<verified, child, sessions, request, past>>

(* Signing up or in by password, or by Google, which vouches for the email.*)
ParentLogin(d) ==
    /\ IssueSession(d, "parent", 0, now + ParentTTL, past.signOuts)
    /\ verified' \in {verified, TRUE}
    /\ UNCHANGED <<now, child, request, past>>

VerifyParentEmail ==
    /\ ~verified
    /\ now < 1 + VerifyTTL
    /\ verified' = TRUE
    /\ UNCHANGED <<now, child, sessions, cookie, request, past>>

CreateChild(d) ==
    /\ Honoured(d, "parent")
    /\ ~child.present /\ child.pin < MaxPins
    /\ child' = [present |-> TRUE, id |-> child.id + 1, pin |-> child.pin + 1,
                 failed |-> 0, lockedUntil |-> 0]
    /\ past' = Remember([past EXCEPT !.streak = 0, !.tripped = 0])
    /\ UNCHANGED <<now, verified, sessions, cookie, request>>

(* The rows that go with the child are gone; nothing finds them again.     *)
WithoutSessions ==
    [i \in 1..Len(sessions) |->
        IF sessions[i].kind = "child" THEN [sessions[i] EXCEPT !.revoked = TRUE] ELSE sessions[i]]

DeleteChild(d) ==
    /\ Honoured(d, "parent")
    /\ child.present
    /\ child' = [child EXCEPT !.present = FALSE]
    /\ sessions' = WithoutSessions
    /\ past' = Remember([past EXCEPT !.overlapped = @ \/ InFlight])
    /\ UNCHANGED <<now, verified, cookie, request>>

(* FAULTY: the parent's sessions are revoked, not the child's.             *)
RevokedAllOfParent ==
    [i \in 1..Len(sessions) |->
        IF sessions[i].kind = "parent" THEN [sessions[i] EXCEPT !.revoked = TRUE] ELSE sessions[i]]

RevokedAll ==
    [i \in 1..Len(sessions) |->
        IF sessions[i].kind = "child" /\ sessions[i].of = child.id
        THEN [sessions[i] EXCEPT !.revoked = TRUE] ELSE sessions[i]]

SignOutChildEverywhere(d) ==
    /\ Honoured(d, "parent")
    /\ child.present /\ past.signOuts < MaxSignOuts
    /\ sessions' = RevokedAll
    /\ past' = Remember([past EXCEPT !.signOuts = @ + 1, !.overlapped = @ \/ InFlight])
    /\ UNCHANGED <<now, verified, child, cookie, request>>

(* The profile picked at home: no PIN, the parent's cookie is replaced.    *)
OpenChildSessionForParent(d) ==
    /\ Honoured(d, "parent")
    /\ child.present /\ verified
    /\ IssueSession(d, "child", child.id, now + ChildTTL, past.signOuts)
    /\ UNCHANGED <<now, verified, child, request, past>>

Logout(d) ==
    /\ cookie[d] # 0
    /\ sessions' = [sessions EXCEPT ![cookie[d]].revoked = TRUE]
    /\ cookie' = [cookie EXCEPT ![d] = 0]
    /\ UNCHANGED <<now, verified, child, request, past>>
--------------------------------------------------------------------------------
(* The two requests that hash a PIN.                                       *)

IsLocked(row, t) == t < row.lockedUntil

(* FAULTY: the lock comes one failure late.                                *)
AfterFailedAttemptLate(row, t) ==
    IF row.failed + 1 > Threshold THEN [row EXCEPT !.failed = 0, !.lockedUntil = t + Duration]
    ELSE [row EXCEPT !.failed = @ + 1]

AfterFailedAttempt(row, t) ==
    IF row.failed + 1 >= Threshold THEN [row EXCEPT !.failed = 0, !.lockedUntil = t + Duration]
    ELSE [row EXCEPT !.failed = @ + 1]

(* FAULTY: the right PIN lifts the lock and leaves the count.              *)
AfterSuccessfulAttemptKeepsCount(row) == [row EXCEPT !.lockedUntil = 0]

AfterSuccessfulAttempt(row) == [row EXCEPT !.failed = 0, !.lockedUntil = 0]

(* What a write of new leaves in the row when old was read.                *)
Saved(old, new) ==
    [child EXCEPT !.pin = IF new.pin = old.pin THEN @ ELSE new.pin,
                  !.failed = IF new.failed = old.failed THEN @ ELSE new.failed,
                  !.lockedUntil = IF new.lockedUntil = old.lockedUntil THEN @ ELSE new.lockedUntil]

Begin(d, kind, right) ==
    request' = [request EXCEPT ![d] = [kind |-> kind, row |-> child, right |-> right,
                                   at |-> now, begun |-> past.signOuts]]

(* Without an account, or while it is locked, refused at once.             *)
StartLogin(d, right) ==
    /\ request[d].kind = "none" /\ past.logins < MaxLogins
    /\ IF child.present /\ ~IsLocked(child, now) THEN Begin(d, "login", right)
       ELSE UNCHANGED request
    /\ past' = Remember([past EXCEPT !.logins = @ + 1, !.overlapped = @ \/ InFlight])
    /\ UNCHANGED <<now, verified, child, sessions, cookie>>

StartReset(d) ==
    /\ Honoured(d, "parent")
    /\ child.present /\ child.pin < MaxPins
    /\ request[d].kind = "none"
    /\ Begin(d, "reset", FALSE)
    /\ past' = Remember([past EXCEPT !.overlapped = @ \/ InFlight])
    /\ UNCHANGED <<now, verified, child, sessions, cookie>>

End(d) == request' = [request EXCEPT ![d] = NoRequest]

(* The child was deleted meanwhile: nothing to write, the request fails.   *)
Orphaned(d) ==
    /\ request[d].kind # "none"
    /\ ~(child.present /\ child.id = request[d].row.id)
    /\ End(d)
    /\ UNCHANGED <<now, verified, child, sessions, cookie, past>>

Current(d, kind) ==
    /\ request[d].kind = kind
    /\ child.present /\ child.id = request[d].row.id

WrongPin(d) ==
    LET row == request[d].row
        t == request[d].at
    IN
    /\ Current(d, "login") /\ ~request[d].right
    /\ child' = Saved(row, AfterFailedAttempt(row, t))
    /\ past' = Remember(IF past.streak + 1 = Threshold
                        THEN [past EXCEPT !.streak = 0, !.tripped = t]
                        ELSE [past EXCEPT !.streak = @ + 1])
    /\ End(d)
    /\ UNCHANGED <<now, verified, sessions, cookie>>

(* FAULTY: whoever knows the PIN comes in.                                 *)
AcceptPinUnverified(d) ==
    LET row == request[d].row IN
    /\ Current(d, "login") /\ request[d].right
    /\ child' = Saved(row, AfterSuccessfulAttempt(row))
    /\ past' = Remember([past EXCEPT !.streak = 0, !.tripped = 0])
    /\ IssueSession(d, "child", child.id, request[d].at + ChildTTL, request[d].begun)
    /\ End(d)
    /\ UNCHANGED <<now, verified>>

(* The lockout is cleared even when the parent is not verified yet and the *)
(* child stays out.                                                        *)
AcceptPin(d) ==
    LET row == request[d].row IN
    /\ Current(d, "login") /\ request[d].right
    /\ child' = Saved(row, AfterSuccessfulAttempt(row))
    /\ past' = Remember([past EXCEPT !.streak = 0, !.tripped = 0])
    /\ IF verified THEN IssueSession(d, "child", child.id, request[d].at + ChildTTL,
                                     request[d].begun)
       ELSE UNCHANGED <<sessions, cookie>>
    /\ End(d)
    /\ UNCHANGED <<now, verified>>

ResetChildPin(d) ==
    LET row == request[d].row IN
    /\ Current(d, "reset")
    /\ child' = Saved(row, [AfterSuccessfulAttempt(row) EXCEPT !.pin = @ + 1])
    /\ past' = Remember([past EXCEPT !.streak = 0, !.tripped = 0])
    /\ End(d)
    /\ UNCHANGED <<now, verified, sessions, cookie>>

Next ==
    \/ Tick \/ VerifyParentEmail
    \/ \E d \in Devices :
          \/ ParentLogin(d) \/ CreateChild(d) \/ DeleteChild(d) \/ SignOutChildEverywhere(d)
          \/ OpenChildSessionForParent(d) \/ Logout(d)
          \/ \E right \in BOOLEAN : StartLogin(d, right)
          \/ StartReset(d) \/ Orphaned(d) \/ WrongPin(d) \/ AcceptPin(d) \/ ResetChildPin(d)

Spec == Init /\ [][Next]_vars
--------------------------------------------------------------------------------
TypeOK ==
    /\ now \in Nat /\ verified \in BOOLEAN /\ child \in Child
    /\ sessions \in Seq(Session)
    /\ cookie \in [Devices -> 0..Len(sessions)]
    /\ request \in [Devices -> Request]
    /\ child.failed < Threshold /\ past.streak < Threshold

(* INVARIANT.  While requests that hash a PIN do not overlap, the account  *)
(* is locked exactly from the last of Threshold wrong PINs in a row until  *)
(* Duration has passed, a PIN reset or a new child: the counter that starts*)
(* over with each lock and the lock left behind by an earlier window never *)
(* lengthen, shorten or drop it (pin_lockout.py:53).                       *)
LockoutExact ==
    ~past.overlapped /\ child.present =>
        (IsLocked(child, now) <=> past.tripped # 0 /\ now < past.tripped + Duration)

(* INVARIANT.  A device is served as the child only while the parent's     *)
(* email is verified, by whichever way in the session was opened and       *)
(* whatever was deleted, created again or reset since                      *)
(* (child_account_service.py:120).                                         *)
ServedChildIsVerified == \A d \in Devices : Honoured(d, "child") => verified

(* INVARIANT.  Signing the child out everywhere leaves no session that was *)
(* opened before, except one whose PIN was being hashed at that moment     *)
(* (repositories.py:412).                                                  *)
SignedOutEverywhere ==
    ~past.overlapped =>
        \A d \in Devices :
            Honoured(d, "child") => sessions[cookie[d]].begun = past.signOuts
================================================================================
