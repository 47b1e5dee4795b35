-------------------------- MODULE ChildAccounts_proof --------------------------
(***************************************************************************)
(* Proofs about the child's account, for any number of devices, any lockout*)
(* and any lifetime of the sessions.                                       *)
(***************************************************************************)
EXTENDS ChildAccounts, TLAPS

Past == [streak : Nat, tripped : Nat, overlapped : BOOLEAN, signOuts : Nat, logins : Nat]

(* The rows hashed against are rows that were read.                        *)
AccountTypes ==
    /\ TypeOK
    /\ past \in Past
    /\ now >= 1
    /\ \A d \in Devices :
          /\ request[d].row.failed < Threshold
          /\ request[d].kind # "none" => request[d].at >= 1

(* Every session of a child was opened by a verified parent, and for a     *)
(* child that exists or did.                                               *)
ChildSessions ==
    \A i \in 1..Len(sessions) :
        sessions[i].kind = "child" => verified /\ sessions[i].of <= child.id

(* Without overlap the row that is hashed against is the row as it stands. *)
OneRequest ==
    /\ \A d, e \in Devices : request[d].kind # "none" /\ request[e].kind # "none" => d = e
    /\ \A d \in Devices :
          request[d].kind # "none" =>
              child.present /\ request[d].row = child /\ request[d].begun = past.signOuts

CountsAgree ==
    child.present =>
        /\ child.failed = past.streak
        /\ child.lockedUntil = IF past.tripped = 0 THEN 0 ELSE past.tripped + Duration

SessionsSinceSignOut ==
    \A i \in 1..Len(sessions) :
        sessions[i].kind = "child" /\ ~sessions[i].revoked /\ child.present /\ sessions[i].of = child.id
            => sessions[i].begun = past.signOuts

Quiet == OneRequest /\ CountsAgree /\ SessionsSinceSignOut

IInv == AccountTypes /\ ChildSessions /\ (past.overlapped \/ Quiet)
--------------------------------------------------------------------------------
(* The operators of the sign-in.                                           *)

LEMMA RememberType ==
    ASSUME NEW p \in Past, p.streak < Threshold
    PROVE  /\ Remember(p) \in Past
           /\ Remember(p).streak < Threshold
           /\ Remember(p).overlapped = p.overlapped
           /\ Remember(p).signOuts = p.signOuts
           /\ ~p.overlapped => Remember(p) = p
<1>1. Threshold \in Nat \ {0}
    BY AccountAssumption
<1>2. CASE p.overlapped
    <2>1. Remember(p) = [p EXCEPT !.streak = 0, !.tripped = 0]
        BY <1>2 DEF Remember
    <2>2. [p EXCEPT !.streak = 0, !.tripped = 0] \in Past
        BY DEF Past
    <2>3. /\ Remember(p).streak = 0 /\ Remember(p).overlapped = p.overlapped
          /\ Remember(p).signOuts = p.signOuts
        BY <2>1 DEF Past
    <2>4. 0 < Threshold
        BY <1>1
    <2> QED BY <1>2, <2>1, <2>2, <2>3, <2>4
<1>3. CASE ~p.overlapped
    BY <1>3 DEF Remember
<1> QED BY <1>2, <1>3

LEMMA NoRequestType == NoRequest \in Request /\ NoRequest.kind = "none" /\ NoRequest.row.failed = 0
BY DEF NoRequest, Request, Child

LEMMA FailedAttempt ==
    ASSUME NEW row \in Child, row.failed < Threshold, NEW t \in Nat
    PROVE  /\ AfterFailedAttempt(row, t) \in Child
           /\ AfterFailedAttempt(row, t).failed < Threshold
           /\ AfterFailedAttempt(row, t).pin = row.pin
           /\ AfterFailedAttempt(row, t).failed = IF row.failed + 1 = Threshold THEN 0 ELSE row.failed + 1
           /\ AfterFailedAttempt(row, t).lockedUntil =
                  IF row.failed + 1 = Threshold THEN t + Duration ELSE row.lockedUntil
<1>1. row.failed \in Nat /\ Threshold \in Nat \ {0} /\ t + Duration \in Nat
    BY AccountAssumption DEF Child
<1>2. CASE row.failed + 1 = Threshold
    <2>1. AfterFailedAttempt(row, t) = [row EXCEPT !.failed = 0, !.lockedUntil = t + Duration]
        BY <1>1, <1>2 DEF AfterFailedAttempt
    <2>2. [row EXCEPT !.failed = 0, !.lockedUntil = t + Duration] \in Child
        BY <1>1 DEF Child
    <2>3. /\ AfterFailedAttempt(row, t).failed = 0
          /\ AfterFailedAttempt(row, t).lockedUntil = t + Duration
          /\ AfterFailedAttempt(row, t).pin = row.pin
        BY <2>1 DEF Child
    <2> QED BY <1>1, <1>2, <2>1, <2>2, <2>3
<1>3. CASE row.failed + 1 # Threshold
    <2>1. AfterFailedAttempt(row, t) = [row EXCEPT !.failed = row.failed + 1] /\ row.failed + 1 < Threshold
        BY <1>1, <1>3 DEF AfterFailedAttempt
    <2> QED BY <1>1, <1>3, <2>1 DEF Child
<1> QED BY <1>2, <1>3

LEMMA SuccessfulAttempt ==
    ASSUME NEW row \in Child
    PROVE  /\ AfterSuccessfulAttempt(row) \in Child
           /\ AfterSuccessfulAttempt(row).failed = 0
           /\ AfterSuccessfulAttempt(row).lockedUntil = 0
           /\ AfterSuccessfulAttempt(row).pin = row.pin
BY DEF AfterSuccessfulAttempt, Child

(* A write takes a column from the row it read or leaves the one that is   *)
(* there; of a row that did not change meanwhile it takes them all.        *)
LEMMA SavedType ==
    ASSUME child \in Child, NEW old \in Child, NEW new \in Child,
           child.failed < Threshold, new.failed < Threshold
    PROVE  /\ Saved(old, new) \in Child
           /\ Saved(old, new).failed < Threshold
           /\ Saved(old, new).id = child.id
           /\ Saved(old, new).present = child.present
           /\ old = child => /\ Saved(old, new).failed = new.failed
                             /\ Saved(old, new).lockedUntil = new.lockedUntil
<1> DEFINE pin == IF new.pin = old.pin THEN child.pin ELSE new.pin
           failed == IF new.failed = old.failed THEN child.failed ELSE new.failed
           lockedUntil == IF new.lockedUntil = old.lockedUntil THEN child.lockedUntil
                          ELSE new.lockedUntil
<1>1. pin \in Nat /\ failed \in Nat /\ lockedUntil \in Nat /\ failed < Threshold
    BY DEF Child
<1>2. old = child => failed = new.failed /\ lockedUntil = new.lockedUntil
    OBVIOUS
<1>3. Saved(old, new) = [child EXCEPT !.pin = pin, !.failed = failed, !.lockedUntil = lockedUntil]
    BY DEF Saved
<1> HIDE DEF pin, failed, lockedUntil
<1> QED BY <1>1, <1>2, <1>3 DEF Child

LEMMA IInvInit == Init => IInv
<1> SUFFICES ASSUME Init PROVE IInv
    OBVIOUS
<1>1. child = NoRequest.row /\ child \in Child /\ ~child.present /\ child.failed = 0
    BY DEF Init, NoRequest, Child
<1>2. past \in Past /\ past.streak = 0
    BY DEF Init, Past
<1>3. sessions = <<>> /\ Len(sessions) = 0
    BY DEF Init
<1>4. request \in [Devices -> Request]
      /\ \A d \in Devices : request[d].kind = "none" /\ request[d].row.failed = 0
    BY NoRequestType DEF Init
<1>5. TypeOK
    <2>1. sessions \in Seq(Session) /\ cookie \in [Devices -> 0..Len(sessions)]
        BY <1>3 DEF Init
    <2>2. child.failed < Threshold /\ past.streak < Threshold
        BY <1>1, <1>2, AccountAssumption
    <2> QED BY <1>1, <1>4, <2>1, <2>2 DEF Init, TypeOK
<1>6. AccountTypes
    BY <1>2, <1>4, <1>5, AccountAssumption DEF Init, AccountTypes
<1>7. ChildSessions /\ Quiet
    BY <1>1, <1>3, <1>4 DEF ChildSessions, Quiet, OneRequest, CountsAgree, SessionsSinceSignOut
<1> QED BY <1>6, <1>7 DEF IInv
--------------------------------------------------------------------------------
(* Steps that open or revoke sessions and leave the account alone.         *)

(* A row goes on as it was, perhaps revoked.                               *)
GoesOn(i) ==
    /\ i \in 1..Len(sessions)
    /\ sessions'[i].kind = sessions[i].kind
    /\ sessions'[i].of = sessions[i].of
    /\ sessions'[i].begun = sessions[i].begun
    /\ sessions[i].revoked => sessions'[i].revoked

LEMMA SessionRow ==
    ASSUME sessions \in Seq(Session), NEW i \in 1..Len(sessions)
    PROVE  /\ sessions[i] \in Session
           /\ [sessions[i] EXCEPT !.revoked = TRUE] \in Session
           /\ [sessions[i] EXCEPT !.revoked = TRUE].kind = sessions[i].kind
           /\ [sessions[i] EXCEPT !.revoked = TRUE].of = sessions[i].of
           /\ [sessions[i] EXCEPT !.revoked = TRUE].begun = sessions[i].begun
           /\ [sessions[i] EXCEPT !.revoked = TRUE].revoked
<1>1. sessions[i] \in Session
    OBVIOUS
<1> QED BY <1>1 DEF Session

LEMMA Issued ==
    ASSUME sessions \in Seq(Session), cookie \in [Devices -> 0..Len(sessions)],
           NEW d \in Devices, NEW kind \in {"parent", "child"},
           NEW of \in Nat, NEW expires \in Nat, NEW begun \in Nat,
           IssueSession(d, kind, of, expires, begun)
    PROVE  /\ sessions' \in Seq(Session)
           /\ cookie' \in [Devices -> 0..Len(sessions')]
           /\ Len(sessions') = Len(sessions) + 1
           /\ \A i \in 1..Len(sessions) : GoesOn(i)
           /\ sessions'[Len(sessions) + 1].kind = kind
           /\ sessions'[Len(sessions) + 1].of = of
           /\ sessions'[Len(sessions) + 1].begun = begun
<1> DEFINE row == [kind |-> kind, of |-> of, expires |-> expires, revoked |-> FALSE, begun |-> begun]
           n == Len(sessions)
<1>1. row \in Session /\ row.kind = kind /\ row.of = of /\ row.begun = begun
    BY DEF Session
<1>2. sessions' = Append(sessions, row) /\ cookie' = [cookie EXCEPT ![d] = n + 1]
    BY DEF IssueSession
<1> HIDE DEF row
<1>3. /\ sessions' \in Seq(Session) /\ Len(sessions') = n + 1 /\ n \in Nat
      /\ sessions'[n + 1] = row /\ \A i \in 1..n : sessions'[i] = sessions[i]
    BY <1>1, <1>2
<1>4. cookie' \in [Devices -> 0..Len(sessions')]
    BY <1>2, <1>3
<1> QED BY <1>1, <1>3, <1>4 DEF GoesOn

LEMMA SessionStep ==
    ASSUME IInv, UNCHANGED <<child, request, past>>,
           now' \in Nat, now' >= now, verified' \in BOOLEAN, verified => verified',
           sessions' \in Seq(Session), cookie' \in [Devices -> 0..Len(sessions')],
           \A i \in 1..Len(sessions') :
               \/ GoesOn(i)
               \/ sessions'[i].kind = "child" =>
                      /\ verified'
                      /\ sessions'[i].of = child.id
                      /\ sessions'[i].begun = past.signOuts
    PROVE  IInv'
<1>1. TypeOK' /\ now' >= 1
    BY DEF IInv, AccountTypes, TypeOK
<1>2. AccountTypes'
    BY <1>1 DEF IInv, AccountTypes
<1>3. child.id \in Nat
    BY DEF IInv, AccountTypes, TypeOK, Child
<1>4. ChildSessions'
    BY <1>3 DEF IInv, ChildSessions, GoesOn
<1>5. Quiet => Quiet'
    <2>1. OneRequest => OneRequest'
        BY DEF OneRequest
    <2>2. CountsAgree => CountsAgree'
        BY DEF CountsAgree
    <2>3. SessionsSinceSignOut => SessionsSinceSignOut'
        BY DEF SessionsSinceSignOut, GoesOn
    <2> QED BY <2>1, <2>2, <2>3 DEF Quiet
<1> QED BY <1>2, <1>4, <1>5 DEF IInv

LEMMA SessionActions ==
    ASSUME IInv,
           \/ Tick \/ VerifyParentEmail
           \/ \E d \in Devices : ParentLogin(d) \/ OpenChildSessionForParent(d) \/ Logout(d)
    PROVE  IInv'
<1>a. /\ now \in Nat /\ verified \in BOOLEAN /\ child \in Child /\ sessions \in Seq(Session)
      /\ cookie \in [Devices -> 0..Len(sessions)] /\ past \in Past /\ Len(sessions) \in Nat
      /\ now + ParentTTL \in Nat /\ now + ChildTTL \in Nat /\ past.signOuts \in Nat
      /\ child.id \in Nat
    <2>1. /\ now \in Nat /\ verified \in BOOLEAN /\ child \in Child /\ sessions \in Seq(Session)
          /\ cookie \in [Devices -> 0..Len(sessions)] /\ past \in Past
        BY DEF IInv, AccountTypes, TypeOK
    <2>2. Len(sessions) \in Nat /\ past.signOuts \in Nat /\ child.id \in Nat
        BY <2>1 DEF Child, Past
    <2>3. now + ParentTTL \in Nat /\ now + ChildTTL \in Nat
        BY <2>1, AccountAssumption
    <2> QED BY <2>1, <2>2, <2>3
<1>b. sessions' = sessions => \A i \in 1..Len(sessions') : GoesOn(i)
    BY DEF GoesOn
<1>1. CASE Tick
    <2>1. /\ now' = now + 1 /\ UNCHANGED <<verified, child, sessions, request, past>>
          /\ cookie' = [d \in Devices |->
                      IF cookie[d] # 0 /\ sessions[cookie[d]].expires <= now + 1 THEN 0
                      ELSE cookie[d]]
        BY <1>1 DEF Tick
    <2>2. cookie' \in [Devices -> 0..Len(sessions')]
        BY <1>a, <2>1
    <2>3. now' \in Nat /\ now' >= now
        BY <1>a, <2>1
    <2> QED BY <1>a, <1>b, <2>1, <2>2, <2>3, SessionStep
<1>2. CASE VerifyParentEmail
    BY <1>2, <1>a, <1>b, SessionStep DEF VerifyParentEmail
<1>3. ASSUME NEW d \in Devices, ParentLogin(d) PROVE IInv'
    <2>1. /\ IssueSession(d, "parent", 0, now + ParentTTL, past.signOuts)
          /\ verified' \in {verified, TRUE} /\ UNCHANGED <<now, child, request, past>>
        BY <1>3 DEF ParentLogin
    <2>2. /\ sessions' \in Seq(Session) /\ cookie' \in [Devices -> 0..Len(sessions')]
          /\ Len(sessions') = Len(sessions) + 1 /\ \A i \in 1..Len(sessions) : GoesOn(i)
          /\ sessions'[Len(sessions) + 1].kind = "parent"
        BY <1>a, <2>1, Issued
    <2>3. \A i \in 1..Len(sessions') : GoesOn(i) \/ sessions'[i].kind # "child"
        BY <1>a, <2>2
    <2>4. /\ verified' \in BOOLEAN /\ (verified => verified')
          /\ now' \in Nat /\ now' >= now
        <3>1. verified' \in BOOLEAN /\ (verified => verified')
            <4>1. CASE verified' = verified
                BY <1>a, <4>1
            <4>2. CASE verified' = TRUE
                BY <4>2
            <4> QED BY <2>1, <4>1, <4>2
        <3>2. now' = now
            BY <2>1
        <3>3. now' \in Nat /\ now' >= now
            BY <1>a, <3>2
        <3> QED BY <3>1, <3>3
    <2>5. UNCHANGED <<child, request, past>>
        BY <2>1
    <2>6. \A i \in 1..Len(sessions') :
               \/ GoesOn(i)
               \/ sessions'[i].kind = "child" =>
                      /\ verified'
                      /\ sessions'[i].of = child.id
                      /\ sessions'[i].begun = past.signOuts
        BY <2>3
    <2> QED BY <2>2, <2>4, <2>5, <2>6, SessionStep
<1>4. ASSUME NEW d \in Devices, OpenChildSessionForParent(d) PROVE IInv'
    <2>1. /\ IssueSession(d, "child", child.id, now + ChildTTL, past.signOuts)
          /\ verified /\ UNCHANGED <<now, verified, child, request, past>>
        BY <1>4 DEF OpenChildSessionForParent
    <2>2. /\ sessions' \in Seq(Session) /\ cookie' \in [Devices -> 0..Len(sessions')]
          /\ Len(sessions') = Len(sessions) + 1 /\ \A i \in 1..Len(sessions) : GoesOn(i)
          /\ sessions'[Len(sessions) + 1].of = child.id
          /\ sessions'[Len(sessions) + 1].begun = past.signOuts
        BY <1>a, <2>1, Issued
    <2>3. \A i \in 1..Len(sessions') :
              GoesOn(i) \/ (sessions'[i].of = child.id /\ sessions'[i].begun = past.signOuts)
        BY <1>a, <2>2
    <2> QED BY <1>a, <2>1, <2>2, <2>3, SessionStep
<1>5. ASSUME NEW d \in Devices, Logout(d) PROVE IInv'
    <2> DEFINE jti == cookie[d]
    <2>1. jti \in 1..Len(sessions)
        BY <1>5, <1>a DEF Logout
    <2>2. /\ sessions' = [sessions EXCEPT ![jti] = [sessions[jti] EXCEPT !.revoked = TRUE]]
          /\ cookie' = [cookie EXCEPT ![d] = 0]
          /\ UNCHANGED <<now, verified, child, request, past>>
        BY <1>5, <1>a DEF Logout
    <2>3. /\ sessions' \in Seq(Session) /\ Len(sessions') = Len(sessions)
          /\ \A i \in 1..Len(sessions) :
                 sessions'[i] = IF i = jti THEN [sessions[jti] EXCEPT !.revoked = TRUE] ELSE sessions[i]
        BY <1>a, <2>1, <2>2, SessionRow
    <2>4. \A i \in 1..Len(sessions') : GoesOn(i)
        <3> SUFFICES ASSUME NEW i \in 1..Len(sessions) PROVE GoesOn(i)
            BY <2>3
        <3>1. CASE i = jti
            <4>1. sessions'[i] = [sessions[i] EXCEPT !.revoked = TRUE]
                BY <2>3, <3>1
            <4>2. sessions'[i].revoked
                BY <1>a, <4>1 DEF Session
            <4> QED BY <1>a, <4>1, <4>2, SessionRow DEF GoesOn
        <3>2. CASE i # jti
            BY <2>3, <3>2 DEF GoesOn
        <3> QED BY <3>1, <3>2
    <2>5. cookie' \in [Devices -> 0..Len(sessions')]
        BY <1>a, <2>2, <2>3
    <2> QED BY <1>a, <2>2, <2>3, <2>4, <2>5, SessionStep
<1> QED BY <1>1, <1>2, <1>3, <1>4, <1>5
--------------------------------------------------------------------------------
(* Steps of the parent that change the account or sign the child out.      *)

LEMMA ForgottenNow ==
    ASSUME past \in Past, past' = Remember([past EXCEPT !.streak = 0, !.tripped = 0])
    PROVE  /\ past' \in Past /\ past'.streak < Threshold
           /\ past'.overlapped = past.overlapped /\ past'.signOuts = past.signOuts
           /\ past'.streak = 0 /\ past'.tripped = 0
<1> DEFINE p == [past EXCEPT !.streak = 0, !.tripped = 0]
<1>1. /\ p \in Past /\ p.streak = 0 /\ p.tripped = 0
      /\ p.overlapped = past.overlapped /\ p.signOuts = past.signOuts
    BY DEF Past
<1>2. p.streak < Threshold
    BY <1>1, AccountAssumption
<1>3. [p EXCEPT !.streak = 0, !.tripped = 0] = p
    BY DEF Past
<1> HIDE DEF p
<1>4. past' = Remember(p)
    BY DEF p
<1>5. past' = p
    BY <1>3, <1>4 DEF Remember
<1> QED BY <1>1, <1>2, <1>5

LEMMA Facts ==
    ASSUME IInv
    PROVE  /\ now \in Nat /\ now >= 1 /\ verified \in BOOLEAN /\ child \in Child
           /\ sessions \in Seq(Session) /\ Len(sessions) \in Nat
           /\ cookie \in [Devices -> 0..Len(sessions)]
           /\ request \in [Devices -> Request]
           /\ past \in Past /\ past.streak < Threshold /\ child.failed < Threshold
           /\ past.signOuts \in Nat /\ past.logins \in Nat /\ past.overlapped \in BOOLEAN
           /\ past.streak \in Nat /\ past.tripped \in Nat
           /\ child.id \in Nat /\ child.pin \in Nat /\ child.present \in BOOLEAN
<1>1. /\ now \in Nat /\ now >= 1 /\ verified \in BOOLEAN /\ child \in Child
      /\ sessions \in Seq(Session) /\ cookie \in [Devices -> 0..Len(sessions)]
      /\ request \in [Devices -> Request]
      /\ past \in Past /\ past.streak < Threshold /\ child.failed < Threshold
    BY DEF IInv, AccountTypes, TypeOK
<1> QED BY <1>1 DEF Past, Child

(* Rows that are only revoked, some of them.                               *)
LEMMA Revoking ==
    ASSUME sessions \in Seq(Session), NEW Gone,
           sessions' = [i \in 1..Len(sessions) |->
                           IF i \in Gone THEN [sessions[i] EXCEPT !.revoked = TRUE] ELSE sessions[i]]
    PROVE  /\ sessions' \in Seq(Session) /\ Len(sessions') = Len(sessions)
           /\ \A i \in 1..Len(sessions) : GoesOn(i) /\ (i \in Gone => sessions'[i].revoked)
<1>1. sessions' \in Seq(Session) /\ Len(sessions') = Len(sessions)
    BY SessionRow
<1>2. ASSUME NEW i \in 1..Len(sessions) PROVE GoesOn(i) /\ (i \in Gone => sessions'[i].revoked)
    BY SessionRow DEF GoesOn
<1> QED BY <1>1, <1>2

(* The parent signs the child out or deletes it: sessions are revoked, and *)
(* a request whose PIN is being hashed has overlapped.                     *)
LEMMA RevokeStep ==
    ASSUME IInv, UNCHANGED <<now, verified, cookie, request>>,
           child' \in Child, child'.failed = child.failed, child'.id = child.id,
           sessions' \in Seq(Session), Len(sessions') = Len(sessions),
           \A i \in 1..Len(sessions) : GoesOn(i),
           past' \in Past, past'.streak < Threshold,
           past'.overlapped = (past.overlapped \/ InFlight),
           Quiet /\ ~past.overlapped /\ ~InFlight => CountsAgree' /\ SessionsSinceSignOut'
    PROVE  IInv'
<1>1. AccountTypes'
    BY DEF IInv, AccountTypes, TypeOK
<1>2. ChildSessions'
    BY Facts DEF IInv, ChildSessions, GoesOn
<1>3. past'.overlapped \/ Quiet'
    <2>1. SUFFICES ASSUME ~past'.overlapped PROVE Quiet'
        OBVIOUS
    <2>2. ~InFlight /\ ~past.overlapped /\ Quiet
        BY <2>1 DEF IInv
    <2>3. OneRequest'
        BY <2>2 DEF OneRequest, InFlight
    <2> QED BY <2>2, <2>3 DEF Quiet
<1> QED BY <1>1, <1>2, <1>3 DEF IInv

LEMMA SignOut ==
    ASSUME IInv, NEW d \in Devices, SignOutChildEverywhere(d)
    PROVE  IInv'
<1> DEFINE Gone == {i \in 1..Len(sessions) : sessions[i].kind = "child" /\ sessions[i].of = child.id}
           over == past.overlapped \/ InFlight
           p == [past EXCEPT !.signOuts = past.signOuts + 1, !.overlapped = over]
<1>1. UNCHANGED <<now, verified, child, cookie, request>> /\ past' = Remember(p)
    BY DEF SignOutChildEverywhere
<1>2. sessions' = [i \in 1..Len(sessions) |->
                      IF i \in Gone THEN [sessions[i] EXCEPT !.revoked = TRUE] ELSE sessions[i]]
    BY DEF SignOutChildEverywhere, RevokedAll
<1>3. over \in BOOLEAN
    BY Facts DEF InFlight
<1> HIDE DEF over
<1>4. /\ p \in Past /\ p.streak = past.streak /\ p.tripped = past.tripped
      /\ p.overlapped = over
    <2> DEFINE n == past.signOuts + 1
    <2>1. n \in Nat
        BY Facts
    <2>2. past \in Past
        BY Facts
    <2>3. p = [past EXCEPT !.signOuts = n, !.overlapped = over]
        OBVIOUS
    <2> HIDE DEF n, p
    <2> QED BY <2>1, <2>2, <2>3, <1>3 DEF Past
<1> HIDE DEF p
<1>5. p.streak < Threshold
    BY <1>4, Facts
<1>6. /\ past' \in Past /\ past'.streak < Threshold
      /\ past'.overlapped = over
      /\ ~over => past'.streak = past.streak /\ past'.tripped = past.tripped
    BY <1>1, <1>4, <1>5, RememberType
<1> HIDE DEF Gone
<1>7. /\ sessions' \in Seq(Session) /\ Len(sessions') = Len(sessions)
      /\ \A i \in 1..Len(sessions) : GoesOn(i) /\ (i \in Gone => sessions'[i].revoked)
    BY <1>2, Facts, Revoking
<1>8. Quiet /\ ~past.overlapped /\ ~InFlight => CountsAgree' /\ SessionsSinceSignOut'
    <2>1. SUFFICES ASSUME Quiet, ~past.overlapped, ~InFlight PROVE CountsAgree' /\ SessionsSinceSignOut'
        OBVIOUS
    <2>3. ~over
        BY <2>1 DEF over
    <2>4. ASSUME NEW i \in 1..Len(sessions), sessions[i].kind = "child", sessions[i].of = child.id
          PROVE  sessions'[i].revoked
        BY <1>7, <2>4 DEF Gone
    <2>5. SessionsSinceSignOut'
        BY <1>1, <1>7, <2>4 DEF SessionsSinceSignOut, GoesOn
    <2> QED BY <1>1, <1>6, <2>1, <2>3, <2>5 DEF Quiet, CountsAgree
<1> QED BY <1>1, <1>6, <1>7, <1>8, Facts, RevokeStep DEF over

LEMMA Delete ==
    ASSUME IInv, NEW d \in Devices, DeleteChild(d)
    PROVE  IInv'
<1> DEFINE Gone == {i \in 1..Len(sessions) : sessions[i].kind = "child"}
           over == past.overlapped \/ InFlight
           p == [past EXCEPT !.overlapped = over]
<1>1. /\ UNCHANGED <<now, verified, cookie, request>> /\ past' = Remember(p)
      /\ child' = [child EXCEPT !.present = FALSE]
    BY DEF DeleteChild
<1>2. sessions' = [i \in 1..Len(sessions) |->
                      IF i \in Gone THEN [sessions[i] EXCEPT !.revoked = TRUE] ELSE sessions[i]]
    BY DEF DeleteChild, WithoutSessions
<1>3. over \in BOOLEAN
    BY Facts DEF InFlight
<1>4. past \in Past
    BY Facts
<1> HIDE DEF over
<1>5. /\ p \in Past /\ p.streak = past.streak /\ p.overlapped = over
    BY <1>3, <1>4 DEF Past
<1> HIDE DEF p
<1>6. p.streak < Threshold
    BY <1>5, Facts
<1>7. past' \in Past /\ past'.streak < Threshold /\ past'.overlapped = over
    BY <1>1, <1>5, <1>6, RememberType
<1>8. /\ sessions' \in Seq(Session) /\ Len(sessions') = Len(sessions)
      /\ \A i \in 1..Len(sessions) : GoesOn(i)
    BY <1>2, Facts, Revoking
<1>9. child' \in Child /\ child'.failed = child.failed /\ child'.id = child.id /\ ~child'.present
    <2>1. child \in Child
        BY Facts
    <2> QED BY <1>1, <2>1 DEF Child
<1>10. CountsAgree' /\ SessionsSinceSignOut'
    BY <1>9 DEF CountsAgree, SessionsSinceSignOut
<1> QED BY <1>1, <1>7, <1>8, <1>9, <1>10, RevokeStep DEF over

(* A new child finds no request in flight that could be taken for its own, *)
(* and no session is of its id.                                            *)
LEMMA Create ==
    ASSUME IInv, NEW d \in Devices, CreateChild(d)
    PROVE  IInv'
<1>1. /\ UNCHANGED <<now, verified, sessions, cookie, request>> /\ ~child.present
      /\ child' = [present |-> TRUE, id |-> child.id + 1, pin |-> child.pin + 1,
                   failed |-> 0, lockedUntil |-> 0]
      /\ past' = Remember([past EXCEPT !.streak = 0, !.tripped = 0])
    BY DEF CreateChild
<1>2. /\ past' \in Past /\ past'.streak < Threshold
      /\ past'.overlapped = past.overlapped /\ past'.signOuts = past.signOuts
      /\ past'.streak = 0 /\ past'.tripped = 0
    BY <1>1, Facts, ForgottenNow
<1>3. child' \in Child
    <2>1. child.id + 1 \in Nat /\ child.pin + 1 \in Nat
        BY Facts
    <2> QED BY <1>1, <2>1 DEF Child
<1>4. child'.id = child.id + 1 /\ child'.failed = 0 /\ child'.lockedUntil = 0
    BY <1>1
<1>5. AccountTypes'
    BY <1>1, <1>2, <1>3, <1>4, AccountAssumption DEF IInv, AccountTypes, TypeOK
<1>6. \A i \in 1..Len(sessions) :
          sessions[i].kind = "child" => sessions[i].of \in Nat /\ sessions[i].of <= child.id
    BY Facts, SessionRow DEF IInv, ChildSessions, Session
<1>7. ChildSessions'
    BY <1>1, <1>4, <1>6, Facts DEF IInv, ChildSessions
<1>8. Quiet => Quiet'
    <2>1. OneRequest => OneRequest'
        BY <1>1 DEF OneRequest
    <2>2. CountsAgree'
        BY <1>2, <1>4 DEF CountsAgree
    <2>3. SessionsSinceSignOut'
        BY <1>1, <1>4, <1>6, Facts DEF SessionsSinceSignOut
    <2> QED BY <2>1, <2>2, <2>3 DEF Quiet
<1> QED BY <1>2, <1>5, <1>7, <1>8 DEF IInv
--------------------------------------------------------------------------------
(* The two requests that hash a PIN.                                       *)

LEMMA Begun ==
    ASSUME IInv, NEW d \in Devices, NEW kind \in {"login", "reset"}, NEW right \in BOOLEAN,
           child.present, Begin(d, kind, right)
    PROVE  /\ request' \in [Devices -> Request]
           /\ request'[d].row = child /\ request'[d].at = now /\ request'[d].begun = past.signOuts
           /\ \A e \in Devices \ {d} : request'[e] = request[e]
<1> DEFINE new == [kind |-> kind, row |-> child, right |-> right, at |-> now, begun |-> past.signOuts]
<1>1. request' = [request EXCEPT ![d] = new]
    BY DEF Begin
<1>2. new.row = child /\ new.at = now /\ new.begun = past.signOuts
    OBVIOUS
<1>3. new \in Request
    BY Facts DEF Request
<1>4. request \in [Devices -> Request]
    BY Facts
<1> HIDE DEF new
<1> QED BY <1>1, <1>2, <1>3, <1>4

LEMMA BeginStep ==
    ASSUME IInv, NEW d \in Devices, request[d].kind = "none",
           UNCHANGED <<now, verified, child, sessions, cookie>>,
           \/ UNCHANGED request
           \/ child.present /\ \E kind \in {"login", "reset"}, right \in BOOLEAN : Begin(d, kind, right),
           past' \in Past, past'.streak < Threshold,
           past'.overlapped = (past.overlapped \/ InFlight), past'.signOuts = past.signOuts,
           ~past'.overlapped => past'.streak = past.streak /\ past'.tripped = past.tripped
    PROVE  IInv'
<1>1. /\ request' \in [Devices -> Request]
      /\ \A e \in Devices :
            \/ request'[e] = request[e]
            \/ /\ e = d /\ child.present /\ request'[e].row = child
               /\ request'[e].at = now /\ request'[e].begun = past.signOuts
    <2>1. CASE UNCHANGED request
        BY <2>1, Facts
    <2>2. ASSUME child.present, NEW kind \in {"login", "reset"}, NEW right \in BOOLEAN,
                 Begin(d, kind, right)
          PROVE  <1>1
        BY <2>2, Begun
    <2> QED BY <2>1, <2>2
<1>2. AccountTypes'
    <2>1. TypeOK'
        BY <1>1 DEF IInv, AccountTypes, TypeOK
    <2>2. ASSUME NEW e \in Devices
          PROVE  request'[e].row.failed < Threshold /\ (request'[e].kind # "none" => request'[e].at >= 1)
        BY <1>1, Facts DEF IInv, AccountTypes
    <2> QED BY <2>1, <2>2, Facts DEF AccountTypes
<1>3. ChildSessions'
    BY DEF IInv, ChildSessions
<1>4. past'.overlapped \/ Quiet'
    <2>1. SUFFICES ASSUME ~past'.overlapped PROVE Quiet'
        OBVIOUS
    <2>2. Quiet /\ \A e \in Devices : request[e].kind = "none"
        BY <2>1 DEF IInv, InFlight
    <2>3. OneRequest'
        BY <1>1, <2>2 DEF OneRequest
    <2>4. CountsAgree'
        BY <2>1, <2>2 DEF Quiet, CountsAgree
    <2>5. SessionsSinceSignOut'
        BY <2>2 DEF Quiet, SessionsSinceSignOut
    <2> QED BY <2>3, <2>4, <2>5 DEF Quiet
<1> QED BY <1>2, <1>3, <1>4 DEF IInv

LEMMA Starts ==
    ASSUME IInv, NEW d \in Devices,
           StartReset(d) \/ \E right \in BOOLEAN : StartLogin(d, right)
    PROVE  IInv'
<1> DEFINE over == past.overlapped \/ InFlight
<1>1. over \in BOOLEAN /\ past \in Past
    BY Facts DEF InFlight
<1>2. CASE StartReset(d)
    <2> DEFINE p == [past EXCEPT !.overlapped = over]
    <2>1. /\ child.present /\ request[d].kind = "none" /\ Begin(d, "reset", FALSE)
          /\ past' = Remember(p) /\ UNCHANGED <<now, verified, child, sessions, cookie>>
        BY <1>2 DEF StartReset
    <2> HIDE DEF over
    <2>2. /\ p \in Past /\ p.streak = past.streak /\ p.tripped = past.tripped
          /\ p.overlapped = over /\ p.signOuts = past.signOuts
        BY <1>1 DEF Past
    <2> HIDE DEF p
    <2>3. p.streak < Threshold
        BY <2>2, Facts
    <2>4. /\ past' \in Past /\ past'.streak < Threshold
          /\ past'.overlapped = over /\ past'.signOuts = past.signOuts
          /\ ~past'.overlapped => past'.streak = past.streak /\ past'.tripped = past.tripped
        BY <2>1, <2>2, <2>3, RememberType
    <2> QED BY <2>1, <2>4, BeginStep DEF over
<1>3. ASSUME NEW right \in BOOLEAN, StartLogin(d, right) PROVE IInv'
    <2> DEFINE p == [past EXCEPT !.logins = past.logins + 1, !.overlapped = over]
    <2>1. /\ request[d].kind = "none" /\ past' = Remember(p)
          /\ UNCHANGED request \/ (child.present /\ Begin(d, "login", right))
          /\ UNCHANGED <<now, verified, child, sessions, cookie>>
        BY <1>3 DEF StartLogin
    <2> HIDE DEF over
    <2>2. /\ p \in Past /\ p.streak = past.streak /\ p.tripped = past.tripped
          /\ p.overlapped = over /\ p.signOuts = past.signOuts
        <3> DEFINE n == past.logins + 1
        <3>1. n \in Nat
            BY Facts
        <3>2. p = [past EXCEPT !.logins = n, !.overlapped = over]
            OBVIOUS
        <3> HIDE DEF n, p
        <3> QED BY <3>1, <3>2, <1>1 DEF Past
    <2> HIDE DEF p
    <2>3. p.streak < Threshold
        BY <2>2, Facts
    <2>4. /\ past' \in Past /\ past'.streak < Threshold
          /\ past'.overlapped = over /\ past'.signOuts = past.signOuts
          /\ ~past'.overlapped => past'.streak = past.streak /\ past'.tripped = past.tripped
        BY <2>1, <2>2, <2>3, RememberType
    <2> QED BY <2>1, <2>4, BeginStep DEF over
<1> QED BY <1>2, <1>3

LEMMA Ended ==
    ASSUME IInv, NEW d \in Devices, request[d].kind # "none", End(d)
    PROVE  /\ request' \in [Devices -> Request]
           /\ \A e \in Devices :
                 /\ request'[e].row.failed < Threshold
                 /\ request'[e].kind # "none" => request'[e].at >= 1
           /\ ~past.overlapped => /\ \A e \in Devices : request'[e].kind = "none"
                                  /\ child.present /\ request[d].row = child
                                  /\ request[d].begun = past.signOuts
<1>1. /\ request' \in [Devices -> Request]
      /\ \A e \in Devices : request'[e] = IF e = d THEN NoRequest ELSE request[e]
    BY Facts, NoRequestType DEF End
<1>2. \A e \in Devices :
          /\ request'[e].row.failed < Threshold
          /\ request'[e].kind # "none" => request'[e].at >= 1
    BY <1>1, NoRequestType, AccountAssumption DEF IInv, AccountTypes
<1>3. ASSUME ~past.overlapped
      PROVE  /\ \A e \in Devices : request'[e].kind = "none"
             /\ child.present /\ request[d].row = child /\ request[d].begun = past.signOuts
    BY <1>1, <1>3, NoRequestType DEF IInv, Quiet, OneRequest
<1> QED BY <1>1, <1>2, <1>3

LEMMA Orphan ==
    ASSUME IInv, NEW d \in Devices, Orphaned(d)
    PROVE  IInv'
<1>1. /\ request[d].kind # "none" /\ ~(child.present /\ child.id = request[d].row.id)
      /\ End(d) /\ UNCHANGED <<now, verified, child, sessions, cookie, past>>
    BY DEF Orphaned
<1>2. past.overlapped
    BY <1>1, Ended
<1>3. AccountTypes'
    BY <1>1, Ended DEF IInv, AccountTypes, TypeOK
<1>4. ChildSessions'
    BY <1>1 DEF IInv, ChildSessions
<1> QED BY <1>1, <1>2, <1>3, <1>4 DEF IInv

(* A request that writes the row it read: what the counts are then is what *)
(* is remembered of the sign-ins.                                          *)
LEMMA EndStep ==
    ASSUME IInv, NEW d \in Devices, request[d].kind # "none", End(d), UNCHANGED <<now, verified>>,
           NEW new \in Child, new.failed < Threshold, child' = Saved(request[d].row, new),
           sessions' \in Seq(Session), cookie' \in [Devices -> 0..Len(sessions')],
           \A i \in 1..Len(sessions') :
               \/ GoesOn(i)
               \/ verified /\ sessions'[i].of = child.id /\ sessions'[i].begun = request[d].begun,
           past' \in Past, past'.streak < Threshold,
           past'.overlapped = past.overlapped, past'.signOuts = past.signOuts,
           ~past.overlapped /\ CountsAgree /\ child.present /\ request[d].row = child =>
               /\ new.failed = past'.streak
               /\ new.lockedUntil = IF past'.tripped = 0 THEN 0 ELSE past'.tripped + Duration
    PROVE  IInv'
<1>1. request[d].row \in Child
    BY Facts DEF Request
<1>2. /\ child' \in Child /\ child'.failed < Threshold
      /\ child'.id = child.id /\ child'.present = child.present
      /\ request[d].row = child => child'.failed = new.failed /\ child'.lockedUntil = new.lockedUntil
    BY <1>1, Facts, SavedType
<1>3. AccountTypes'
    BY <1>2, Ended, Facts DEF AccountTypes, TypeOK
<1>4. ChildSessions'
    <2>1. child.id \in Nat
        BY Facts
    <2>2. ASSUME NEW i \in 1..Len(sessions'), sessions'[i].kind = "child"
          PROVE  verified' /\ sessions'[i].of <= child'.id
        <3>1. CASE GoesOn(i)
            BY <1>2, <2>2, <3>1 DEF IInv, ChildSessions, GoesOn
        <3>2. CASE verified /\ sessions'[i].of = child.id
            BY <1>2, <2>1, <3>2
        <3> QED BY <3>1, <3>2
    <2> QED BY <2>2 DEF ChildSessions
<1>5. past'.overlapped \/ Quiet'
    <2>1. SUFFICES ASSUME ~past'.overlapped PROVE Quiet'
        OBVIOUS
    <2>2. /\ \A e \in Devices : request'[e].kind = "none"
          /\ child.present /\ request[d].row = child /\ request[d].begun = past.signOuts
        BY <2>1, Ended
    <2>3. CountsAgree /\ SessionsSinceSignOut
        BY <2>1 DEF IInv, Quiet
    <2>4. OneRequest'
        BY <2>2 DEF OneRequest
    <2>5. CountsAgree'
        BY <1>2, <2>1, <2>2, <2>3 DEF CountsAgree
    <2>6. SessionsSinceSignOut'
        BY <1>2, <2>2, <2>3 DEF SessionsSinceSignOut, GoesOn
    <2> QED BY <2>4, <2>5, <2>6 DEF Quiet
<1> QED BY <1>3, <1>4, <1>5 DEF IInv

LEMMA Pins ==
    ASSUME IInv, NEW d \in Devices, WrongPin(d) \/ AcceptPin(d) \/ ResetChildPin(d)
    PROVE  IInv'
<1> DEFINE row == request[d].row
           t == request[d].at
<1>1. row \in Child /\ row.failed < Threshold /\ t \in Nat /\ request[d].begun \in Nat
    BY Facts DEF IInv, AccountTypes, Request
<1>2. sessions' = sessions => \A i \in 1..Len(sessions') : GoesOn(i)
    BY DEF GoesOn
<1>3. CASE WrongPin(d)
    <2> DEFINE new == AfterFailedAttempt(row, t)
               p == IF past.streak + 1 = Threshold THEN [past EXCEPT !.streak = 0, !.tripped = t]
                    ELSE [past EXCEPT !.streak = past.streak + 1]
    <2>1. /\ request[d].kind # "none" /\ End(d) /\ child' = Saved(row, new)
          /\ past' = Remember(p) /\ UNCHANGED <<now, verified, sessions, cookie>>
        BY <1>3 DEF WrongPin, Current
    <2>2. t >= 1
        BY <2>1 DEF IInv, AccountTypes
    <2>3. /\ new \in Child /\ new.failed < Threshold
          /\ new.failed = IF row.failed + 1 = Threshold THEN 0 ELSE row.failed + 1
          /\ new.lockedUntil = IF row.failed + 1 = Threshold THEN t + Duration ELSE row.lockedUntil
        BY <1>1, FailedAttempt
    <2>4. /\ p \in Past /\ p.streak < Threshold
          /\ p.overlapped = past.overlapped /\ p.signOuts = past.signOuts
          /\ p.streak = IF past.streak + 1 = Threshold THEN 0 ELSE past.streak + 1
          /\ p.tripped = IF past.streak + 1 = Threshold THEN t ELSE past.tripped
        <3>1. /\ past \in Past /\ past.streak \in Nat /\ past.streak < Threshold
              /\ Threshold \in Nat \ {0}
            BY Facts, AccountAssumption
        <3>2. CASE past.streak + 1 = Threshold
            <4>1. p = [past EXCEPT !.streak = 0, !.tripped = t]
                BY <3>2
            <4>2. 0 < Threshold /\ t \in Nat
                BY <1>1, <3>1
            <4> HIDE DEF t, p
            <4>3. /\ p \in Past /\ p.streak = 0 /\ p.tripped = t
                  /\ p.overlapped = past.overlapped /\ p.signOuts = past.signOuts
                BY <3>1, <4>1, <4>2 DEF Past
            <4> QED BY <3>2, <4>2, <4>3
        <3>3. CASE past.streak + 1 # Threshold
            <4> DEFINE n == past.streak + 1
            <4>1. n \in Nat /\ n < Threshold
                BY <3>1, <3>3
            <4>2. p = [past EXCEPT !.streak = n]
                BY <3>3
            <4> HIDE DEF p
            <4> QED BY <3>1, <3>3, <4>1, <4>2 DEF Past
        <3> QED BY <3>2, <3>3
    <2> HIDE DEF p, new
    <2>5. /\ past' \in Past /\ past'.streak < Threshold
          /\ past'.overlapped = past.overlapped /\ past'.signOuts = past.signOuts
          /\ ~past.overlapped => past'.streak = p.streak /\ past'.tripped = p.tripped
        BY <2>1, <2>4, RememberType
    <2>6. ASSUME ~past.overlapped, CountsAgree, child.present, request[d].row = child
          PROVE  /\ new.failed = past'.streak
                 /\ new.lockedUntil = IF past'.tripped = 0 THEN 0 ELSE past'.tripped + Duration
        <3>1. row.failed = past.streak
              /\ row.lockedUntil = IF past.tripped = 0 THEN 0 ELSE past.tripped + Duration
            BY <2>6 DEF CountsAgree
        <3> HIDE DEF row, t
        <3> QED BY <1>1, <2>2, <2>3, <2>4, <2>5, <2>6, <3>1
    <2>7. sessions' \in Seq(Session) /\ cookie' \in [Devices -> 0..Len(sessions')]
        BY <2>1, Facts
    <2> QED BY <1>2, <2>1, <2>3, <2>5, <2>6, <2>7, EndStep
<1>4. CASE AcceptPin(d)
    <2> DEFINE new == AfterSuccessfulAttempt(row)
    <2>1. /\ request[d].kind # "none" /\ End(d) /\ child' = Saved(row, new)
          /\ past' = Remember([past EXCEPT !.streak = 0, !.tripped = 0])
          /\ UNCHANGED <<now, verified>>
          /\ \/ verified /\ IssueSession(d, "child", child.id, t + ChildTTL, request[d].begun)
             \/ UNCHANGED <<sessions, cookie>>
        BY <1>4 DEF AcceptPin, Current
    <2>2. new \in Child /\ new.failed = 0 /\ new.lockedUntil = 0 /\ new.failed < Threshold
        BY <1>1, SuccessfulAttempt, AccountAssumption
    <2>3. /\ past' \in Past /\ past'.streak < Threshold
          /\ past'.overlapped = past.overlapped /\ past'.signOuts = past.signOuts
          /\ past'.streak = 0 /\ past'.tripped = 0
        BY <2>1, Facts, ForgottenNow
    <2>4. /\ sessions' \in Seq(Session) /\ cookie' \in [Devices -> 0..Len(sessions')]
          /\ \A i \in 1..Len(sessions') :
                 \/ GoesOn(i)
                 \/ verified /\ sessions'[i].of = child.id /\ sessions'[i].begun = request[d].begun
        <3>1. CASE UNCHANGED <<sessions, cookie>>
            BY <1>2, <3>1, Facts
        <3>2. CASE verified /\ IssueSession(d, "child", child.id, t + ChildTTL, request[d].begun)
            <4>1. t + ChildTTL \in Nat
                BY <1>1, AccountAssumption
            <4>2. /\ sessions' \in Seq(Session) /\ cookie' \in [Devices -> 0..Len(sessions')]
                  /\ Len(sessions') = Len(sessions) + 1 /\ \A i \in 1..Len(sessions) : GoesOn(i)
                  /\ sessions'[Len(sessions) + 1].of = child.id
                  /\ sessions'[Len(sessions) + 1].begun = request[d].begun
                <5>1. /\ sessions \in Seq(Session) /\ cookie \in [Devices -> 0..Len(sessions)]
                      /\ child.id \in Nat /\ request[d].begun \in Nat
                    BY <1>1, Facts
                <5> QED BY <3>2, <4>1, <5>1, Issued
            <4> QED BY <3>2, <4>2, Facts
        <3> QED BY <2>1, <3>1, <3>2
    <2> HIDE DEF new
    <2> QED BY <2>1, <2>2, <2>3, <2>4, EndStep
<1>5. CASE ResetChildPin(d)
    <2> DEFINE base == AfterSuccessfulAttempt(row)
               new == [base EXCEPT !.pin = base.pin + 1]
    <2>1. /\ request[d].kind # "none" /\ End(d) /\ child' = Saved(row, new)
          /\ past' = Remember([past EXCEPT !.streak = 0, !.tripped = 0])
          /\ UNCHANGED <<now, verified, sessions, cookie>>
        BY <1>5 DEF ResetChildPin, Current
    <2>2. base \in Child /\ base.failed = 0 /\ base.lockedUntil = 0
        BY <1>1, SuccessfulAttempt
    <2>3. new \in Child /\ new.failed = 0 /\ new.lockedUntil = 0 /\ new.failed < Threshold
        <3> DEFINE n == base.pin + 1
        <3> HIDE DEF base
        <3>1. n \in Nat
            BY <2>2 DEF Child
        <3> HIDE DEF n
        <3>2. [base EXCEPT !.pin = n] \in Child /\ [base EXCEPT !.pin = n].failed = 0
              /\ [base EXCEPT !.pin = n].lockedUntil = 0
            BY <2>2, <3>1 DEF Child
        <3>3. 0 < Threshold
            BY AccountAssumption
        <3> QED BY <3>2, <3>3 DEF n
    <2>4. /\ past' \in Past /\ past'.streak < Threshold
          /\ past'.overlapped = past.overlapped /\ past'.signOuts = past.signOuts
          /\ past'.streak = 0 /\ past'.tripped = 0
        BY <2>1, Facts, ForgottenNow
    <2>5. sessions' \in Seq(Session) /\ cookie' \in [Devices -> 0..Len(sessions')]
        BY <2>1, Facts
    <2> HIDE DEF new
    <2> QED BY <1>2, <2>1, <2>3, <2>4, <2>5, EndStep
<1> QED BY <1>3, <1>4, <1>5
--------------------------------------------------------------------------------
LEMMA IInvStep == IInv /\ [Next]_vars => IInv'
<1> SUFFICES ASSUME IInv, [Next]_vars PROVE IInv'
    OBVIOUS
<1>1. CASE Tick \/ VerifyParentEmail
    BY <1>1, SessionActions
<1>2. ASSUME NEW d \in Devices, ParentLogin(d) \/ OpenChildSessionForParent(d) \/ Logout(d)
      PROVE  IInv'
    BY <1>2, SessionActions
<1>3. ASSUME NEW d \in Devices, CreateChild(d) PROVE IInv'
    BY <1>3, Create
<1>4. ASSUME NEW d \in Devices, DeleteChild(d) PROVE IInv'
    BY <1>4, Delete
<1>5. ASSUME NEW d \in Devices, SignOutChildEverywhere(d) PROVE IInv'
    BY <1>5, SignOut
<1>6. ASSUME NEW d \in Devices, StartReset(d) \/ \E right \in BOOLEAN : StartLogin(d, right)
      PROVE  IInv'
    BY <1>6, Starts
<1>7. ASSUME NEW d \in Devices, Orphaned(d) PROVE IInv'
    BY <1>7, Orphan
<1>8. ASSUME NEW d \in Devices, WrongPin(d) \/ AcceptPin(d) \/ ResetChildPin(d) PROVE IInv'
    BY <1>8, Pins
<1>9. CASE UNCHANGED vars
    BY <1>9 DEF vars, IInv, AccountTypes, TypeOK, ChildSessions, Quiet, OneRequest, CountsAgree,
                SessionsSinceSignOut
<1> QED BY <1>1, <1>2, <1>3, <1>4, <1>5, <1>6, <1>7, <1>8, <1>9 DEF Next

LEMMA SpecIInv == Spec => []IInv
<1> QED BY IInvInit, IInvStep, PTL DEF Spec

(* The rows of the account, of its sessions and of the requests have their *)
(* types, the counts of failures stay below the threshold and every cookie *)
(* names a row that was issued.                                            *)
THEOREM SpecTypeOK == Spec => []TypeOK
<1>1. IInv => TypeOK
    BY DEF IInv, AccountTypes
<1> QED BY <1>1, SpecIInv, PTL

(* Whoever is served as the child is served for a parent whose email is    *)
(* verified, on any number of devices and with any requests in flight.     *)
THEOREM SpecServedChildIsVerified == Spec => []ServedChildIsVerified
<1>1. IInv => ServedChildIsVerified
    <2> SUFFICES ASSUME IInv, NEW d \in Devices, Honoured(d, "child") PROVE verified
        BY DEF ServedChildIsVerified
    <2>1. cookie[d] \in 1..Len(sessions) /\ sessions[cookie[d]].kind = "child"
        BY Facts DEF Honoured
    <2> QED BY <2>1 DEF IInv, ChildSessions
<1> QED BY <1>1, SpecIInv, PTL

(* While no two requests overlap, the account is locked for Duration from  *)
(* the last of Threshold wrong PINs in a row, whatever the threshold and   *)
(* the duration are.                                                       *)
THEOREM SpecLockoutExact == Spec => []LockoutExact
<1>1. IInv => LockoutExact
    <2> SUFFICES ASSUME IInv, ~past.overlapped, child.present
                 PROVE  IsLocked(child, now) <=> past.tripped # 0 /\ now < past.tripped + Duration
        BY DEF LockoutExact
    <2>1. child.lockedUntil = IF past.tripped = 0 THEN 0 ELSE past.tripped + Duration
        BY DEF IInv, Quiet, CountsAgree
    <2>2. now \in Nat /\ ~(now < 0)
        BY Facts
    <2> QED BY <2>1, <2>2 DEF IsLocked
<1> QED BY <1>1, SpecIInv, PTL

(* After the child was signed out everywhere, the sessions it is served on *)
(* were opened since, unless a PIN was being hashed at that moment.        *)
THEOREM SpecSignedOutEverywhere == Spec => []SignedOutEverywhere
<1>1. IInv => SignedOutEverywhere
    <2> SUFFICES ASSUME IInv, ~past.overlapped, NEW d \in Devices, Honoured(d, "child")
                 PROVE  sessions[cookie[d]].begun = past.signOuts
        BY DEF SignedOutEverywhere
    <2>1. /\ cookie[d] \in 1..Len(sessions) /\ sessions[cookie[d]].kind = "child"
          /\ ~sessions[cookie[d]].revoked /\ child.present /\ sessions[cookie[d]].of = child.id
        BY Facts DEF Honoured
    <2> QED BY <2>1 DEF IInv, Quiet, SessionsSinceSignOut
<1> QED BY <1>1, SpecIInv, PTL
================================================================================
