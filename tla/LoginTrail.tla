----------------------------- MODULE LoginTrail -----------------------------
(***************************************************************************)
(* Login requests (middleware.go, totp.go) with what they leave behind:    *)
(* the entry of their address in the failed-login limiter (LoginLimiter)   *)
(* and, for a login that is complete, a line of the activity log           *)
(* (ActivityLog), written while other requests log in and out of line.     *)
(* A crash forgets the limiter and keeps the files.                        *)
(***************************************************************************)
EXTENDS LoginLimiter, ActivityLog

ASSUME CallersLog == Callers \subseteq Loggers

vars == <<limiterVars, logVars>>

(* auditLog returns to the request that called it.                         *)
AuditFails(c) == Logged(c) /\ AppendFails

AuditBegins(c, cut) ==
  /\ pc[c] = "log"
  /\ AppendLine(c, cut)
  /\ UNCHANGED limiterVars

AuditEnds(c) ==
  /\ holder = c
  /\ Logged(c)
  /\ PruneNothing \/ PruneFails \/ EndReplace

Replacing == (Prune \/ Replace) /\ UNCHANGED limiterVars

Forget ==
  /\ entry' = NoEntry /\ fails' = 0
  /\ pc' = [c \in Callers |-> "idle"]

Login(c) ==
  \/ Allow(c)
  \/ GiveUp(c)
  \/ RecordFailure(c)
  \/ \E next \in {"idle", "log"} : Succeed(c, next)

Time == LockEnds \/ FailureAges

Next ==
  \/ (\E c \in Callers : Login(c)) /\ UNCHANGED logVars
  \/ (Time \/ Reap) /\ UNCHANGED logVars
  \/ \E c \in Callers : AuditFails(c)
  \/ \E c \in Callers, cut \in Cuts : AuditBegins(c, cut)
  \/ \E c \in Callers : AuditEnds(c)
  \/ Replacing
  \/ Age /\ UNCHANGED limiterVars
  \/ LogCrash /\ Forget
  \/ LogPowerFails /\ Forget

Init == LimiterInit /\ LogInit

Spec == Init /\ [][Next]_vars

(* Time passes, and the reaper comes by every hour (session.go:127-132).   *)
FairSpec ==
  /\ Spec
  /\ WF_vars(Time /\ UNCHANGED logVars)
  /\ WF_vars(Reap /\ UNCHANGED logVars)

TypeOK == LimiterTypeOK /\ LogTypeOK

(* "previously those entries leaked forever" (session.go:146-147): the     *)
(* entry of an address from which no more requests come is removed.        *)
EntriesDoNotLeak ==
  entry # NoEntry ~> (entry = NoEntry \/ \E c \in Callers : pc[c] = "check")
=============================================================================
