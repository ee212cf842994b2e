---------------------------- MODULE LoginLimiter ----------------------------
(***************************************************************************)
(* Failed logins from one address: the entry of sessionManager.failures    *)
(* for it (session.go), and the requests that log in with a password or    *)
(* with a second factor (middleware.go, totp.go).                          *)
(*                                                                         *)
(* A request asks allowLogin, checks what it was sent without any lock,    *)
(* and then records a failure or clears the entry.  Entries of different   *)
(* addresses have nothing to do with each other, so one is enough.         *)
(***************************************************************************)
EXTENDS Naturals, FiniteSets

CONSTANTS
  Callers,      \* requests at a time from the address
  MaxFailures,  \* loginMaxFailures
  NoEntry

ASSUME LimiterAssumption == IsFiniteSet(Callers) /\ MaxFailures \in Nat \ {0}

(* lockedUntil is never later than lastFail + loginLockDuration, so a lock *)
(* is over before the last failure is a minute old.                        *)
Entry == [count : Nat,
          lock : {"none", "on", "over"},       \* lockedUntil
          last : {"never", "recent", "past"}]  \* lastFail

Zero == [count |-> 0, lock |-> "none", last |-> "never"]

ASSUME NoEntryAssumption == NoEntry \notin Entry

VARIABLES
  entry,  \* failures[ip], or NoEntry
  pc,     \* where each request stands
  fails   \* failures since the entry was last forgotten (history)

limiterVars == <<entry, pc, fails>>

(* A map gives the zero value for a missing key.                           *)
Current == IF entry = NoEntry THEN Zero ELSE entry

Goto(c, s) == pc' = [pc EXCEPT ![c] = s]

(* A faulty allowLogin that does not ask whether there was a lock at all.  *)
AllowForgetful(c) ==
  /\ pc[c] = "idle"
  /\ Current.lock # "on"
  /\ entry' = Zero
  /\ fails' = IF Current.lock = "over" THEN 0 ELSE fails
  /\ Goto(c, "check")

(* allowLogin lets the request pass; an entry whose lock is over starts    *)
(* anew.                                                                   *)
Allow(c) ==
  /\ pc[c] = "idle"
  /\ Current.lock # "on"
  /\ IF Current.lock = "over" THEN entry' = Zero /\ fails' = 0
     ELSE UNCHANGED <<entry, fails>>
  /\ Goto(c, "check")

(* A malformed body, or the session cannot be created.                     *)
GiveUp(c) ==
  /\ pc[c] = "check"
  /\ Goto(c, "idle")
  /\ UNCHANGED <<entry, fails>>

(* A faulty recordFailure that locks one failure late.                     *)
RecordFailureLate(c) ==
  /\ pc[c] = "check"
  /\ entry' = IF Current.count >= MaxFailures
              THEN [count |-> 0, lock |-> "on", last |-> "recent"]
              ELSE [Current EXCEPT !.count = @ + 1, !.last = "recent"]
  /\ fails' = fails + 1
  /\ Goto(c, "idle")

RecordFailure(c) ==
  /\ pc[c] = "check"
  /\ entry' = IF Current.count + 1 >= MaxFailures
              THEN [count |-> 0, lock |-> "on", last |-> "recent"]
              ELSE [Current EXCEPT !.count = @ + 1, !.last = "recent"]
  /\ fails' = fails + 1
  /\ Goto(c, "idle")

(* What the request sent was right: a lock that another request ran into   *)
(* meanwhile goes as well.  A login that is complete is logged next.       *)
Succeed(c, next) ==
  /\ pc[c] = "check" /\ next \in {"idle", "log"}
  /\ entry' = NoEntry /\ fails' = 0
  /\ Goto(c, next)

Logged(c) ==
  /\ pc[c] = "log"
  /\ Goto(c, "idle")
  /\ UNCHANGED <<entry, fails>>

(* Time passes.                                                            *)
LockEnds ==
  /\ Current.lock = "on"
  /\ entry' = [entry EXCEPT !.lock = "over"]
  /\ UNCHANGED <<pc, fails>>

FailureAges ==
  /\ Current.lock # "on" /\ Current.last = "recent"
  /\ entry' = [entry EXCEPT !.last = "past"]
  /\ UNCHANGED <<pc, fails>>

(* A faulty reap that only looks at locks.                                 *)
ReapLocks ==
  /\ entry # NoEntry
  /\ Current.lock = "over" \/ Current = Zero
  /\ entry' = NoEntry /\ fails' = 0
  /\ UNCHANGED pc

(* The periodic reap removes what has run out, and zero entries.           *)
Reap ==
  /\ entry # NoEntry
  /\ Current.last \in {"never", "past"}
  /\ entry' = NoEntry /\ fails' = 0
  /\ UNCHANGED pc

-----------------------------------------------------------------------------
LimiterInit ==
  /\ entry = NoEntry
  /\ pc = [c \in Callers |-> "idle"]
  /\ fails = 0

Request(c) ==
  \/ Allow(c)
  \/ GiveUp(c)
  \/ RecordFailure(c)
  \/ \E next \in {"idle", "log"} : Succeed(c, next)
  \/ Logged(c)

LimiterNext ==
  (\E c \in Callers : Request(c)) \/ LockEnds \/ FailureAges \/ Reap

LimiterSpec == LimiterInit /\ [][LimiterNext]_limiterVars

-----------------------------------------------------------------------------
(* Properties.                                                             *)

LimiterTypeOK ==
  /\ entry \in Entry \cup {NoEntry}
  /\ pc \in [Callers -> {"idle", "check", "log"}]
  /\ fails \in Nat

Checking == {c \in Callers : pc[c] = "check"}

(* Whatever the order in which requests that run at the same time check    *)
(* and record, an address is locked out after MaxFailures failures, and    *)
(* only requests that had already passed allowLogin fail after that        *)
(* (src/README.md:206).                                                    *)
FailuresBounded == fails + Cardinality(Checking) < MaxFailures + Cardinality(Callers)

(* Until its lock the entry knows every failure, none is lost.             *)
EveryFailureCounts == Current.lock = "none" => Current.count = fails /\ fails < MaxFailures
=============================================================================
