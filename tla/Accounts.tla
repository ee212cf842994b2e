------------------------------ MODULE Accounts ------------------------------
(***************************************************************************)
(* Accounts, their sessions and two-factor login: users.go, users_admin.go *)
(* and totp.go over session.go.                                            *)
(*                                                                         *)
(* A method of the user store holds s.mu from beginning to end, saving     *)
(* included, and is one step; a save that fails is answered as an error,   *)
(* but what the method did to memory stays.  A handler calls several       *)
(* methods, and other handlers run between the calls: a login works on the *)
(* copy of the account it found, a change of an account first changes and  *)
(* saves it and then drops its sessions, a pending login or set-up waits   *)
(* in memory for its second request.  How sessions.json is written is the  *)
(* matter of SessionStore; here a write puts the map in the file or fails. *)
(*                                                                         *)
(* Salted password hashes, session ids and secrets are random: each is     *)
(* drawn once.  So are tokens, but nothing remembers a token that was      *)
(* taken.  Whoever asks for a change was found to be an                    *)
(* administrator at some earlier time, which may be long over; therefore   *)
(* no action asks who it is, and the rule that nobody demotes or deletes   *)
(* himself restricts nothing: another administrator may do it.             *)
(***************************************************************************)
CONSTANTS
  Users,     \* user names
  Hashes,    \* salted hashes of passwords
  Sessions,  \* session ids
  Tokens,    \* tokens of pending logins
  Secrets,   \* TOTP secrets
  Slots,     \* the recovery codes that come with a secret
  Callers,   \* requests in progress
  None

Roles == {"admin", "viewer"}

(* An account, what a login copies of it, and what a request has in hand:  *)
(* the name it works on, the rest of the copy, the secret of a set-up.     *)
Account == [role : Roles, hash : Hashes, secret : Secrets \cup {None},
            codes : SUBSET Slots]
Login == [user : Users, role : Roles, hash : Hashes]
Job == [user : Users, role : Roles \cup {None}, hash : Hashes \cup {None},
        secret : Secrets \cup {None}]

(* Where a request may stand between two steps.                            *)
Places == {"idle", "password", "verify", "recover", "create", "opened", "closed",
           "destroy", "setup", "confirm", "enable", "disable"}

ASSUME NoneAssumption ==
  None \notin Roles \cup Hashes \cup Secrets \cup Account \cup Login \cup Job

VARIABLES
  mem,      \* users.Users: the account of a name, or None
  disk,     \* users.json
  sess,     \* sessions.sessions: the login a session stands for, or None
  sfile,    \* sessions.json
  pending,  \* pendingLogins
  setups,   \* pendingSetups: the secret of a name, or None
  pc,       \* where each request stands
  job,      \* the name a request works on, with what it copied about it
  drawn,    \* random values drawn so far
  raced,    \* sessions opened for an account that had changed (history)
  hurt,     \* names a failed write or a crash happened to (history)
  spent,    \* recovery codes used (history)
  unsaved   \* those of them that users.json may still have (history)

stores == <<mem, disk, sess, sfile>>
waiting == <<pending, setups>>
history == <<raced, hurt, spent, unsaved>>
vars == <<stores, waiting, pc, job, drawn, history>>

NewAccount(r, h) == [role |-> r, hash |-> h, secret |-> None, codes |-> {}]

(* A request about the name u, and one that logs in as l.                  *)
For(u) == [user |-> u, role |-> None, hash |-> None, secret |-> None]
LogIn(l) == [user |-> l.user, role |-> l.role, hash |-> l.hash, secret |-> None]
LoginOf(j) == [user |-> j.user, role |-> j.role, hash |-> j.hash]

IsAdmin(us, u) == us[u] # None /\ us[u].role = "admin"

(* totpEnabled, and the test in totpSecret.                                *)
TotpEnabled(u) == IsAdmin(mem, u) /\ mem[u].secret # None

(* A login is current as long as the account has its role and password.    *)
Current(us, l) ==
  us[l.user] # None /\ us[l.user].role = l.role /\ us[l.user].hash = l.hash

(* sessionFromCtx: a request of u passed the test for administrators, with *)
(* a session or, behind a proxy, with the account itself.                  *)
SignedInAsAdmin(u) ==
  \/ IsAdmin(mem, u)
  \/ \E s \in Sessions : sess[s] # None /\ sess[s].user = u /\ sess[s].role = "admin"

(* bootstrapUsers made an administrator.                                   *)
Init ==
  \E a \in Users, h \in Hashes :
    /\ mem = [u \in Users |-> IF u = a THEN NewAccount("admin", h) ELSE None]
    /\ disk = mem
    /\ sess = [s \in Sessions |-> None]
    /\ sfile = sess
    /\ pending = [k \in Tokens |-> None]
    /\ setups = [u \in Users |-> None]
    /\ pc = [c \in Callers |-> "idle"]
    /\ job = [c \in Callers |-> None]
    /\ drawn = {h}
    /\ raced = {} /\ hurt = {} /\ spent = {} /\ unsaved = {}

(* Request c goes on at l with j in hand.                                  *)
Goto(c, l, j) == pc' = [pc EXCEPT ![c] = l] /\ job' = [job EXCEPT ![c] = j]

Finish(c) == Goto(c, "idle", None)

-----------------------------------------------------------------------------
(* The user store.                                                         *)

(* save, after memory became m; u is whom it is about.  A save that works  *)
(* brings every earlier change to the file too.                            *)
Save(ok, m, u) ==
  /\ mem' = m
  /\ disk' = IF ok THEN m ELSE disk
  /\ unsaved' = IF ok THEN {} ELSE unsaved
  /\ hurt' = IF ok THEN hurt ELSE hurt \cup {u}
  /\ UNCHANGED <<spent, raced>>

(* addUser; handleUsersCreate does nothing else, and is one step.          *)
AddUser(u, r, h, ok) ==
  /\ mem[u] = None
  /\ h \notin drawn
  /\ drawn' = drawn \cup {h}
  /\ Save(ok, [mem EXCEPT ![u] = NewAccount(r, h)], u)
  /\ UNCHANGED <<sess, sfile, waiting, pc, job>>

(* A faulty handler that does not drop the sessions.                       *)
ChangeNoDestroy(c, u, m, ok) ==
  /\ pc[c] = "idle"
  /\ mem[u] # None
  /\ Save(ok, m, u)
  /\ UNCHANGED <<pc, job, sess, sfile, waiting>>

(* The frame of the handlers that change an account and then drop its      *)
(* sessions; after a failed save the answer is an error and they stop.     *)
Change(c, u, m, ok) ==
  /\ pc[c] = "idle"
  /\ mem[u] # None
  /\ Save(ok, m, u)
  /\ IF ok THEN Goto(c, "destroy", For(u)) ELSE UNCHANGED <<pc, job>>
  /\ UNCHANGED <<sess, sfile, waiting>>

(* setPassword; handleChangeOwnPassword verifies the old password before.  *)
SetPassword(c, u, h, ok) ==
  /\ h \notin drawn
  /\ drawn' = drawn \cup {h}
  /\ Change(c, u, [mem EXCEPT ![u].hash = h], ok)

OtherAdmin(u) == \E v \in Users \ {u} : IsAdmin(mem, v)

WithRole(u, r) ==
  [mem EXCEPT ![u] = IF r = "admin" THEN [@ EXCEPT !.role = r]
                                    ELSE NewAccount(r, @.hash)]

(* setRole *)
SetRole(c, u, r, ok) ==
  /\ IsAdmin(mem, u) /\ r # "admin" => OtherAdmin(u)
  /\ Change(c, u, WithRole(u, r), ok)
  /\ UNCHANGED drawn

(* A faulty deleteUser that only counts the users that are left.           *)
DeleteUserCountingAll(c, u, ok) ==
  /\ \E v \in Users \ {u} : mem[v] # None
  /\ Change(c, u, [mem EXCEPT ![u] = None], ok)
  /\ UNCHANGED drawn

DeleteUser(c, u, ok) ==
  /\ IsAdmin(mem, u) => OtherAdmin(u)
  /\ Change(c, u, [mem EXCEPT ![u] = None], ok)
  /\ UNCHANGED drawn

-----------------------------------------------------------------------------
(* Sessions.                                                               *)

(* destroyByUsername: it writes only if there was a session to drop.       *)
DestroyByUsername(c) ==
  LET u == job[c].user
      S == {s \in Sessions : sess[s] # None /\ sess[s].user = u}
  IN /\ pc[c] = "destroy"
     /\ sess' = [s \in Sessions |-> IF s \in S THEN None ELSE sess[s]]
     /\ IF S = {} THEN Finish(c) ELSE Goto(c, "closed", For(u))
     /\ UNCHANGED <<mem, disk, sfile, waiting, drawn, history>>

(* destroy, called by handleLogoutAPI.  A session that has expired is      *)
(* dropped in the same two steps, by get or reap.                          *)
Logout(c, s) ==
  /\ pc[c] = "idle"
  /\ sess[s] # None
  /\ sess' = [sess EXCEPT ![s] = None]
  /\ Goto(c, "closed", For(sess[s].user))
  /\ UNCHANGED <<mem, disk, sfile, waiting, drawn, history>>

(* create, with what the login copied when the password was verified.      *)
CreateSession(c, s) ==
  /\ pc[c] = "create"
  /\ s \notin drawn
  /\ drawn' = drawn \cup {s}
  /\ sess' = [sess EXCEPT ![s] = LoginOf(job[c])]
  /\ raced' = IF Current(mem, LoginOf(job[c])) THEN raced ELSE raced \cup {s}
  /\ Goto(c, "opened", For(job[c].user))
  /\ UNCHANGED <<mem, disk, sfile, waiting, hurt, spent, unsaved>>

(* persist: it does not tell its caller when the write fails.              *)
Persist(c) ==
  /\ pc[c] \in {"opened", "closed"}
  /\ sfile' = sess
  /\ Finish(c)
  /\ UNCHANGED <<mem, disk, sess, waiting, drawn, history>>

PersistFails(c) ==
  /\ pc[c] \in {"opened", "closed"}
  /\ hurt' = IF pc[c] = "closed" THEN hurt \cup {job[c].user} ELSE hurt
  /\ Finish(c)
  /\ UNCHANGED <<stores, waiting, drawn, raced, spent, unsaved>>

-----------------------------------------------------------------------------
(* Login.                                                                  *)

(* authenticate, with the right password: the login goes on with a copy.   *)
Authenticate(c, u) ==
  /\ pc[c] = "idle"
  /\ mem[u] # None
  /\ Goto(c, "password",
          LogIn([user |-> u, role |-> mem[u].role, hash |-> mem[u].hash]))
  /\ UNCHANGED <<stores, waiting, drawn, history>>

(* finishLoginAfterPassword: the role of the copy, but two-factor as it is *)
(* now.                                                                    *)
DemandCode(c, k) ==
  /\ pc[c] = "password"
  /\ job[c].role = "admin" /\ TotpEnabled(job[c].user)
  /\ pending[k] = None
  /\ pending' = [pending EXCEPT ![k] = LoginOf(job[c])]
  /\ Finish(c)
  /\ UNCHANGED <<stores, setups, drawn, history>>

NoCodeNeeded(c) ==
  /\ pc[c] = "password"
  /\ ~(job[c].role = "admin" /\ TotpEnabled(job[c].user))
  /\ Goto(c, "create", job[c])
  /\ UNCHANGED <<stores, waiting, drawn, history>>

(* handleLoginTOTP: takePendingLogin.                                      *)
TakePending(c, k) ==
  /\ pc[c] = "idle"
  /\ pending[k] # None
  /\ pending' = [pending EXCEPT ![k] = None]
  /\ Goto(c, "verify", LogIn(pending[k]))
  /\ UNCHANGED <<stores, setups, drawn, history>>

(* verifyTOTPOrRecovery, for a login or for a request to disable.          *)
Verified(c) == IF job[c].role = None THEN "disable" ELSE "create"

CodeValid(c) ==
  /\ pc[c] = "verify"
  /\ TotpEnabled(job[c].user)
  /\ Goto(c, Verified(c), job[c])
  /\ UNCHANGED <<stores, waiting, drawn, history>>

TryRecoveryCode(c) ==
  /\ pc[c] = "verify"
  /\ TotpEnabled(job[c].user)
  /\ Goto(c, "recover", job[c])
  /\ UNCHANGED <<stores, waiting, drawn, history>>

(* A faulty consumeRecoveryCode that accepts the code and keeps it.        *)
ConsumeRecoveryCodeKept(c, n, ok) ==
  LET u == job[c].user
  IN /\ pc[c] = "recover"
     /\ mem[u] # None /\ n \in mem[u].codes
     /\ mem' = mem
     /\ disk' = IF ok THEN mem ELSE disk
     /\ spent' = spent \cup {<<mem[u].secret, n>>}
     /\ unsaved' = IF ok THEN {} ELSE unsaved \cup {<<mem[u].secret, n>>}
     /\ Goto(c, Verified(c), job[c])
     /\ UNCHANGED <<sess, sfile, waiting, drawn, raced, hurt>>

(* consumeRecoveryCode: the code is accepted even if the save fails.       *)
ConsumeRecoveryCode(c, n, ok) ==
  LET u == job[c].user
      m == [mem EXCEPT ![u].codes = @ \ {n}]
  IN /\ pc[c] = "recover"
     /\ mem[u] # None /\ n \in mem[u].codes
     /\ mem' = m
     /\ disk' = IF ok THEN m ELSE disk
     /\ spent' = spent \cup {<<mem[u].secret, n>>}
     /\ unsaved' = IF ok THEN {} ELSE unsaved \cup {<<mem[u].secret, n>>}
     /\ Goto(c, Verified(c), job[c])
     /\ UNCHANGED <<sess, sfile, waiting, drawn, raced, hurt>>

(* The code was wrong, or two-factor is off by now: the login waits again  *)
(* under a new token.                                                      *)
RejectLogin(c, k) ==
  /\ pc[c] \in {"verify", "recover"} /\ job[c].role # None
  /\ pending[k] = None
  /\ pending' = [pending EXCEPT ![k] = LoginOf(job[c])]
  /\ Finish(c)
  /\ UNCHANGED <<stores, setups, drawn, history>>

RejectDisable(c) ==
  /\ pc[c] \in {"verify", "recover"} /\ job[c].role = None
  /\ Finish(c)
  /\ UNCHANGED <<stores, waiting, drawn, history>>

-----------------------------------------------------------------------------
(* Two-factor set-up.                                                      *)

(* handleTOTPBegin: the test, then putPendingSetup, which replaces the     *)
(* secret of an earlier set-up.                                            *)
BeginSetup(c, u) ==
  /\ pc[c] = "idle"
  /\ SignedInAsAdmin(u)
  /\ ~TotpEnabled(u)
  /\ Goto(c, "setup", For(u))
  /\ UNCHANGED <<stores, waiting, drawn, history>>

PutPendingSetup(c, x) ==
  /\ pc[c] = "setup"
  /\ x \notin drawn
  /\ drawn' = drawn \cup {x}
  /\ setups' = [setups EXCEPT ![job[c].user] = x]
  /\ Finish(c)
  /\ UNCHANGED <<stores, pending, history>>

(* handleTOTPConfirm: the code is validated against the secret that        *)
(* peekPendingSetup saw, and takePendingSetup may then see another.        *)
PeekPendingSetup(c, u) ==
  /\ pc[c] = "idle"
  /\ SignedInAsAdmin(u)
  /\ setups[u] # None
  /\ Goto(c, "confirm", For(u))
  /\ UNCHANGED <<stores, waiting, drawn, history>>

TakePendingSetup(c) ==
  LET u == job[c].user
  IN /\ pc[c] = "confirm"
     /\ setups' = [setups EXCEPT ![u] = None]
     /\ IF setups[u] = None THEN Finish(c)
        ELSE Goto(c, "enable", [For(u) EXCEPT !.secret = setups[u]])
     /\ UNCHANGED <<stores, pending, drawn, history>>

(* A faulty enableTOTP that trusts the role of the session.                *)
MayEnableAnybody(u) == mem[u] # None

MayEnable(u) == IsAdmin(mem, u)

(* What enableTOTP and disableTOTP do to memory, saved or not.             *)
SetTotp(u, x, K, ok) ==
  LET m == [mem EXCEPT ![u].secret = x, ![u].codes = K]
  IN /\ mem' = m
     /\ disk' = IF ok THEN m ELSE disk
     /\ unsaved' = IF ok THEN {} ELSE unsaved

EnableTOTP(c, ok) ==
  LET u == job[c].user
  IN /\ pc[c] = "enable"
     /\ MayEnable(u)
     /\ SetTotp(u, job[c].secret, Slots, ok)
     /\ Finish(c)
     /\ UNCHANGED <<sess, sfile, waiting, drawn, raced, hurt, spent>>

EnableRefused(c) ==
  /\ pc[c] = "enable"
  /\ ~MayEnable(job[c].user)
  /\ Finish(c)
  /\ UNCHANGED <<stores, waiting, drawn, history>>

(* handleTOTPDisable: after the password, a code if two-factor is on.      *)
BeginDisable(c, u) ==
  /\ pc[c] = "idle"
  /\ SignedInAsAdmin(u)
  /\ mem[u] # None
  /\ Goto(c, IF TotpEnabled(u) THEN "verify" ELSE "disable", For(u))
  /\ UNCHANGED <<stores, waiting, drawn, history>>

DisableTOTP(c, ok) ==
  LET u == job[c].user
  IN /\ pc[c] = "disable"
     /\ mem[u] # None
     /\ SetTotp(u, None, {}, ok)
     /\ Finish(c)
     /\ UNCHANGED <<sess, sfile, waiting, drawn, raced, hurt, spent>>

DisableRefused(c) ==
  /\ pc[c] = "disable"
  /\ mem[job[c].user] = None
  /\ Finish(c)
  /\ UNCHANGED <<stores, waiting, drawn, history>>

-----------------------------------------------------------------------------
(* Five minutes are over for a pending login or set-up: it is refused, and *)
(* removed sooner or later.                                                *)
PendingLapses(k) ==
  /\ pending' = [pending EXCEPT ![k] = None]
  /\ UNCHANGED <<stores, setups, pc, job, drawn, history>>

SetupLapses(u) ==
  /\ setups' = [setups EXCEPT ![u] = None]
  /\ UNCHANGED <<stores, pending, pc, job, drawn, history>>

(* The process dies; openUserStore and load read the files.  A name is     *)
(* hurt if its sessions were about to be dropped, or dropped and not yet   *)
(* written.  A code whose removal is not in the file is good again.        *)
Restart ==
  /\ mem' = disk
  /\ sess' = sfile
  /\ pending' = [k \in Tokens |-> None]
  /\ setups' = [u \in Users |-> None]
  /\ pc' = [c \in Callers |-> "idle"]
  /\ job' = [c \in Callers |-> None]
  /\ hurt' = hurt \cup {u \in Users :
               \E c \in Callers : pc[c] \in {"destroy", "closed"} /\ job[c].user = u}
  /\ spent' = spent \ unsaved
  /\ unsaved' = {}
  /\ UNCHANGED <<disk, sfile, drawn, raced>>

-----------------------------------------------------------------------------
Administer(c) ==
  \E u \in Users, ok \in BOOLEAN :
    \/ \E h \in Hashes : SetPassword(c, u, h, ok)
    \/ \E r \in Roles : SetRole(c, u, r, ok)
    \/ DeleteUser(c, u, ok)

Login2FA(c) ==
  \/ \E k \in Tokens : DemandCode(c, k) \/ TakePending(c, k) \/ RejectLogin(c, k)
  \/ CodeValid(c) \/ TryRecoveryCode(c) \/ RejectDisable(c)
  \/ \E n \in Slots, ok \in BOOLEAN : ConsumeRecoveryCode(c, n, ok)

SetUp2FA(c) ==
  \/ \E u \in Users : BeginSetup(c, u) \/ PeekPendingSetup(c, u) \/ BeginDisable(c, u)
  \/ \E x \in Secrets : PutPendingSetup(c, x)
  \/ \E ok \in BOOLEAN : EnableTOTP(c, ok) \/ DisableTOTP(c, ok)
  \/ TakePendingSetup(c) \/ EnableRefused(c) \/ DisableRefused(c)

UseSessions(c) ==
  \/ \E u \in Users : Authenticate(c, u)
  \/ \E s \in Sessions : CreateSession(c, s) \/ Logout(c, s)
  \/ NoCodeNeeded(c) \/ DestroyByUsername(c) \/ Persist(c) \/ PersistFails(c)

Next ==
  \/ \E u \in Users, r \in Roles, h \in Hashes, ok \in BOOLEAN : AddUser(u, r, h, ok)
  \/ \E c \in Callers :
       Administer(c) \/ UseSessions(c) \/ Login2FA(c) \/ SetUp2FA(c)
  \/ \E k \in Tokens : PendingLapses(k)
  \/ \E u \in Users : SetupLapses(u)
  \/ Restart

Spec == Init /\ [][Next]_vars

-----------------------------------------------------------------------------
(* Properties.                                                             *)

(* What a request has in hand at a place in the code.                      *)
RequestOK(l, j) ==
  \/ l = "idle" /\ j = None
  \/ l \in {"password", "create"} /\ j \in Job /\ LoginOf(j) \in Login
  \/ l \in {"verify", "recover"} /\ j \in Job /\ (j.role = None \/ LoginOf(j) \in Login)
  \/ l = "enable" /\ j \in Job /\ j.secret \in Secrets
  \/ l \in {"opened", "closed", "destroy", "setup", "confirm", "disable"} /\ j \in Job

(* Every variable has its shape, and the copy in a request's hand is what  *)
(* its place in the code needs.                                            *)
TypeOK ==
  /\ mem \in [Users -> Account \cup {None}]
  /\ disk \in [Users -> Account \cup {None}]
  /\ sess \in [Sessions -> Login \cup {None}]
  /\ sfile \in [Sessions -> Login \cup {None}]
  /\ pending \in [Tokens -> Login \cup {None}]
  /\ setups \in [Users -> Secrets \cup {None}]
  /\ pc \in [Callers -> Places]
  /\ job \in [Callers -> Job \cup {None}]
  /\ \A c \in Callers : RequestOK(pc[c], job[c])
  /\ drawn \subseteq Hashes \cup Sessions \cup Secrets
  /\ raced \subseteq Sessions /\ hurt \subseteq Users
  /\ spent \subseteq Secrets \X Slots /\ unsaved \subseteq spent

(* src/README.md:120 "cannot remove or demote the last admin": whatever    *)
(* administrators do to each other at the same time, and whatever is lost  *)
(* in a crash, one of them is left, in memory and in the file.             *)
AlwaysAnAdmin ==
  (\E u \in Users : IsAdmin(mem, u)) /\ (\E u \in Users : IsAdmin(disk, u))

(* src/README.md:121: a change of password or role, or a deletion, ends the*)
(* sessions of the name.  A session that does not fit its account was      *)
(* opened by a login that had read the account before the change, or a     *)
(* write failed or was cut short for this very name, or the change is      *)
(* about to drop it.                                                       *)
SessionsAreCurrent ==
  \A s \in Sessions :
    sess[s] # None /\ s \notin raced /\ sess[s].user \notin hurt =>
      \/ Current(mem, sess[s])
      \/ \E c \in Callers : pc[c] = "destroy" /\ job[c].user = sess[s].user

(* totp_activity_test.go:67-79: two-factor is for administrators, also if  *)
(* the role changed between the two requests of a set-up (users.go:215-219 *)
(* and 285-287).                                                           *)
OnlyAdmins2FA(us) ==
  \A u \in Users : us[u] # None =>
    /\ us[u].secret # None => us[u].role = "admin"
    /\ us[u].codes # {} => us[u].secret # None

TwoFactorIsForAdmins == OnlyAdmins2FA(mem) /\ OnlyAdmins2FA(disk)

(* totp_activity_test.go:55 "recovery code should be single-use": a code   *)
(* that was accepted is in no account, also under another handler's save   *)
(* or after a restart, unless no save succeeded before the restart.        *)
NoneLeft(us, C) ==
  \A u \in Users : us[u] # None => \A n \in us[u].codes : <<us[u].secret, n>> \notin C

CodesAreSingleUse == NoneLeft(mem, spent) /\ NoneLeft(disk, spent \ unsaved)
=============================================================================
