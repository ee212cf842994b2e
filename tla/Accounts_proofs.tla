--------------------------- MODULE Accounts_proofs ---------------------------
(***************************************************************************)
(* Theorems about Accounts for any names, random values and requests.      *)
(*                                                                         *)
(* AlwaysAnAdmin and TwoFactorIsForAdmins speak of single copies of the    *)
(* accounts and are almost inductive: each copy is written from memory as  *)
(* a whole.  SessionsAreCurrent is not: a restart reads the accounts and   *)
(* the sessions back from two files written at different times.  Two more  *)
(* facts tie the files to memory: for a name nothing failed for, the file  *)
(* has the account as memory has it (FilesAgree), and a session that is    *)
(* only in the file was dropped by a request that has yet to write that    *)
(* (FileIsAwaited).                                                        *)
(*                                                                         *)
(* CodesAreSingleUse has an invariant of its own, CodeInv, which follows   *)
(* each secret from the set-up that draws it to the one account it gets.   *)
(***************************************************************************)
EXTENDS Accounts, TLAPS

Same(a, b) == (a = None <=> b = None) /\ (a # None => a.role = b.role /\ a.hash = b.hash)

FilesAgree == \A u \in Users \ hurt : Same(mem[u], disk[u])

Dropping(p, j, u, L) == \E c \in Callers : p[c] \in L /\ j[c].user = u

FileIsAwaited ==
  \A s \in Sessions :
    sfile[s] # None /\ sfile[s].user \notin hurt =>
      sess[s] = sfile[s] \/ Dropping(pc, job, sfile[s].user, {"closed"})

(* A session id is drawn before it is anywhere.                            *)
OpenedIsDrawn ==
  \A s \in Sessions : sess[s] # None \/ sfile[s] # None => s \in drawn

IInv ==
  /\ TypeOK /\ AlwaysAnAdmin /\ TwoFactorIsForAdmins
  /\ SessionsAreCurrent /\ FilesAgree /\ FileIsAwaited /\ OpenedIsDrawn

-----------------------------------------------------------------------------
(* The initial states: one administrator, no session.                      *)
LEMMA InitIInv == Init => IInv
<1> SUFFICES ASSUME NEW a \in Users, NEW h \in Hashes,
                    mem = [u \in Users |-> IF u = a THEN NewAccount("admin", h) ELSE None],
                    disk = mem,
                    sess = [s \in Sessions |-> None], sfile = sess,
                    pending = [k \in Tokens |-> None],
                    setups = [u \in Users |-> None],
                    pc = [c \in Callers |-> "idle"], job = [c \in Callers |-> None],
                    drawn = {h},
                    raced = {}, hurt = {}, spent = {}, unsaved = {}
             PROVE  IInv
  BY DEF Init
<1>1. NewAccount("admin", h) \in Account /\ NewAccount("admin", h) # None
  BY NoneAssumption DEF NewAccount, Account, Roles
<1>2. TypeOK
  <2>1. /\ mem \in [Users -> Account \cup {None}]
        /\ disk \in [Users -> Account \cup {None}]
    BY <1>1
  <2>2. pc \in [Callers -> Places]
    BY DEF Places
  <2>3. job \in [Callers -> Job \cup {None}]
    OBVIOUS
  <2>4. \A c \in Callers : RequestOK(pc[c], job[c])
    BY DEF RequestOK
  <2> QED BY <2>1, <2>2, <2>3, <2>4 DEF TypeOK
<1>3. AlwaysAnAdmin
  BY <1>1 DEF AlwaysAnAdmin, IsAdmin, NewAccount
<1>4. TwoFactorIsForAdmins
  BY <1>1 DEF TwoFactorIsForAdmins, OnlyAdmins2FA, NewAccount
<1>5. SessionsAreCurrent /\ FileIsAwaited /\ OpenedIsDrawn
  BY DEF SessionsAreCurrent, FileIsAwaited, OpenedIsDrawn
<1>6. FilesAgree
  BY DEF FilesAgree, Same
<1> QED BY <1>2, <1>3, <1>4, <1>5, <1>6 DEF IInv

-----------------------------------------------------------------------------
(* Goto puts a request at a place for which it has what it needs, and the  *)
(* other requests stay.                                                    *)
LEMMA GotoKeepsRequests ==
  ASSUME TypeOK, NEW c \in Callers, NEW l \in Places, NEW j,
         RequestOK(l, j), Goto(c, l, j)
  PROVE  /\ pc' \in [Callers -> Places]
         /\ job' \in [Callers -> Job \cup {None}]
         /\ \A d \in Callers : RequestOK(pc'[d], job'[d])
<1>1. j \in Job \cup {None}
  BY DEF RequestOK
<1> QED BY <1>1 DEF TypeOK, Goto

(* What a request has in hand is a record, except between requests.        *)
LEMMA InHand ==
  ASSUME TypeOK, NEW c \in Callers, pc[c] # "idle"
  PROVE  /\ job[c] \in Job
         /\ job[c].user \in Users
         /\ job[c] # None
         /\ pc[c] \in {"password", "create"} => LoginOf(job[c]) \in Login
         /\ pc[c] \in {"verify", "recover"} /\ job[c].role # None => LoginOf(job[c]) \in Login
         /\ pc[c] = "enable" => job[c].secret \in Secrets
<1>1. RequestOK(pc[c], job[c])
  BY DEF TypeOK
<1>2. job[c] \in Job
  BY <1>1 DEF RequestOK
<1>3. job[c].user \in Users
  BY <1>2 DEF Job
<1> QED BY <1>1, <1>2, <1>3, NoneAssumption DEF RequestOK

(* A request about a name, and one that logs in, are well formed.          *)
LEMMA JobsAreOK ==
  /\ \A u \in Users : For(u) \in Job /\ For(u).user = u /\ For(u).role = None
  /\ \A u \in Users, x \in Secrets :
       LET j == [For(u) EXCEPT !.secret = x] IN j \in Job /\ j.secret = x /\ j.user = u
  /\ \A l \in Login : LogIn(l) \in Job /\ LoginOf(LogIn(l)) = l
<1>1. ASSUME NEW u \in Users
      PROVE  For(u) \in Job /\ For(u).user = u /\ For(u).role = None
  BY DEF For, Job
<1>2. ASSUME NEW u \in Users, NEW x \in Secrets
      PROVE  LET j == [For(u) EXCEPT !.secret = x] IN j \in Job /\ j.secret = x /\ j.user = u
  BY DEF For, Job
<1>3. ASSUME NEW l \in Login
      PROVE  LogIn(l) \in Job /\ LoginOf(LogIn(l)) = l
  BY DEF LogIn, LoginOf, Job, Login
<1> QED BY <1>1, <1>2, <1>3

-----------------------------------------------------------------------------
(* The requests that are about to drop sessions, or to write that they did.*)
Undisturbed ==
  \A d \in Callers : pc[d] \in {"destroy", "closed"} => pc'[d] = pc[d] /\ job'[d] = job[d]

(* A request that moves on from any other place does not disturb them.     *)
LEMMA GotoIsUndisturbing ==
  ASSUME TypeOK, NEW c \in Callers, NEW l, NEW j, Goto(c, l, j),
         pc[c] \notin {"destroy", "closed"}
  PROVE  Undisturbed
BY DEF TypeOK, Goto, Undisturbed

(* Steps that change neither sessions nor roles nor passwords.             *)
Mild ==
  /\ UNCHANGED <<sess, sfile, raced, hurt>> /\ drawn \subseteq drawn'
  /\ \A u \in Users : Same(mem'[u], mem[u])
  /\ disk' = disk \/ disk' = mem'
  /\ Undisturbed

(* Logins stay current and files as good as they were.                     *)
LEMMA MildKeepsAgreement ==
  ASSUME IInv, Mild
  PROVE  /\ AlwaysAnAdmin' /\ SessionsAreCurrent'
         /\ FilesAgree' /\ FileIsAwaited' /\ OpenedIsDrawn'
<1> USE DEF IInv, Mild
<1>1. \A l \in Login : Current(mem, l) => Current(mem', l)
  BY DEF Current, Same, Login
<1>2. AlwaysAnAdmin'
  BY DEF AlwaysAnAdmin, IsAdmin, Same
<1>3. SessionsAreCurrent'
  <2> SUFFICES ASSUME NEW s \in Sessions, sess[s] # None, s \notin raced,
                      sess[s].user \notin hurt
               PROVE  \/ Current(mem', sess[s])
                      \/ \E c \in Callers : pc'[c] = "destroy" /\ job'[c].user = sess[s].user
    BY DEF SessionsAreCurrent
  <2>1. sess[s] \in Login
    BY DEF TypeOK
  <2>2. CASE Current(mem, sess[s])
    BY <1>1, <2>1, <2>2
  <2>3. CASE \E c \in Callers : pc[c] = "destroy" /\ job[c].user = sess[s].user
    BY <2>3 DEF Undisturbed
  <2> QED BY <2>2, <2>3 DEF SessionsAreCurrent
<1>4. FilesAgree'
  BY DEF FilesAgree, Same
<1>5. FileIsAwaited'
  BY DEF FileIsAwaited, Dropping, Undisturbed
<1>6. OpenedIsDrawn'
  BY DEF OpenedIsDrawn
<1> QED BY <1>2, <1>3, <1>4, <1>5, <1>6

(* A change of one account: either its sessions are going to be dropped,   *)
(* or the save failed, or there was no account before.                     *)
LEMMA SaveKeepsAgreement ==
  ASSUME IInv, NEW u \in Users, NEW m \in [Users -> Account \cup {None}],
         NEW ok \in BOOLEAN, Save(ok, m, u), UNCHANGED <<sess, sfile>>, Undisturbed,
         drawn \subseteq drawn',
         \A v \in Users \ {u} : m[v] = mem[v],
         \E v \in Users : IsAdmin(m, v),
         OnlyAdmins2FA(m),
         ok => mem[u] = None \/ Dropping(pc', job', u, {"destroy"})
  PROVE  /\ AlwaysAnAdmin' /\ TwoFactorIsForAdmins'
         /\ SessionsAreCurrent' /\ FilesAgree' /\ FileIsAwaited' /\ OpenedIsDrawn'
<1> USE DEF IInv, Save
<1>1. \A l \in Login : l.user # u /\ Current(mem, l) => Current(mem', l)
  BY DEF Current, Login
<1>2. \A l \in Login : l.user = u /\ u \notin hurt' /\ Current(mem, l) =>
        Dropping(pc', job', u, {"destroy"})
  BY DEF Current
<1>3. hurt \subseteq hurt'
  OBVIOUS
<1>4. AlwaysAnAdmin'
  BY DEF AlwaysAnAdmin
<1>5. TwoFactorIsForAdmins'
  BY DEF TwoFactorIsForAdmins
<1>6. SessionsAreCurrent'
  <2> SUFFICES ASSUME NEW s \in Sessions, sess[s] # None, s \notin raced,
                      sess[s].user \notin hurt'
               PROVE  \/ Current(mem', sess[s])
                      \/ \E c \in Callers : pc'[c] = "destroy" /\ job'[c].user = sess[s].user
    BY DEF SessionsAreCurrent
  <2>1. sess[s] \in Login
    BY DEF TypeOK
  <2>2. CASE Current(mem, sess[s])
    BY <1>1, <1>2, <2>1, <2>2 DEF Dropping
  <2>3. CASE \E c \in Callers : pc[c] = "destroy" /\ job[c].user = sess[s].user
    BY <2>3 DEF Undisturbed
  <2> QED BY <1>3, <2>2, <2>3 DEF SessionsAreCurrent
<1>7. FilesAgree'
  BY DEF FilesAgree, Same
<1>8. FileIsAwaited'
  BY <1>3 DEF FileIsAwaited, Dropping, Undisturbed
<1>9. OpenedIsDrawn'
  BY DEF OpenedIsDrawn
<1> QED BY <1>4, <1>5, <1>6, <1>7, <1>8, <1>9

-----------------------------------------------------------------------------
(* Creating, changing and deleting an account.  The two methods that could *)
(* take the last administrator away look for another one.                  *)
LEMMA AddUserKeepsIInv ==
  ASSUME IInv, NEW u \in Users, NEW r \in Roles, NEW h \in Hashes, NEW ok \in BOOLEAN,
         AddUser(u, r, h, ok)
  PROVE  IInv'
<1> DEFINE m == [mem EXCEPT ![u] = NewAccount(r, h)]
<1>1. NewAccount(r, h) \in Account /\ NewAccount(r, h) # None
  BY NoneAssumption DEF NewAccount, Account
<1>2. m \in [Users -> Account \cup {None}]
  BY <1>1 DEF IInv, TypeOK
<1>3. \E v \in Users : IsAdmin(m, v)
  BY <1>1 DEF IInv, TypeOK, AlwaysAnAdmin, IsAdmin, AddUser
<1>4. OnlyAdmins2FA(m)
  BY <1>1 DEF IInv, TypeOK, TwoFactorIsForAdmins, OnlyAdmins2FA, NewAccount
<1>5. Undisturbed /\ Save(ok, m, u) /\ UNCHANGED <<sess, sfile>> /\ mem[u] = None
      /\ drawn \subseteq drawn'
  BY DEF AddUser, Undisturbed
<1>6. \A v \in Users \ {u} : m[v] = mem[v]
  BY DEF IInv, TypeOK
<1>7. TypeOK'
  BY <1>2 DEF IInv, TypeOK, AddUser, Save, waiting
<1> HIDE DEF m
<1> QED BY <1>2, <1>3, <1>4, <1>5, <1>6, <1>7, SaveKeepsAgreement DEF IInv

LEMMA ChangeKeepsIInv ==
  ASSUME IInv, NEW c \in Callers, NEW u \in Users, NEW ok \in BOOLEAN,
         NEW m \in [Users -> Account \cup {None}], Change(c, u, m, ok),
         drawn \subseteq drawn', drawn' \subseteq Hashes \cup Sessions \cup Secrets,
         \A v \in Users \ {u} : m[v] = mem[v],
         \E v \in Users : IsAdmin(m, v),
         OnlyAdmins2FA(m)
  PROVE  IInv'
<1>1. pc[c] = "idle" /\ Save(ok, m, u) /\ UNCHANGED <<sess, sfile, waiting>>
  BY DEF Change
<1>2. CASE ok
  <2>1. Goto(c, "destroy", For(u)) /\ For(u) \in Job /\ For(u).user = u
    BY <1>2, JobsAreOK DEF Change
  <2>2. RequestOK("destroy", For(u)) /\ "destroy" \in Places
    BY <2>1 DEF RequestOK, Places
  <2>3. /\ pc' \in [Callers -> Places]
        /\ job' \in [Callers -> Job \cup {None}]
        /\ \A d \in Callers : RequestOK(pc'[d], job'[d])
    BY <2>1, <2>2, GotoKeepsRequests DEF IInv
  <2>4. TypeOK'
    BY <1>1, <2>3 DEF IInv, TypeOK, Save, waiting
  <2>5. Undisturbed
    BY <1>1, <2>1, GotoIsUndisturbing DEF IInv
  <2>6. Dropping(pc', job', u, {"destroy"})
    BY <2>1 DEF Dropping, Goto, IInv, TypeOK
  <2> QED BY <1>1, <2>4, <2>5, <2>6, SaveKeepsAgreement DEF IInv
<1>3. CASE ~ok
  <2>1. UNCHANGED <<pc, job>>
    BY <1>3 DEF Change
  <2>2. TypeOK'
    BY <1>1, <2>1 DEF IInv, TypeOK, Save, waiting
  <2>3. Undisturbed
    BY <2>1 DEF Undisturbed
  <2> QED BY <1>1, <1>3, <2>2, <2>3, SaveKeepsAgreement DEF IInv
<1> QED BY <1>2, <1>3

LEMMA AdministerKeepsIInv ==
  ASSUME IInv, NEW c \in Callers, Administer(c)
  PROVE  IInv'
<1> PICK u \in Users, ok \in BOOLEAN :
       \/ \E h \in Hashes : SetPassword(c, u, h, ok)
       \/ \E r \in Roles : SetRole(c, u, r, ok)
       \/ DeleteUser(c, u, ok)
  BY DEF Administer
<1>1. ASSUME NEW h \in Hashes, SetPassword(c, u, h, ok)
      PROVE  IInv'
  <2> DEFINE m == [mem EXCEPT ![u].hash = h]
  <2>1. mem[u] # None /\ mem[u] \in Account
    BY <1>1 DEF SetPassword, Change, IInv, TypeOK
  <2>2. m[u] \in Account /\ m[u].role = mem[u].role /\ m[u].secret = mem[u].secret
        /\ m[u].codes = mem[u].codes
    BY <2>1 DEF Account, IInv, TypeOK
  <2>3. m \in [Users -> Account \cup {None}] /\ m[u] # None
    BY <2>2, NoneAssumption DEF IInv, TypeOK
  <2>4. \A v \in Users \ {u} : m[v] = mem[v]
    BY DEF IInv, TypeOK
  <2>5. \E v \in Users : IsAdmin(m, v)
    BY <2>2, <2>3, <2>4 DEF IInv, AlwaysAnAdmin, IsAdmin
  <2>6. OnlyAdmins2FA(m)
    BY <2>1, <2>2, <2>4 DEF IInv, TwoFactorIsForAdmins, OnlyAdmins2FA
  <2>7. /\ Change(c, u, m, ok) /\ drawn \subseteq drawn'
        /\ drawn' \subseteq Hashes \cup Sessions \cup Secrets
    BY <1>1 DEF SetPassword, IInv, TypeOK
  <2> HIDE DEF m
  <2> QED BY <2>3, <2>4, <2>5, <2>6, <2>7, ChangeKeepsIInv
<1>2. ASSUME NEW r \in Roles, SetRole(c, u, r, ok)
      PROVE  IInv'
  <2> DEFINE m == WithRole(u, r)
  <2>1. mem[u] # None /\ mem[u] \in Account
    BY <1>2 DEF SetRole, Change, IInv, TypeOK
  <2>2. m[u] \in Account /\ m[u].role = r
    BY <2>1 DEF WithRole, NewAccount, Account, IInv, TypeOK
  <2>3. IF r = "admin" THEN m[u].secret = mem[u].secret /\ m[u].codes = mem[u].codes
                       ELSE m[u].secret = None /\ m[u].codes = {}
    BY <2>1 DEF WithRole, NewAccount, Account, IInv, TypeOK
  <2>4. m \in [Users -> Account \cup {None}] /\ m[u] # None
    BY <2>2, NoneAssumption DEF WithRole, IInv, TypeOK
  <2>5. \A v \in Users \ {u} : m[v] = mem[v]
    BY DEF WithRole, IInv, TypeOK
  <2>6. IsAdmin(mem, u) /\ r # "admin" => OtherAdmin(u)
    BY <1>2 DEF SetRole
  <2> HIDE DEF m
  <2>7. \E v \in Users : IsAdmin(m, v)
    BY <2>2, <2>4, <2>5, <2>6 DEF IInv, AlwaysAnAdmin, IsAdmin, OtherAdmin
  <2>8. OnlyAdmins2FA(m)
    BY <2>1, <2>2, <2>3, <2>5 DEF IInv, TwoFactorIsForAdmins, OnlyAdmins2FA
  <2>9. /\ Change(c, u, m, ok) /\ drawn \subseteq drawn'
        /\ drawn' \subseteq Hashes \cup Sessions \cup Secrets
    BY <1>2 DEF m, SetRole, IInv, TypeOK
  <2> QED BY <2>4, <2>5, <2>7, <2>8, <2>9, ChangeKeepsIInv
<1>3. ASSUME DeleteUser(c, u, ok)
      PROVE  IInv'
  <2> DEFINE m == [mem EXCEPT ![u] = None]
  <2>1. m \in [Users -> Account \cup {None}] /\ m[u] = None
    BY DEF IInv, TypeOK
  <2>2. \A v \in Users \ {u} : m[v] = mem[v]
    BY DEF IInv, TypeOK
  <2>3. \E v \in Users : IsAdmin(m, v)
    BY <1>3, <2>2 DEF DeleteUser, OtherAdmin, IInv, AlwaysAnAdmin, IsAdmin
  <2>4. OnlyAdmins2FA(m)
    BY <2>1, <2>2 DEF IInv, TwoFactorIsForAdmins, OnlyAdmins2FA
  <2>5. /\ Change(c, u, m, ok) /\ drawn \subseteq drawn'
        /\ drawn' \subseteq Hashes \cup Sessions \cup Secrets
    BY <1>3 DEF DeleteUser, IInv, TypeOK
  <2> HIDE DEF m
  <2> QED BY <2>1, <2>2, <2>3, <2>4, <2>5, ChangeKeepsIInv
<1> QED BY <1>1, <1>2, <1>3

-----------------------------------------------------------------------------
(* Steps that only move a request, draw a value or touch what waits.       *)
Quiet ==
  /\ UNCHANGED <<stores, history>>
  /\ pending' \in [Tokens -> Login \cup {None}]
  /\ setups' \in [Users -> Secrets \cup {None}]
  /\ drawn \subseteq drawn' /\ drawn' \subseteq Hashes \cup Sessions \cup Secrets

LEMMA QuietMoveKeepsIInv ==
  ASSUME IInv, Quiet, NEW c \in Callers, NEW l \in Places, NEW j,
         Goto(c, l, j), RequestOK(l, j), pc[c] \notin {"destroy", "closed"}
  PROVE  IInv'
<1>1. /\ pc' \in [Callers -> Places]
      /\ job' \in [Callers -> Job \cup {None}]
      /\ \A d \in Callers : RequestOK(pc'[d], job'[d])
  BY GotoKeepsRequests DEF IInv
<1>2. TypeOK'
  BY <1>1 DEF Quiet, IInv, TypeOK, stores, history
<1>3. Mild
  BY GotoIsUndisturbing DEF Mild, Same, Quiet, IInv, stores, history
<1>4. TwoFactorIsForAdmins'
  BY DEF Quiet, IInv, TwoFactorIsForAdmins, OnlyAdmins2FA, stores
<1> QED BY <1>2, <1>3, <1>4, MildKeepsAgreement DEF IInv

LEMMA QuietStayKeepsIInv ==
  ASSUME IInv, Quiet, UNCHANGED <<pc, job>>
  PROVE  IInv'
<1>1. TypeOK'
  BY DEF Quiet, IInv, TypeOK, stores, history
<1>2. Mild
  BY DEF Mild, Same, Quiet, Undisturbed, stores, history
<1>3. TwoFactorIsForAdmins'
  BY DEF Quiet, IInv, TwoFactorIsForAdmins, OnlyAdmins2FA, stores
<1> QED BY <1>1, <1>2, <1>3, MildKeepsAgreement DEF IInv

(* The three methods that change only the second factor of an account.     *)
LEMMA TotpChangeKeepsIInv ==
  ASSUME IInv, NEW c \in Callers, NEW l \in Places, NEW j,
         Goto(c, l, j), RequestOK(l, j), pc[c] \notin {"destroy", "closed"},
         NEW u \in Users, mem[u] # None,
         NEW x \in Secrets \cup {None}, NEW K \in SUBSET Slots, NEW ok \in BOOLEAN,
         x # None => mem[u].role = "admin",
         x = None => K = {},
         mem' = [mem EXCEPT ![u].secret = x, ![u].codes = K],
         disk' = IF ok THEN mem' ELSE disk,
         UNCHANGED <<sess, sfile, waiting, drawn, raced, hurt>>,
         spent' \subseteq Secrets \X Slots, unsaved' \subseteq spent'
  PROVE  IInv'
<1>1. /\ pc' \in [Callers -> Places]
      /\ job' \in [Callers -> Job \cup {None}]
      /\ \A d \in Callers : RequestOK(pc'[d], job'[d])
  BY GotoKeepsRequests DEF IInv
<1>2. mem[u] \in Account
  BY DEF IInv, TypeOK
<1>3. /\ mem'[u] \in Account /\ mem'[u] # None
      /\ mem'[u].role = mem[u].role /\ mem'[u].hash = mem[u].hash
      /\ mem'[u].secret = x /\ mem'[u].codes = K
  <2> DEFINE b == [mem[u] EXCEPT !.secret = x, !.codes = K]
  <2>1. mem'[u] = b
    BY DEF IInv, TypeOK
  <2>2. /\ b \in Account /\ b.role = mem[u].role /\ b.hash = mem[u].hash
        /\ b.secret = x /\ b.codes = K
    BY <1>2 DEF Account
  <2> HIDE DEF b
  <2> QED BY <2>1, <2>2, NoneAssumption
<1>4. \A v \in Users \ {u} : mem'[v] = mem[v]
  BY DEF IInv, TypeOK
<1>5. mem' \in [Users -> Account \cup {None}] /\ disk' \in [Users -> Account \cup {None}]
  BY <1>3 DEF IInv, TypeOK
<1>6. TypeOK'
  BY <1>1, <1>5 DEF IInv, TypeOK, waiting
<1>7. Mild
  BY <1>3, <1>4, GotoIsUndisturbing DEF Mild, Same, IInv
<1>8. OnlyAdmins2FA(mem')
  BY <1>3, <1>4 DEF IInv, TwoFactorIsForAdmins, OnlyAdmins2FA
<1>9. TwoFactorIsForAdmins'
  BY <1>8 DEF IInv, TwoFactorIsForAdmins, OnlyAdmins2FA
<1> QED BY <1>6, <1>7, <1>9, MildKeepsAgreement DEF IInv

-----------------------------------------------------------------------------
(* Dropping, opening and writing sessions.                                 *)
LEMMA SessionStepsKeepIInv ==
  ASSUME IInv, NEW c \in Callers, UseSessions(c)
  PROVE  IInv'
<1> USE DEF IInv
<1>idle. RequestOK("idle", None) /\ "idle" \in Places
  BY DEF RequestOK, Places
<1>1. ASSUME NEW u \in Users, Authenticate(c, u)
      PROVE  IInv'
  <2> DEFINE a == [user |-> u, role |-> mem[u].role, hash |-> mem[u].hash]
  <2>1. mem[u] \in Account
    BY <1>1 DEF Authenticate, TypeOK
  <2>2. a \in Login
    BY <2>1 DEF Account, Login
  <2>3. RequestOK("password", LogIn(a)) /\ "password" \in Places
    BY <2>2, JobsAreOK DEF RequestOK, Places
  <2>4. Quiet
    BY <1>1 DEF Authenticate, Quiet, waiting, TypeOK
  <2>5. Goto(c, "password", LogIn(a)) /\ pc[c] = "idle"
    BY <1>1 DEF Authenticate
  <2> QED BY <2>3, <2>4, <2>5, QuietMoveKeepsIInv
<1>2. ASSUME NEW s \in Sessions, CreateSession(c, s)
      PROVE  IInv'
  <2> DEFINE a == LoginOf(job[c])
  <2>1. pc[c] = "create" /\ a \in Login /\ job[c].user \in Users /\ a.user = job[c].user
    BY <1>2, InHand DEF CreateSession, LoginOf
  <2>2. Goto(c, "opened", For(job[c].user))
    BY <1>2 DEF CreateSession
  <2>3. RequestOK("opened", For(job[c].user)) /\ "opened" \in Places
    BY <2>1, JobsAreOK DEF RequestOK, Places
  <2>4. /\ pc' \in [Callers -> Places]
        /\ job' \in [Callers -> Job \cup {None}]
        /\ \A d \in Callers : RequestOK(pc'[d], job'[d])
    BY <2>2, <2>3, GotoKeepsRequests
  <2>5. /\ UNCHANGED <<mem, disk, sfile, waiting, hurt, spent, unsaved>>
        /\ sess' = [sess EXCEPT ![s] = a]
        /\ drawn' = drawn \cup {s}
        /\ raced' = IF Current(mem, a) THEN raced ELSE raced \cup {s}
    BY <1>2 DEF CreateSession
  <2> HIDE DEF a
  <2>6. TypeOK'
    BY <2>1, <2>4, <2>5 DEF TypeOK, waiting
  <2>7. Undisturbed
    BY <2>1, <2>2, GotoIsUndisturbing
  <2>8. SessionsAreCurrent'
    <3> SUFFICES ASSUME NEW t \in Sessions, sess'[t] # None, t \notin raced',
                        sess'[t].user \notin hurt
                 PROVE  \/ Current(mem, sess'[t])
                        \/ \E d \in Callers : pc'[d] = "destroy" /\ job'[d].user = sess'[t].user
      BY <2>5 DEF SessionsAreCurrent, Current
    <3>1. CASE t = s
      BY <2>5, <3>1 DEF TypeOK
    <3>2. CASE t # s
      <4>1. sess'[t] = sess[t] /\ t \notin raced
        BY <2>5, <3>2 DEF TypeOK
      <4> QED BY <2>7, <4>1 DEF SessionsAreCurrent, Undisturbed
    <3> QED BY <3>1, <3>2
  <2>9. FileIsAwaited'
    <3>1. \A t \in Sessions : sfile[t] # None => t # s
      BY <1>2 DEF CreateSession, OpenedIsDrawn
    <3>2. \A t \in Sessions \ {s} : sess'[t] = sess[t]
      BY <2>5 DEF TypeOK
    <3> QED BY <2>5, <2>7, <3>1, <3>2 DEF FileIsAwaited, Dropping, Undisturbed
  <2>10. AlwaysAnAdmin' /\ TwoFactorIsForAdmins' /\ FilesAgree' /\ OpenedIsDrawn'
    BY <2>5 DEF OpenedIsDrawn, TypeOK, AlwaysAnAdmin, IsAdmin, TwoFactorIsForAdmins, OnlyAdmins2FA, FilesAgree, Same
  <2> QED BY <2>6, <2>8, <2>9, <2>10
<1>3. ASSUME NEW s \in Sessions, Logout(c, s)
      PROVE  IInv'
  <2> DEFINE u == sess[s].user
  <2>1. sess[s] \in Login /\ u \in Users
    BY <1>3 DEF Logout, TypeOK, Login
  <2>2. Goto(c, "closed", For(u)) /\ pc[c] = "idle"
    BY <1>3 DEF Logout
  <2>3. RequestOK("closed", For(u)) /\ "closed" \in Places
    BY <2>1, JobsAreOK DEF RequestOK, Places
  <2>4. /\ pc' \in [Callers -> Places]
        /\ job' \in [Callers -> Job \cup {None}]
        /\ \A d \in Callers : RequestOK(pc'[d], job'[d])
    BY <2>2, <2>3, GotoKeepsRequests
  <2>5. /\ UNCHANGED <<mem, disk, sfile, waiting, drawn, history>>
        /\ sess' = [sess EXCEPT ![s] = None]
    BY <1>3 DEF Logout
  <2> HIDE DEF u
  <2>6. TypeOK'
    BY <2>4, <2>5 DEF TypeOK, waiting, history
  <2>7. Undisturbed
    BY <2>2, GotoIsUndisturbing
  <2>8. SessionsAreCurrent'
    BY <2>5, <2>7 DEF SessionsAreCurrent, TypeOK, Undisturbed, Current, history
  <2>9. FileIsAwaited'
    <3>1. Dropping(pc', job', sess[s].user, {"closed"})
      BY <2>2 DEF u, Goto, Dropping, For, TypeOK
    <3>2. \A t \in Sessions \ {s} : sess'[t] = sess[t]
      BY <2>5 DEF TypeOK
    <3> QED BY <2>5, <2>7, <3>1, <3>2 DEF FileIsAwaited, Dropping, Undisturbed, history
  <2>10. AlwaysAnAdmin' /\ TwoFactorIsForAdmins' /\ FilesAgree' /\ OpenedIsDrawn'
    BY <2>5 DEF OpenedIsDrawn, TypeOK, AlwaysAnAdmin, IsAdmin, TwoFactorIsForAdmins, OnlyAdmins2FA, FilesAgree, Same,
                history
  <2> QED BY <2>6, <2>8, <2>9, <2>10
<1>4. ASSUME NoCodeNeeded(c)
      PROVE  IInv'
  <2>1. pc[c] = "password" /\ Goto(c, "create", job[c]) /\ Quiet
    BY <1>4 DEF NoCodeNeeded, Quiet, waiting, TypeOK
  <2>2. RequestOK("create", job[c]) /\ "create" \in Places
    BY <2>1, InHand DEF RequestOK, Places
  <2> QED BY <2>1, <2>2, QuietMoveKeepsIInv
<1>5. ASSUME DestroyByUsername(c)
      PROVE  IInv'
  <2> DEFINE u == job[c].user
             S == {s \in Sessions : sess[s] # None /\ sess[s].user = u}
  <2>1. pc[c] = "destroy" /\ u \in Users
    BY <1>5, InHand DEF DestroyByUsername
  <2>2. /\ UNCHANGED <<mem, disk, sfile, waiting, drawn, history>>
        /\ sess' = [s \in Sessions |-> IF s \in S THEN None ELSE sess[s]]
    BY <1>5 DEF DestroyByUsername
  <2>3. \/ S = {} /\ Goto(c, "idle", None)
        \/ Goto(c, "closed", For(u))
    BY <1>5 DEF DestroyByUsername, Finish
  <2>4. RequestOK("closed", For(u)) /\ "closed" \in Places
    BY <2>1, JobsAreOK DEF RequestOK, Places
  <2>5. /\ pc' \in [Callers -> Places]
        /\ job' \in [Callers -> Job \cup {None}]
        /\ \A d \in Callers : RequestOK(pc'[d], job'[d])
    BY <1>idle, <2>3, <2>4, GotoKeepsRequests
  <2>6. \A d \in Callers \ {c} : pc'[d] = pc[d] /\ job'[d] = job[d]
    BY <2>3 DEF Goto, TypeOK
  <2>7. TypeOK'
    BY <2>2, <2>5 DEF TypeOK, waiting, history
  <2>8. \A t \in Sessions : sess'[t] # None => sess'[t] = sess[t] /\ sess[t].user # u
    BY <2>2
  <2>9. SessionsAreCurrent'
    <3> SUFFICES ASSUME NEW t \in Sessions, sess'[t] # None, t \notin raced,
                        sess'[t].user \notin hurt
                 PROVE  \/ Current(mem, sess'[t])
                        \/ \E d \in Callers : pc'[d] = "destroy" /\ job'[d].user = sess'[t].user
      BY <2>2 DEF SessionsAreCurrent, Current, history
    <3> QED BY <2>6, <2>8 DEF SessionsAreCurrent
  <2>10. FileIsAwaited'
    <3> SUFFICES ASSUME NEW t \in Sessions, sfile[t] # None, sfile[t].user \notin hurt,
                        sess'[t] # sfile[t]
                 PROVE  Dropping(pc', job', sfile[t].user, {"closed"})
      BY <2>2 DEF FileIsAwaited, history
    <3>1. CASE sess[t] = sfile[t]
      <4>1. t \in S /\ sfile[t].user = u
        BY <2>2, <3>1
      <4>2. Goto(c, "closed", For(u))
        BY <2>3, <4>1
      <4> QED BY <4>1, <4>2 DEF Dropping, Goto, For, TypeOK
    <3>2. CASE sess[t] # sfile[t]
      BY <2>1, <2>6, <3>2 DEF FileIsAwaited, Dropping
    <3> QED BY <3>1, <3>2
  <2>11. AlwaysAnAdmin' /\ TwoFactorIsForAdmins' /\ FilesAgree' /\ OpenedIsDrawn'
    BY <2>2 DEF OpenedIsDrawn, AlwaysAnAdmin, IsAdmin, TwoFactorIsForAdmins, OnlyAdmins2FA, FilesAgree, Same,
                history
  <2> QED BY <2>7, <2>9, <2>10, <2>11
<1>6. ASSUME Persist(c)
      PROVE  IInv'
  <2>1. /\ pc[c] \in {"opened", "closed"} /\ Goto(c, "idle", None)
        /\ sfile' = sess
        /\ UNCHANGED <<mem, disk, sess, waiting, drawn, history>>
    BY <1>6 DEF Persist, Finish
  <2>2. /\ pc' \in [Callers -> Places]
        /\ job' \in [Callers -> Job \cup {None}]
        /\ \A d \in Callers : RequestOK(pc'[d], job'[d])
    BY <1>idle, <2>1, GotoKeepsRequests
  <2>3. \A d \in Callers : pc[d] = "destroy" => pc'[d] = pc[d] /\ job'[d] = job[d]
    BY <2>1 DEF Goto, TypeOK
  <2>4. TypeOK'
    BY <2>1, <2>2 DEF TypeOK, waiting, history
  <2>5. SessionsAreCurrent'
    BY <2>1, <2>3 DEF SessionsAreCurrent, Current, history
  <2>6. FileIsAwaited'
    BY <2>1 DEF FileIsAwaited
  <2>7. AlwaysAnAdmin' /\ TwoFactorIsForAdmins' /\ FilesAgree' /\ OpenedIsDrawn'
    BY <2>1 DEF AlwaysAnAdmin, IsAdmin, TwoFactorIsForAdmins, OnlyAdmins2FA, FilesAgree, Same,
                OpenedIsDrawn, history
  <2> QED BY <2>4, <2>5, <2>6, <2>7
<1>7. ASSUME PersistFails(c)
      PROVE  IInv'
  <2>1. /\ pc[c] \in {"opened", "closed"} /\ Goto(c, "idle", None)
        /\ hurt' = IF pc[c] = "closed" THEN hurt \cup {job[c].user} ELSE hurt
        /\ UNCHANGED <<stores, waiting, drawn, raced, spent, unsaved>>
    BY <1>7 DEF PersistFails, Finish
  <2>2. /\ pc' \in [Callers -> Places]
        /\ job' \in [Callers -> Job \cup {None}]
        /\ \A d \in Callers : RequestOK(pc'[d], job'[d])
    BY <1>idle, <2>1, GotoKeepsRequests
  <2>3. \A d \in Callers \ {c} : pc'[d] = pc[d] /\ job'[d] = job[d]
    BY <2>1 DEF Goto, TypeOK
  <2>4. job[c].user \in Users /\ hurt \subseteq hurt'
    BY <2>1, InHand
  <2>5. TypeOK'
    BY <2>1, <2>2, <2>4 DEF TypeOK, stores, waiting
  <2>6. SessionsAreCurrent'
    BY <2>1, <2>3, <2>4 DEF SessionsAreCurrent, Current, stores
  <2>7. FileIsAwaited'
    BY <2>1, <2>3, <2>4 DEF FileIsAwaited, Dropping, stores
  <2>8. AlwaysAnAdmin' /\ TwoFactorIsForAdmins' /\ FilesAgree' /\ OpenedIsDrawn'
    BY <2>1, <2>4 DEF AlwaysAnAdmin, IsAdmin, TwoFactorIsForAdmins, OnlyAdmins2FA, FilesAgree,
                      Same, OpenedIsDrawn, stores
  <2> QED BY <2>5, <2>6, <2>7, <2>8
<1> QED BY <1>1, <1>2, <1>3, <1>4, <1>5, <1>6, <1>7 DEF UseSessions

-----------------------------------------------------------------------------
(* Login with two-factor.                                                  *)
LEMMA LoginStepsKeepIInv ==
  ASSUME IInv, NEW c \in Callers, Login2FA(c)
  PROVE  IInv'
<1> USE DEF IInv
<1>idle. RequestOK("idle", None) /\ "idle" \in Places
  BY DEF RequestOK, Places
<1>1. ASSUME NEW k \in Tokens, DemandCode(c, k)
      PROVE  IInv'
  <2>1. pc[c] = "password" /\ Goto(c, "idle", None) /\ LoginOf(job[c]) \in Login
    BY <1>1, InHand DEF DemandCode, Finish
  <2>2. Quiet
    BY <1>1, <2>1 DEF DemandCode, Quiet, TypeOK
  <2> QED BY <1>idle, <2>1, <2>2, QuietMoveKeepsIInv
<1>2. ASSUME NEW k \in Tokens, TakePending(c, k)
      PROVE  IInv'
  <2>1. pc[c] = "idle" /\ Goto(c, "verify", LogIn(pending[k])) /\ pending[k] \in Login
    BY <1>2 DEF TakePending, TypeOK
  <2>2. RequestOK("verify", LogIn(pending[k])) /\ "verify" \in Places
    BY <2>1, JobsAreOK DEF RequestOK, Places
  <2>3. Quiet
    BY <1>2 DEF TakePending, Quiet, TypeOK
  <2> QED BY <2>1, <2>2, <2>3, QuietMoveKeepsIInv
<1>3. ASSUME NEW k \in Tokens, RejectLogin(c, k)
      PROVE  IInv'
  <2>1. pc[c] \in {"verify", "recover"} /\ Goto(c, "idle", None) /\ LoginOf(job[c]) \in Login
    BY <1>3, InHand DEF RejectLogin, Finish
  <2>2. Quiet
    BY <1>3, <2>1 DEF RejectLogin, Quiet, TypeOK
  <2> QED BY <1>idle, <2>1, <2>2, QuietMoveKeepsIInv
<1>accepted. ASSUME pc[c] \in {"verify", "recover"}
             PROVE  RequestOK(Verified(c), job[c]) /\ Verified(c) \in Places
  BY <1>accepted, InHand DEF Verified, RequestOK, Places
<1>4. ASSUME CodeValid(c)
      PROVE  IInv'
  <2>1. pc[c] = "verify" /\ Goto(c, Verified(c), job[c]) /\ Quiet
    BY <1>4 DEF CodeValid, Quiet, waiting, TypeOK
  <2> QED BY <1>accepted, <2>1, QuietMoveKeepsIInv
<1>5. ASSUME TryRecoveryCode(c)
      PROVE  IInv'
  <2>1. pc[c] = "verify" /\ Goto(c, "recover", job[c]) /\ Quiet
    BY <1>5 DEF TryRecoveryCode, Quiet, waiting, TypeOK
  <2>2. RequestOK("recover", job[c]) /\ "recover" \in Places
    BY <2>1, InHand DEF RequestOK, Places
  <2> QED BY <2>1, <2>2, QuietMoveKeepsIInv
<1>6. ASSUME RejectDisable(c)
      PROVE  IInv'
  <2>1. pc[c] \in {"verify", "recover"} /\ Goto(c, "idle", None) /\ Quiet
    BY <1>6 DEF RejectDisable, Finish, Quiet, waiting, TypeOK
  <2> QED BY <1>idle, <2>1, QuietMoveKeepsIInv
<1>7. ASSUME NEW n \in Slots, NEW ok \in BOOLEAN, ConsumeRecoveryCode(c, n, ok)
      PROVE  IInv'
  <2> DEFINE u == job[c].user
             x == mem[u].secret
             K == mem[u].codes \ {n}
  <2>1. pc[c] = "recover" /\ u \in Users /\ mem[u] # None /\ n \in mem[u].codes
    BY <1>7, InHand DEF ConsumeRecoveryCode
  <2>2. mem[u] \in Account
    BY <2>1 DEF TypeOK
  <2>3. x \in Secrets /\ mem[u].role = "admin" /\ K \in SUBSET Slots
    BY <2>1, <2>2 DEF TwoFactorIsForAdmins, OnlyAdmins2FA, Account
  <2>4. mem' = [mem EXCEPT ![u].codes = K]
    BY <1>7 DEF ConsumeRecoveryCode
  <2>5. mem' = [mem EXCEPT ![u].secret = x, ![u].codes = K]
    <3> DEFINE a == [mem[u] EXCEPT !.codes = K]
               b == [mem[u] EXCEPT !.secret = x, !.codes = K]
    <3>1. a = b
      BY <2>2 DEF Account
    <3>2. mem' = [mem EXCEPT ![u] = a]
      BY <2>4
    <3>3. [mem EXCEPT ![u].secret = x, ![u].codes = K] = [mem EXCEPT ![u] = b]
      BY <2>1 DEF TypeOK
    <3> QED BY <3>1, <3>2, <3>3
  <2>6. /\ disk' = IF ok THEN mem' ELSE disk
        /\ spent' = spent \cup {<<x, n>>}
        /\ unsaved' = IF ok THEN {} ELSE unsaved \cup {<<x, n>>}
        /\ Goto(c, Verified(c), job[c])
        /\ UNCHANGED <<sess, sfile, waiting, drawn, raced, hurt>>
    BY <1>7 DEF ConsumeRecoveryCode
  <2>7. spent' \subseteq Secrets \X Slots /\ unsaved' \subseteq spent'
    BY <2>3, <2>6 DEF TypeOK
  <2>8. RequestOK(Verified(c), job[c]) /\ Verified(c) \in Places
    BY <1>accepted, <2>1
  <2>9. x \in Secrets \cup {None} /\ x # None
    BY <2>3, NoneAssumption
  <2> HIDE DEF u, x, K
  <2> QED BY <2>1, <2>3, <2>5, <2>6, <2>7, <2>8, <2>9, TotpChangeKeepsIInv
<1> QED BY <1>1, <1>2, <1>3, <1>4, <1>5, <1>6, <1>7 DEF Login2FA

(* Setting two-factor up and switching it off.                             *)
LEMMA SetUpStepsKeepIInv ==
  ASSUME IInv, NEW c \in Callers, SetUp2FA(c)
  PROVE  IInv'
<1> USE DEF IInv
<1>idle. RequestOK("idle", None) /\ "idle" \in Places
  BY DEF RequestOK, Places
<1>1. ASSUME NEW u \in Users, NEW l \in {"setup", "confirm", "verify", "disable"},
             pc[c] = "idle", Goto(c, l, For(u)),
             UNCHANGED <<stores, waiting, drawn, history>>
      PROVE  IInv'
  <2>1. RequestOK(l, For(u)) /\ l \in Places
    BY <1>1, JobsAreOK DEF RequestOK, Places
  <2>2. Quiet
    BY <1>1 DEF Quiet, waiting, TypeOK
  <2> QED BY <1>1, <2>1, <2>2, QuietMoveKeepsIInv
<1>2. ASSUME NEW u \in Users,
             BeginSetup(c, u) \/ PeekPendingSetup(c, u) \/ BeginDisable(c, u)
      PROVE  IInv'
  BY <1>1, <1>2 DEF BeginSetup, PeekPendingSetup, BeginDisable
<1>3. ASSUME NEW x \in Secrets, PutPendingSetup(c, x)
      PROVE  IInv'
  <2>1. pc[c] = "setup" /\ Goto(c, "idle", None)
    BY <1>3 DEF PutPendingSetup, Finish
  <2>2. Quiet
    BY <1>3 DEF PutPendingSetup, Quiet, TypeOK
  <2> QED BY <1>idle, <2>1, <2>2, QuietMoveKeepsIInv
<1>4. ASSUME TakePendingSetup(c)
      PROVE  IInv'
  <2> DEFINE u == job[c].user
             j == [For(u) EXCEPT !.secret = setups[u]]
  <2>1. pc[c] = "confirm" /\ u \in Users
    BY <1>4, InHand DEF TakePendingSetup
  <2>2. Quiet
    BY <1>4 DEF TakePendingSetup, Quiet, TypeOK
  <2>3. CASE setups[u] = None
    BY <1>4, <1>idle, <2>1, <2>2, <2>3, QuietMoveKeepsIInv DEF TakePendingSetup, Finish
  <2>4. CASE setups[u] # None
    <3>1. Goto(c, "enable", j) /\ setups[u] \in Secrets
      BY <1>4, <2>1, <2>4 DEF TakePendingSetup, TypeOK
    <3>2. RequestOK("enable", j) /\ "enable" \in Places
      BY <2>1, <3>1, JobsAreOK DEF RequestOK, Places
    <3> QED BY <2>1, <2>2, <3>1, <3>2, QuietMoveKeepsIInv
  <2> QED BY <2>3, <2>4
<1>5. ASSUME NEW ok \in BOOLEAN, EnableTOTP(c, ok)
      PROVE  IInv'
  <2> DEFINE u == job[c].user
             x == job[c].secret
  <2>1. pc[c] = "enable" /\ u \in Users /\ x \in Secrets
    BY <1>5, InHand DEF EnableTOTP
  <2>2. mem[u] # None /\ mem[u].role = "admin"
    BY <1>5 DEF EnableTOTP, MayEnable, IsAdmin
  <2>3. /\ mem' = [mem EXCEPT ![u].secret = x, ![u].codes = Slots]
        /\ disk' = IF ok THEN mem' ELSE disk
        /\ unsaved' = IF ok THEN {} ELSE unsaved
        /\ Goto(c, "idle", None)
        /\ UNCHANGED <<sess, sfile, waiting, drawn, raced, hurt, spent>>
    BY <1>5 DEF EnableTOTP, SetTotp, Finish
  <2>4. spent' \subseteq Secrets \X Slots /\ unsaved' \subseteq spent'
    BY <2>3 DEF TypeOK
  <2>5. x \in Secrets \cup {None} /\ x # None /\ Slots \in SUBSET Slots
    BY <2>1, NoneAssumption
  <2> HIDE DEF u, x
  <2> QED BY <1>idle, <2>1, <2>2, <2>3, <2>4, <2>5, TotpChangeKeepsIInv
<1>6. ASSUME NEW ok \in BOOLEAN, DisableTOTP(c, ok)
      PROVE  IInv'
  <2> DEFINE u == job[c].user
             K == {}
  <2>1. pc[c] = "disable" /\ u \in Users /\ mem[u] # None
    BY <1>6, InHand DEF DisableTOTP
  <2>2. /\ mem' = [mem EXCEPT ![u].secret = None, ![u].codes = K]
        /\ disk' = IF ok THEN mem' ELSE disk
        /\ unsaved' = IF ok THEN {} ELSE unsaved
        /\ Goto(c, "idle", None)
        /\ UNCHANGED <<sess, sfile, waiting, drawn, raced, hurt, spent>>
    BY <1>6 DEF DisableTOTP, SetTotp, Finish
  <2>3. spent' \subseteq Secrets \X Slots /\ unsaved' \subseteq spent'
    BY <2>2 DEF TypeOK
  <2>4. None \in Secrets \cup {None} /\ K \in SUBSET Slots /\ K = {}
    OBVIOUS
  <2> HIDE DEF u, K
  <2> QED BY <1>idle, <2>1, <2>2, <2>3, <2>4, TotpChangeKeepsIInv
<1>7. ASSUME EnableRefused(c) \/ DisableRefused(c)
      PROVE  IInv'
  <2>1. pc[c] \in {"enable", "disable"} /\ Goto(c, "idle", None) /\ Quiet
    BY <1>7 DEF EnableRefused, DisableRefused, Finish, Quiet, waiting, TypeOK
  <2> QED BY <1>idle, <2>1, QuietMoveKeepsIInv
<1> QED BY <1>2, <1>3, <1>4, <1>5, <1>6, <1>7 DEF SetUp2FA

-----------------------------------------------------------------------------
(* A restart: for a name that stays unhurt no request was about to drop    *)
(* sessions or to write that it had, so its sessions in the file are those *)
(* of memory and fitted its account there, which is the one of the file.   *)
LEMMA RestartKeepsIInv ==
  ASSUME IInv, Restart
  PROVE  IInv'
<1> USE DEF IInv, Restart
<1>1. TypeOK'
  BY DEF TypeOK, RequestOK, Places
<1>2. \A u \in Users : u \notin hurt' =>
        u \notin hurt /\ ~Dropping(pc, job, u, {"destroy"}) /\ ~Dropping(pc, job, u, {"closed"})
  BY DEF Dropping
<1>3. SessionsAreCurrent'
  <2> SUFFICES ASSUME NEW s \in Sessions, sfile[s] # None, s \notin raced,
                      sfile[s].user \notin hurt'
               PROVE  Current(disk, sfile[s])
    BY DEF SessionsAreCurrent, Current
  <2>1. sfile[s].user \in Users
    BY DEF TypeOK, Login
  <2>2. sess[s] = sfile[s]
    BY <1>2, <2>1 DEF FileIsAwaited
  <2>3. Current(mem, sfile[s])
    BY <1>2, <2>1, <2>2 DEF SessionsAreCurrent, Dropping
  <2> QED BY <1>2, <2>1, <2>3 DEF Current, FilesAgree, Same
<1>4. AlwaysAnAdmin' /\ TwoFactorIsForAdmins'
  BY DEF AlwaysAnAdmin, IsAdmin, TwoFactorIsForAdmins, OnlyAdmins2FA
<1>5. FilesAgree' /\ FileIsAwaited' /\ OpenedIsDrawn'
  BY DEF FilesAgree, Same, FileIsAwaited, OpenedIsDrawn
<1> QED BY <1>1, <1>3, <1>4, <1>5

LEMMA StepIInv == IInv /\ [Next]_vars => IInv'
<1> SUFFICES ASSUME IInv, [Next]_vars
             PROVE  IInv'
  OBVIOUS
<1>1. ASSUME NEW u \in Users, NEW r \in Roles, NEW h \in Hashes, NEW ok \in BOOLEAN,
             AddUser(u, r, h, ok)
      PROVE  IInv'
  BY <1>1, AddUserKeepsIInv
<1>2. ASSUME NEW c \in Callers, Administer(c) \/ UseSessions(c) \/ Login2FA(c) \/ SetUp2FA(c)
      PROVE  IInv'
  BY <1>2, AdministerKeepsIInv, SessionStepsKeepIInv, LoginStepsKeepIInv, SetUpStepsKeepIInv
<1>3. ASSUME NEW k \in Tokens, PendingLapses(k)
      PROVE  IInv'
  <2>1. Quiet /\ UNCHANGED <<pc, job>>
    BY <1>3 DEF PendingLapses, Quiet, IInv, TypeOK
  <2> QED BY <2>1, QuietStayKeepsIInv
<1>4. ASSUME NEW u \in Users, SetupLapses(u)
      PROVE  IInv'
  <2>1. Quiet /\ UNCHANGED <<pc, job>>
    BY <1>4 DEF SetupLapses, Quiet, IInv, TypeOK
  <2> QED BY <2>1, QuietStayKeepsIInv
<1>5. CASE UNCHANGED vars
  <2>1. Quiet /\ UNCHANGED <<pc, job>>
    BY <1>5 DEF vars, waiting, Quiet, IInv, TypeOK
  <2> QED BY <2>1, QuietStayKeepsIInv
<1> QED BY <1>1, <1>2, <1>3, <1>4, <1>5, RestartKeepsIInv DEF Next

-----------------------------------------------------------------------------
(* The inductive invariant holds in every reachable state.                 *)
THEOREM Invariance == Spec => []IInv
BY InitIInv, StepIInv, PTL DEF Spec

(* Every variable has its shape (users.go, totp.go, session.go).           *)
THEOREM TypeCorrect == Spec => []TypeOK
<1>1. IInv => TypeOK
  BY DEF IInv
<1> QED BY <1>1, Invariance, PTL

(* Nobody can take the last administrator away (users.go:186-250), whoever *)
(* else tries at the same time, also if saves fail and the server restarts.*)
THEOREM AnAdminIsLeft == Spec => []AlwaysAnAdmin
<1>1. IInv => AlwaysAnAdmin
  BY DEF IInv
<1> QED BY <1>1, Invariance, PTL

(* A session does not outlive a change of its account (users_admin.go),    *)
(* except for the named causes.                                            *)
THEOREM ChangesEndSessions == Spec => []SessionsAreCurrent
<1>1. IInv => SessionsAreCurrent
  BY DEF IInv
<1> QED BY <1>1, Invariance, PTL

(* Only administrators have two-factor (users.go:186-221, 278-310).        *)
THEOREM OnlyAdminsHaveTwoFactor == Spec => []TwoFactorIsForAdmins
<1>1. IInv => TwoFactorIsForAdmins
  BY DEF IInv
<1> QED BY <1>1, Invariance, PTL

-----------------------------------------------------------------------------
(* Recovery codes.  CodesAreSingleUse would break if a secret, and with it *)
(* its codes, came to an account a second time, or to two names.  So the   *)
(* way of a secret is followed: it waits in a set-up, is then in the hand  *)
(* of one request, and no account has or had it before that request ends.  *)
InHandOf(c) == IF pc[c] = "enable" THEN job[c].secret ELSE None

Has(us, u, x) == us[u] # None /\ us[u].secret = x

Used(x) ==
  \/ \E u \in Users : Has(mem, u, x) \/ Has(disk, u, x)
  \/ \E n \in Slots : <<x, n>> \in spent

OneOwner(us) ==
  \A x \in Secrets, u, v \in Users : Has(us, u, x) /\ Has(us, v, x) => u = v

WaitingIsNew ==
  \A x \in Secrets :
    (\E u \in Users : setups[u] = x) \/ (\E c \in Callers : InHandOf(c) = x) =>
      x \in drawn /\ ~Used(x)

WaitsOnce ==
  \A x \in Secrets :
    /\ \A u, v \in Users : setups[u] = x /\ setups[v] = x => u = v
    /\ \A c, d \in Callers : InHandOf(c) = x /\ InHandOf(d) = x => c = d
    /\ \A u \in Users, c \in Callers : ~(setups[u] = x /\ InHandOf(c) = x)

UsedIsDrawn == \A x \in Secrets : Used(x) => x \in drawn

CodeInv ==
  /\ CodesAreSingleUse /\ OneOwner(mem) /\ OneOwner(disk)
  /\ WaitingIsNew /\ WaitsOnce /\ UsedIsDrawn

(* Where a secret waits, it may only vanish.                               *)
Settled ==
  /\ drawn \subseteq drawn'
  /\ \A u \in Users : setups'[u] \in {setups[u], None}
  /\ \A c \in Callers : InHandOf(c)' \in {InHandOf(c), None}

(* Accounts keep their secret and their codes, or lose some of them.       *)
Kept(m, us) ==
  \A u \in Users : m[u] # None =>
    \/ m[u].secret = None /\ m[u].codes = {}
    \/ us[u] # None /\ m[u].secret = us[u].secret /\ m[u].codes \subseteq us[u].codes

Written ==
  \/ disk' = disk /\ unsaved' = unsaved
  \/ disk' = mem' /\ unsaved' = {}

LEMMA GotoSettles ==
  ASSUME TypeOK, NEW c \in Callers, NEW l, NEW j, Goto(c, l, j), l # "enable"
  PROVE  \A d \in Callers : InHandOf(d)' \in {InHandOf(d), None}
BY DEF TypeOK, Goto, InHandOf

LEMMA InitCodeInv == Init => CodeInv
<1> SUFFICES ASSUME Init
             PROVE  CodeInv
  OBVIOUS
<1>1. \A u \in Users : mem[u] # None => mem[u].secret = None /\ mem[u].codes = {}
  BY DEF Init, NewAccount
<1>2. disk = mem /\ spent = {}
  BY DEF Init
<1>3. \A x \in Secrets : ~Used(x)
  BY <1>1, <1>2, NoneAssumption DEF Used, Has
<1>4. CodesAreSingleUse /\ OneOwner(mem) /\ OneOwner(disk)
  BY <1>1, <1>2, NoneAssumption DEF CodesAreSingleUse, NoneLeft, OneOwner, Has
<1>5. \A u \in Users : setups[u] = None
  BY DEF Init
<1>6. \A c \in Callers : InHandOf(c) = None
  BY DEF Init, InHandOf
<1>7. WaitingIsNew /\ WaitsOnce
  BY <1>5, <1>6, NoneAssumption DEF WaitingIsNew, WaitsOnce
<1> QED BY <1>3, <1>4, <1>7 DEF CodeInv, UsedIsDrawn

(* No secret comes to an account that did not have it, so the accounts, in *)
(* memory and in the file, have no more than they had in memory or there.  *)
LEMMA KeptKeepsCodes ==
  ASSUME CodeInv, Settled, Kept(mem', mem), Written, spent' = spent
  PROVE  CodeInv'
<1>1. \A x \in Secrets, u \in Users :
        /\ Has(mem', u, x) => Has(mem, u, x)
        /\ Has(disk', u, x) => Has(mem, u, x) \/ Has(disk, u, x)
  BY NoneAssumption DEF Kept, Written, Has
<1>2. \A x \in Secrets : Used(x)' => Used(x)
  BY <1>1 DEF Used, Has
<1>3. OneOwner(mem')
  BY <1>1 DEF CodeInv, OneOwner
<1>4. OneOwner(disk')
  BY <1>3 DEF CodeInv, OneOwner, Written
<1>5. WaitingIsNew'
  BY <1>2, NoneAssumption DEF CodeInv, WaitingIsNew, Settled
<1>6. WaitsOnce'
  BY NoneAssumption DEF CodeInv, WaitsOnce, Settled
<1>7. UsedIsDrawn'
  BY <1>2 DEF CodeInv, UsedIsDrawn, Settled
<1>8. NoneLeft(mem', spent)
  BY DEF CodeInv, CodesAreSingleUse, NoneLeft, Kept
<1>9. CodesAreSingleUse'
  BY <1>8 DEF CodeInv, CodesAreSingleUse, NoneLeft, Written
<1> QED BY <1>3, <1>4, <1>5, <1>6, <1>7, <1>9, <1>1 DEF CodeInv, OneOwner

(* A set-up draws its secret.                                              *)
LEMMA PutKeepsCodes ==
  ASSUME IInv, CodeInv, NEW c \in Callers, NEW x \in Secrets, PutPendingSetup(c, x)
  PROVE  CodeInv'
<1>1. /\ x \notin drawn /\ drawn' = drawn \cup {x} /\ job[c].user \in Users
      /\ UNCHANGED <<mem, disk, spent, unsaved>>
      /\ setups' = [setups EXCEPT ![job[c].user] = x]
  BY InHand DEF IInv, PutPendingSetup, stores, history
<1>2. \A u \in Users : setups'[u] = IF u = job[c].user THEN x ELSE setups[u]
  BY <1>1 DEF IInv, TypeOK
<1>3. \A d \in Callers : InHandOf(d)' \in {InHandOf(d), None}
  BY GotoSettles DEF PutPendingSetup, Finish, IInv
<1>4. \A y \in Secrets : Used(y)' = Used(y)
  BY <1>1 DEF Used, Has
<1>5. ~Used(x) /\ (\A u \in Users : setups[u] # x) /\ (\A d \in Callers : InHandOf(d) # x)
  BY <1>1 DEF CodeInv, UsedIsDrawn, WaitingIsNew
<1>6. WaitingIsNew'
  BY <1>1, <1>2, <1>3, <1>4, <1>5, NoneAssumption DEF CodeInv, WaitingIsNew
<1>7. WaitsOnce'
  BY <1>2, <1>3, <1>5, NoneAssumption DEF CodeInv, WaitsOnce
<1>8. UsedIsDrawn'
  BY <1>1, <1>4 DEF CodeInv, UsedIsDrawn
<1>9. CodesAreSingleUse' /\ OneOwner(mem)' /\ OneOwner(disk)'
  BY <1>1 DEF CodeInv, CodesAreSingleUse, NoneLeft, OneOwner, Has
<1> QED BY <1>6, <1>7, <1>8, <1>9 DEF CodeInv

(* A request takes the secret of a set-up into its hand.                   *)
LEMMA TakeKeepsCodes ==
  ASSUME IInv, CodeInv, NEW c \in Callers, TakePendingSetup(c), setups[job[c].user] # None
  PROVE  CodeInv'
<1> DEFINE t == job[c].user
           y == setups[job[c].user]
<1>1. /\ t \in Users /\ y \in Secrets /\ pc[c] = "confirm"
      /\ UNCHANGED <<mem, disk, spent, unsaved, drawn>>
      /\ setups' = [setups EXCEPT ![t] = None]
      /\ Goto(c, "enable", [For(t) EXCEPT !.secret = y])
  BY InHand DEF IInv, TypeOK, TakePendingSetup, stores, history
<1>2. [For(t) EXCEPT !.secret = y].secret = y
  BY <1>1, JobsAreOK
<1>3. \A d \in Callers : InHandOf(d)' = IF d = c THEN y ELSE InHandOf(d)
  BY <1>1, <1>2 DEF Goto, InHandOf, IInv, TypeOK
<1>4. \A u \in Users : setups'[u] = IF u = t THEN None ELSE setups[u]
  BY <1>1 DEF IInv, TypeOK
<1>5. \A x \in Secrets : Used(x)' = Used(x)
  BY <1>1 DEF Used, Has
<1>6. setups[t] = y
  OBVIOUS
<1> HIDE DEF t, y
<1>7. WaitingIsNew'
  BY <1>1, <1>3, <1>4, <1>5, <1>6, NoneAssumption DEF CodeInv, WaitingIsNew
<1>8. WaitsOnce'
  BY <1>1, <1>3, <1>4, <1>6, NoneAssumption DEF CodeInv, WaitsOnce
<1>9. UsedIsDrawn' /\ CodesAreSingleUse' /\ OneOwner(mem)' /\ OneOwner(disk)'
  BY <1>1, <1>5 DEF CodeInv, UsedIsDrawn, CodesAreSingleUse, NoneLeft, OneOwner, Has
<1> QED BY <1>7, <1>8, <1>9 DEF CodeInv

(* The secret in hand comes to an account: nobody has had it.              *)
LEMMA EnableKeepsCodes ==
  ASSUME IInv, CodeInv, NEW c \in Callers, NEW ok \in BOOLEAN, EnableTOTP(c, ok)
  PROVE  CodeInv'
<1> DEFINE t == job[c].user
           y == job[c].secret
<1>1. /\ t \in Users /\ y \in Secrets /\ InHandOf(c) = y /\ mem[t] # None
      /\ mem' = [mem EXCEPT ![t].secret = y, ![t].codes = Slots]
      /\ disk' = IF ok THEN mem' ELSE disk
      /\ unsaved' = IF ok THEN {} ELSE unsaved
      /\ UNCHANGED <<setups, spent, drawn>> /\ Goto(c, "idle", None)
  BY InHand DEF IInv, EnableTOTP, InHandOf, SetTotp, MayEnable, IsAdmin, Finish, waiting
<1>2. /\ mem'[t].secret = y
      /\ \A u \in Users \ {t} : mem'[u] = mem[u]
  <2>1. mem[t] \in Account
    BY <1>1 DEF IInv, TypeOK
  <2>2. mem'[t] = [mem[t] EXCEPT !.secret = y, !.codes = Slots]
    BY <1>1 DEF IInv, TypeOK
  <2>3. \A u \in Users \ {t} : mem'[u] = mem[u]
    BY <1>1 DEF IInv, TypeOK
  <2> QED BY <2>1, <2>2, <2>3 DEF Account
<1>3. ~Used(y) /\ y \in drawn
  BY <1>1 DEF CodeInv, WaitingIsNew
<1>4. /\ InHandOf(c)' = None
      /\ \A d \in Callers \ {c} : InHandOf(d)' = InHandOf(d)
  BY <1>1 DEF Goto, InHandOf, IInv, TypeOK
<1>5. \A d \in Callers \ {c} : InHandOf(d) # y
  BY <1>1 DEF CodeInv, WaitsOnce
<1>6. \A u \in Users : setups[u] # y
  BY <1>1 DEF CodeInv, WaitsOnce
<1> HIDE DEF t, y
<1>7. \A x \in Secrets, u \in Users : Has(mem', u, x) => Has(mem, u, x) \/ (x = y /\ u = t)
  BY <1>1, <1>2 DEF Has
<1>8. \A x \in Secrets : Used(x)' => Used(x) \/ x = y
  BY <1>1, <1>7 DEF Used, Has
<1>9. WaitingIsNew'
  BY <1>1, <1>4, <1>5, <1>6, <1>8, NoneAssumption DEF CodeInv, WaitingIsNew
<1>10. WaitsOnce'
  BY <1>1, <1>4, NoneAssumption DEF CodeInv, WaitsOnce
<1>11. UsedIsDrawn'
  BY <1>1, <1>3, <1>8 DEF CodeInv, UsedIsDrawn
<1>12. OneOwner(mem')
  BY <1>3, <1>7 DEF CodeInv, OneOwner, Used
<1>13. OneOwner(disk')
  BY <1>1, <1>12 DEF CodeInv
<1>14. NoneLeft(mem', spent)
  BY <1>1, <1>2, <1>3 DEF CodeInv, CodesAreSingleUse, NoneLeft, Used, IInv, TypeOK
<1>15. CodesAreSingleUse'
  BY <1>1, <1>14 DEF CodeInv, CodesAreSingleUse, NoneLeft
<1>16. OneOwner(mem)' /\ OneOwner(disk)'
  BY <1>12, <1>13 DEF OneOwner, Has
<1> QED BY <1>9, <1>10, <1>11, <1>15, <1>16 DEF CodeInv

(* A code is used: it leaves the only account that had it, and as long as  *)
(* the file may still have it, it counts as unsaved.                       *)
LEMMA ConsumeKeepsCodes ==
  ASSUME IInv, CodeInv, NEW c \in Callers, NEW n \in Slots, NEW ok \in BOOLEAN,
         ConsumeRecoveryCode(c, n, ok)
  PROVE  CodeInv'
<1> DEFINE t == job[c].user
           y == mem[t].secret
<1>1. /\ t \in Users /\ mem[t] # None /\ n \in mem[t].codes
      /\ mem' = [mem EXCEPT ![t].codes = @ \ {n}]
      /\ disk' = IF ok THEN mem' ELSE disk
      /\ spent' = spent \cup {<<y, n>>}
      /\ unsaved' = IF ok THEN {} ELSE unsaved \cup {<<y, n>>}
      /\ UNCHANGED <<setups, drawn>> /\ Goto(c, Verified(c), job[c])
  BY InHand DEF IInv, ConsumeRecoveryCode, waiting
<1>2. mem[t] \in Account
  BY <1>1 DEF IInv, TypeOK
<1>3. y \in Secrets
  BY <1>1, <1>2 DEF IInv, TwoFactorIsForAdmins, OnlyAdmins2FA, Account
<1>4. /\ mem'[t].secret = y /\ mem'[t].codes = mem[t].codes \ {n}
      /\ \A u \in Users \ {t} : mem'[u] = mem[u]
  <2>1. mem'[t] = [mem[t] EXCEPT !.codes = mem[t].codes \ {n}]
    BY <1>1 DEF IInv, TypeOK
  <2>2. \A u \in Users \ {t} : mem'[u] = mem[u]
    BY <1>1 DEF IInv, TypeOK
  <2> QED BY <1>2, <2>1, <2>2 DEF Account
<1>5. \A d \in Callers : InHandOf(d)' \in {InHandOf(d), None}
  BY <1>1, GotoSettles DEF Verified, IInv
<1>6. Has(mem, t, y)
  BY <1>1 DEF Has
<1> HIDE DEF t, y
<1>7. \A x \in Secrets, u \in Users : Has(mem', u, x) => Has(mem, u, x)
  BY <1>1, <1>4, <1>6 DEF Has
<1>8. \A x \in Secrets : Used(x)' => Used(x)
  BY <1>1, <1>6, <1>7 DEF Used, Has
<1>9. WaitingIsNew' /\ UsedIsDrawn'
  BY <1>1, <1>5, <1>8, NoneAssumption DEF CodeInv, WaitingIsNew, UsedIsDrawn
<1>10. WaitsOnce'
  BY <1>1, <1>5, NoneAssumption DEF CodeInv, WaitsOnce
<1>11. OneOwner(mem')
  BY <1>7 DEF CodeInv, OneOwner
<1>12. OneOwner(mem)' /\ OneOwner(disk)'
  BY <1>1, <1>11 DEF CodeInv, OneOwner, Has
<1>13. \A u \in Users \ {t} : mem[u] # None => mem[u].secret # y
  BY <1>1, <1>3, <1>6 DEF CodeInv, OneOwner, Has
<1>14. NoneLeft(mem', spent')
  <2> SUFFICES ASSUME NEW u \in Users, mem'[u] # None, NEW i \in mem'[u].codes,
                      <<mem'[u].secret, i>> \in spent'
               PROVE  FALSE
    BY DEF NoneLeft
  <2>1. mem[u] # None /\ mem'[u].secret = mem[u].secret /\ i \in mem[u].codes
    BY <1>1, <1>4, <1>6 DEF Has
  <2>2. <<mem'[u].secret, i>> \notin spent
    BY <2>1 DEF CodeInv, CodesAreSingleUse, NoneLeft
  <2>3. mem[u].secret = y /\ i = n
    BY <1>1, <2>1, <2>2
  <2>4. u = t
    BY <1>13, <2>1, <2>3
  <2> QED BY <1>4, <2>3, <2>4
<1>15. NoneLeft(disk', spent' \ unsaved')
  BY <1>1, <1>14 DEF CodeInv, CodesAreSingleUse, NoneLeft
<1> QED BY <1>9, <1>10, <1>12, <1>14, <1>15 DEF CodeInv, CodesAreSingleUse, NoneLeft

(* After a restart the accounts are those of the file, and nothing waits.  *)
LEMMA RestartKeepsCodes ==
  ASSUME IInv, CodeInv, Restart
  PROVE  CodeInv'
<1>1. /\ mem' = disk /\ disk' = disk /\ spent' = spent \ unsaved /\ unsaved' = {}
      /\ drawn' = drawn
      /\ \A u \in Users : setups'[u] = None
      /\ \A c \in Callers : InHandOf(c)' = None
  BY DEF Restart, InHandOf
<1>2. \A x \in Secrets : Used(x)' => Used(x)
  BY <1>1 DEF Used, Has
<1>3. WaitingIsNew' /\ WaitsOnce' /\ UsedIsDrawn'
  BY <1>1, <1>2, NoneAssumption DEF CodeInv, WaitingIsNew, WaitsOnce, UsedIsDrawn
<1>4. CodesAreSingleUse' /\ OneOwner(mem)' /\ OneOwner(disk)'
  BY <1>1 DEF CodeInv, CodesAreSingleUse, NoneLeft, OneOwner, Has
<1> QED BY <1>3, <1>4 DEF CodeInv

(* The handlers that change an account give nobody a secret.               *)
LEMMA ChangeKeepsCodes ==
  ASSUME IInv, CodeInv, NEW c \in Callers, NEW u \in Users, NEW ok \in BOOLEAN, NEW m,
         Change(c, u, m, ok), Kept(m, mem), drawn \subseteq drawn'
  PROVE  CodeInv'
<1>1. \A d \in Callers : InHandOf(d)' \in {InHandOf(d), None}
  <2>1. CASE ok
    BY <2>1, GotoSettles DEF Change, IInv
  <2>2. CASE ~ok
    BY <2>2 DEF Change, InHandOf
  <2> QED BY <2>1, <2>2
<1>2. Settled /\ mem' = m /\ Written /\ spent' = spent
  BY <1>1 DEF Change, Save, Settled, Written, waiting
<1> QED BY <1>2, KeptKeepsCodes

LEMMA AdministerKeepsCodes ==
  ASSUME IInv, CodeInv, NEW c \in Callers, Administer(c)
  PROVE  CodeInv'
<1> PICK u \in Users, ok \in BOOLEAN :
       \/ \E h \in Hashes : SetPassword(c, u, h, ok)
       \/ \E r \in Roles : SetRole(c, u, r, ok)
       \/ DeleteUser(c, u, ok)
  BY DEF Administer
<1>1. ASSUME NEW h \in Hashes, SetPassword(c, u, h, ok)
      PROVE  CodeInv'
  <2> DEFINE m == [mem EXCEPT ![u].hash = h]
  <2>1. mem[u] \in Account /\ mem[u] # None
    BY <1>1 DEF SetPassword, Change, IInv, TypeOK
  <2>2. m[u].secret = mem[u].secret /\ m[u].codes = mem[u].codes
    BY <2>1 DEF Account, IInv, TypeOK
  <2>3. Kept(m, mem)
    BY <2>1, <2>2 DEF Kept, IInv, TypeOK
  <2>4. Change(c, u, m, ok) /\ drawn \subseteq drawn'
    BY <1>1 DEF SetPassword
  <2> HIDE DEF m
  <2> QED BY <2>3, <2>4, ChangeKeepsCodes
<1>2. ASSUME NEW r \in Roles, SetRole(c, u, r, ok)
      PROVE  CodeInv'
  <2> DEFINE m == WithRole(u, r)
  <2>1. mem[u] \in Account /\ mem[u] # None
    BY <1>2 DEF SetRole, Change, IInv, TypeOK
  <2>2. IF r = "admin" THEN m[u].secret = mem[u].secret /\ m[u].codes = mem[u].codes
                       ELSE m[u].secret = None /\ m[u].codes = {}
    BY <2>1 DEF WithRole, NewAccount, Account, IInv, TypeOK
  <2>3. \A v \in Users \ {u} : m[v] = mem[v]
    BY DEF WithRole, IInv, TypeOK
  <2>4. Change(c, u, m, ok) /\ drawn \subseteq drawn'
    BY <1>2 DEF SetRole
  <2> HIDE DEF m
  <2>5. Kept(m, mem)
    BY <2>1, <2>2, <2>3 DEF Kept
  <2> QED BY <2>4, <2>5, ChangeKeepsCodes
<1>3. ASSUME DeleteUser(c, u, ok)
      PROVE  CodeInv'
  <2>1. Kept([mem EXCEPT ![u] = None], mem)
    BY DEF Kept, IInv, TypeOK
  <2>2. Change(c, u, [mem EXCEPT ![u] = None], ok) /\ drawn \subseteq drawn'
    BY <1>3 DEF DeleteUser
  <2> QED BY <2>1, <2>2, ChangeKeepsCodes
<1> QED BY <1>1, <1>2, <1>3

(* Steps that leave the accounts alone.                                    *)
Elsewhere == UNCHANGED <<mem, disk, spent, unsaved>> /\ Settled

LEMMA ElsewhereKeepsCodes ==
  ASSUME CodeInv, Elsewhere
  PROVE  CodeInv'
<1>1. Kept(mem', mem) /\ Written /\ spent' = spent
  BY DEF Kept, Elsewhere, Written
<1> QED BY <1>1, KeptKeepsCodes DEF Elsewhere

LEMMA StepCodeInv == IInv /\ CodeInv /\ [Next]_vars => CodeInv'
<1> SUFFICES ASSUME IInv, CodeInv, [Next]_vars
             PROVE  CodeInv'
  OBVIOUS
<1>1. ASSUME NEW u \in Users, NEW r \in Roles, NEW h \in Hashes, NEW ok \in BOOLEAN,
             AddUser(u, r, h, ok)
      PROVE  CodeInv'
  <2>1. mem' = [mem EXCEPT ![u] = NewAccount(r, h)]
    BY <1>1 DEF AddUser, Save
  <2>2. Kept(mem', mem)
    BY <2>1 DEF Kept, NewAccount, IInv, TypeOK
  <2>3. Settled /\ Written /\ spent' = spent
    BY <1>1 DEF AddUser, Save, Settled, Written, waiting, InHandOf
  <2> QED BY <2>2, <2>3, KeptKeepsCodes
<1>2. ASSUME NEW c \in Callers, NEW l, NEW j, Goto(c, l, j), l # "enable",
             UNCHANGED <<mem, disk, spent, unsaved>>, drawn \subseteq drawn',
             \A u \in Users : setups'[u] \in {setups[u], None}
      PROVE  CodeInv'
  BY <1>2, GotoSettles, ElsewhereKeepsCodes DEF Elsewhere, Settled, IInv
<1>3. ASSUME NEW c \in Callers, UseSessions(c)
      PROVE  CodeInv'
  <2>1. ASSUME NEW s \in Sessions, CreateSession(c, s) \/ Logout(c, s)
        PROVE  CodeInv'
    BY <1>2, <2>1 DEF CreateSession, Logout, waiting, history
  <2>2. ASSUME NEW u \in Users, Authenticate(c, u)
        PROVE  CodeInv'
    BY <1>2, <2>2 DEF Authenticate, stores, waiting, history
  <2>3. ASSUME NoCodeNeeded(c) \/ DestroyByUsername(c)
        PROVE  CodeInv'
    BY <1>2, <2>3 DEF NoCodeNeeded, DestroyByUsername, Finish, stores, waiting, history
  <2>4. ASSUME Persist(c) \/ PersistFails(c)
        PROVE  CodeInv'
    BY <1>2, <2>4 DEF Persist, PersistFails, Finish, stores, waiting, history
  <2> QED BY <1>3, <2>1, <2>2, <2>3, <2>4 DEF UseSessions
<1>4. ASSUME NEW c \in Callers, Login2FA(c)
      PROVE  CodeInv'
  <2>1. ASSUME NEW k \in Tokens, DemandCode(c, k) \/ TakePending(c, k) \/ RejectLogin(c, k)
        PROVE  CodeInv'
    BY <1>2, <2>1 DEF DemandCode, TakePending, RejectLogin, Finish, stores, history
  <2>2. ASSUME CodeValid(c) \/ TryRecoveryCode(c) \/ RejectDisable(c)
        PROVE  CodeInv'
    BY <1>2, <2>2 DEF CodeValid, TryRecoveryCode, RejectDisable, Verified, Finish, stores,
                      waiting, history
  <2> QED BY <1>4, <2>1, <2>2, ConsumeKeepsCodes DEF Login2FA
<1>5. ASSUME NEW c \in Callers, SetUp2FA(c)
      PROVE  CodeInv'
  <2>1. ASSUME NEW u \in Users, BeginSetup(c, u) \/ PeekPendingSetup(c, u) \/ BeginDisable(c, u)
        PROVE  CodeInv'
    BY <1>2, <2>1 DEF BeginSetup, PeekPendingSetup, BeginDisable, stores, waiting, history
  <2>2. ASSUME TakePendingSetup(c), setups[job[c].user] = None
        PROVE  CodeInv'
    BY <1>2, <2>2 DEF TakePendingSetup, Finish, stores, history, IInv, TypeOK
  <2>3. ASSUME NEW ok \in BOOLEAN, DisableTOTP(c, ok)
        PROVE  CodeInv'
    <3>1. mem' = [mem EXCEPT ![job[c].user].secret = None, ![job[c].user].codes = {}]
          /\ job[c].user \in Users /\ mem[job[c].user] # None
      BY <2>3, InHand DEF DisableTOTP, SetTotp, IInv
    <3>2. mem[job[c].user] \in Account
      BY <3>1 DEF IInv, TypeOK
    <3>3. mem'[job[c].user] = [mem[job[c].user] EXCEPT !.secret = None, !.codes = {}]
          /\ \A u \in Users \ {job[c].user} : mem'[u] = mem[u]
      BY <3>1 DEF IInv, TypeOK
    <3>4. mem'[job[c].user].secret = None /\ mem'[job[c].user].codes = {}
      BY <3>2, <3>3 DEF Account
    <3>5. Kept(mem', mem)
      BY <3>3, <3>4 DEF Kept
    <3>6. Settled /\ Written /\ spent' = spent
      BY <2>3, GotoSettles DEF DisableTOTP, SetTotp, Finish, Settled, Written, waiting, IInv
    <3> QED BY <3>5, <3>6, KeptKeepsCodes
  <2>4. ASSUME EnableRefused(c) \/ DisableRefused(c)
        PROVE  CodeInv'
    BY <1>2, <2>4 DEF EnableRefused, DisableRefused, Finish, stores, waiting, history
  <2> QED
    BY <1>5, <2>1, <2>2, <2>3, <2>4, PutKeepsCodes, TakeKeepsCodes, EnableKeepsCodes
    DEF SetUp2FA
<1>6. ASSUME (\E k \in Tokens : PendingLapses(k)) \/ (\E u \in Users : SetupLapses(u))
             \/ UNCHANGED vars
      PROVE  CodeInv'
  <2>1. Elsewhere
    BY <1>6 DEF PendingLapses, SetupLapses, vars, stores, waiting, history, Elsewhere, Settled,
                InHandOf, IInv, TypeOK
  <2> QED BY <2>1, ElsewhereKeepsCodes
<1>7. ASSUME NEW c \in Callers, Administer(c)
      PROVE  CodeInv'
  BY <1>7, AdministerKeepsCodes
<1> QED BY <1>1, <1>3, <1>4, <1>5, <1>6, <1>7, RestartKeepsCodes DEF Next

(* A recovery code that was accepted is in no account any more (users.go   *)
(* consumeRecoveryCode), in memory or in a file that a save reached since, *)
(* whatever was set up, switched off, saved or read back in between.       *)
THEOREM CodesWorkOnce == Spec => []CodesAreSingleUse
<1>1. Spec => []CodeInv
  BY Invariance, InitCodeInv, StepCodeInv, PTL DEF Spec
<1>2. CodeInv => CodesAreSingleUse
  BY DEF CodeInv
<1> QED BY <1>1, <1>2, PTL
==============================================================================
