------------------------ MODULE SessionStore_proofs ------------------------
(***************************************************************************)
(* Proofs about SessionStore, for any sets of sessions, users and callers. *)
(*                                                                         *)
(* The properties are about the file, but a write is decided long before   *)
(* it happens: when the copy of the map is taken.  The inductive invariant *)
(* therefore says what the copy of the one caller that holds persistMu     *)
(* knows, and who is still waiting to write what the copy does not know.   *)
(***************************************************************************)
EXTENDS SessionStore, TLAPS

(* Only the holder of persistMu is past LockPersist.                       *)
OneWriter == \A c \in Callers : pc[c] \in {"copy", "write"} => writer = c

(* The copy being written has every good session of the file, and the      *)
(* login of its own caller, unless it was removed or expired since.        *)
CopyKeepsLogins ==
  \A c \in Callers : pc[c] = "write" =>
    /\ (disk \cap mem) \ lapsed \subseteq snap[c]
    /\ op[c] = "login" => (ids[c] \cap mem) \ lapsed \subseteq snap[c]

(* What a caller removed is not in the map, nor in the copy it writes; no  *)
(* copy has a session whose removal was written.                           *)
CopyOmitsLogouts ==
  \A c \in Callers :
    /\ op[c] = "logout" => ids[c] \cap mem = {}
    /\ op[c] = "logout" /\ pc[c] = "write" => ids[c] \cap snap[c] = {}
    /\ pc[c] = "write" => snap[c] \cap out = {}

(* A session the copy and the map disagree on belongs to a caller that has *)
(* still to take persistMu; one the file and the map disagree on, after a  *)
(* write that succeeded, to a caller that has still to write.              *)
Differs(s, A, B) == s \notin lapsed /\ ((s \in A \ B) \/ (s \in B \ A))

ChangesAreAwaited ==
  /\ \A c \in Callers, s \in Sessions :
       pc[c] = "write" /\ Differs(s, mem, snap[c]) =>
         \E d \in Callers : pc[d] = "lock" /\ s \in ids[d]
  /\ \A s \in Sessions : lastOk /\ Differs(s, mem, disk) =>
       \E d \in Callers : pc[d] # "idle" /\ s \in ids[d]

IInv ==
  /\ TypeOK
  /\ OneWriter
  /\ CopyKeepsLogins
  /\ CopyOmitsLogouts
  /\ ChangesAreAwaited
  /\ LoginIsDurable
  /\ LogoutIsFinal

(* What the five calls that change the map have in common.                 *)
Change(c, o, S) ==
  /\ Persist(c, o, S)
  /\ UNCHANGED history
  /\ \/ /\ o = "login"
        /\ S \subseteq Sessions \ used
        /\ used' = used \cup S
        /\ mem' = mem \cup S
     \/ /\ o \in {"logout", "clean"}
        /\ S \subseteq mem
        /\ used' = used
        /\ mem' = mem \ S

(* create, destroy, destroyByUsername, the expired branch of get and reap  *)
(* are changes of the map: session.go:128-231.                             *)
LEMMA CallsAreChanges ==
  ASSUME NEW c \in Callers
  PROVE  /\ \A s \in Sessions : Login(c, s) => Change(c, "login", {s})
         /\ \A s \in Sessions : Logout(c, s) => Change(c, "logout", {s})
         /\ \A u \in Users : DestroyByUsername(c, u) =>
              Change(c, "logout", {s \in mem : Owner[s] = u})
         /\ \A s \in Sessions : GetExpired(c, s) => Change(c, "clean", {s})
         /\ Reap(c) => Change(c, "clean", mem \cap lapsed)
BY DEF Login, Logout, DestroyByUsername, GetExpired, Reap, Change

(* Every variable keeps its shape (session.go:23-36).                      *)
LEMMA TypeStep == TypeOK /\ [Next]_vars => TypeOK'
<1> SUFFICES ASSUME TypeOK, [Next]_vars PROVE TypeOK'
  OBVIOUS
<1> USE DEF TypeOK
<1>1. ASSUME NEW c \in Callers, NEW o \in {"login", "logout", "clean"},
             NEW S, Change(c, o, S)
      PROVE TypeOK'
  <2>1. used \subseteq used' /\ used' \subseteq Sessions /\ S \subseteq used'
    BY <1>1 DEF Change
  <2>2. mem' \subseteq used'
    BY <1>1 DEF Change
  <2>3. pc' \in [Callers -> {"idle", "lock", "copy", "write"}]
    BY <1>1 DEF Change, Persist, Goto
  <2>4. op' \in [Callers -> {"login", "logout", "clean"}]
    BY <1>1 DEF Change, Persist
  <2>5. ids' \in [Callers -> SUBSET used'] /\ snap' \in [Callers -> SUBSET used']
    BY <1>1, <2>1 DEF Change, Persist
  <2>6. writer' # None => pc'[writer'] \in {"copy", "write"}
    BY <1>1 DEF Change, Persist, Goto
  <2> QED
    BY <1>1, <2>1, <2>2, <2>3, <2>4, <2>5, <2>6 DEF Change, Persist, history
<1>3. ASSUME NEW c \in Callers, LockPersist(c) PROVE TypeOK'
  BY <1>3 DEF LockPersist, Goto, history
<1>4. ASSUME NEW c \in Callers, CopyMap(c) PROVE TypeOK'
  BY <1>4 DEF CopyMap, Goto, history
<1>5. ASSUME NEW c \in Callers, WriteDone(c) PROVE TypeOK'
  BY <1>5 DEF WriteDone, Return, Goto
<1>6. ASSUME NEW c \in Callers, WriteFails(c) PROVE TypeOK'
  BY <1>6 DEF WriteFails, Return, Goto
<1>7. ASSUME NEW s \in Sessions, Lapse(s) PROVE TypeOK'
  BY <1>7 DEF Lapse, history
<1>8. ASSUME Restart PROVE TypeOK'
  BY <1>8 DEF Restart, history
<1>9. CASE UNCHANGED vars
  BY <1>9 DEF vars
<1> QED
  BY <1>1, <1>3, <1>4, <1>5, <1>6, <1>7, <1>8, <1>9, CallsAreChanges
  DEF Next, Step

(* A change of the map keeps the invariant: the caller that changed it is  *)
(* now waiting for persistMu, and new ids are in no file and no copy.      *)
LEMMA ChangeKeepsIInv ==
  ASSUME IInv, TypeOK', NEW c \in Callers, NEW o, NEW S, Change(c, o, S)
  PROVE  IInv'
<1> USE DEF IInv, TypeOK
<1>0. /\ pc[c] = "idle" /\ pc' = [pc EXCEPT ![c] = "lock"]
      /\ op' = [op EXCEPT ![c] = o] /\ ids' = [ids EXCEPT ![c] = S]
      /\ UNCHANGED <<disk, lapsed, writer, snap, lastOk, in, out>>
  BY DEF Change, Persist, Goto, history
<1>1. \A d \in Callers : d # c => pc'[d] = pc[d] /\ op'[d] = op[d] /\ ids'[d] = ids[d]
  BY <1>0
<1>2. pc'[c] = "lock" /\ op'[c] = o /\ ids'[c] = S
  BY <1>0
<1>3. (mem' = mem \cup S /\ S \cap used = {} /\ o = "login") \/ (mem' = mem \ S /\ S \subseteq mem)
  BY DEF Change
<1>4. OneWriter'
  BY <1>0, <1>1, <1>2 DEF OneWriter
<1>5. CopyKeepsLogins'
  <2> SUFFICES ASSUME NEW d \in Callers, pc'[d] = "write"
               PROVE  /\ (disk' \cap mem') \ lapsed' \subseteq snap'[d]
                      /\ op'[d] = "login" => (ids'[d] \cap mem') \ lapsed' \subseteq snap'[d]
    BY DEF CopyKeepsLogins
  <2>1. d # c /\ pc[d] = "write" /\ ids[d] \subseteq used
    BY <1>1, <1>2
  <2> QED
    BY <2>1, <1>0, <1>1, <1>3 DEF CopyKeepsLogins
<1>6. CopyOmitsLogouts'
  <2> SUFFICES ASSUME NEW d \in Callers
               PROVE  /\ op'[d] = "logout" => ids'[d] \cap mem' = {}
                      /\ op'[d] = "logout" /\ pc'[d] = "write" => ids'[d] \cap snap'[d] = {}
                      /\ pc'[d] = "write" => snap'[d] \cap out' = {}
    BY DEF CopyOmitsLogouts
  <2>1. CASE d = c
    BY <2>1, <1>2, <1>3 DEF CopyOmitsLogouts
  <2>2. CASE d # c
    BY <2>2, <1>0, <1>1, <1>3 DEF CopyOmitsLogouts
  <2> QED
    BY <2>1, <2>2
<1>7. ChangesAreAwaited'
  <2>1. ASSUME NEW d \in Callers, NEW s \in Sessions,
               pc'[d] = "write", Differs(s, mem, snap[d])'
        PROVE  \E e \in Callers : pc'[e] = "lock" /\ s \in ids'[e]
    <3>1. pc[d] = "write" /\ snap'[d] = snap[d]
      BY <2>1, <1>0, <1>1, <1>2
    <3>2. CASE s \in S
      BY <3>2, <1>2
    <3>3. CASE s \notin S
      <4>1. Differs(s, mem, snap[d])
        BY <2>1, <3>1, <3>3, <1>0, <1>3 DEF Differs
      <4>2. PICK e \in Callers : pc[e] = "lock" /\ s \in ids[e]
        BY <3>1, <4>1 DEF ChangesAreAwaited
      <4> QED
        BY <4>2, <1>0, <1>1
    <3> QED
      BY <3>2, <3>3
  <2>2. ASSUME NEW s \in Sessions, lastOk', Differs(s, mem, disk)'
        PROVE  \E e \in Callers : pc'[e] # "idle" /\ s \in ids'[e]
    <3>1. CASE s \in S
      BY <3>1, <1>2
    <3>2. CASE s \notin S
      <4>1. lastOk /\ Differs(s, mem, disk)
        BY <2>2, <3>2, <1>0, <1>3 DEF Differs
      <4>2. PICK e \in Callers : pc[e] # "idle" /\ s \in ids[e]
        BY <4>1 DEF ChangesAreAwaited
      <4> QED
        BY <4>2, <1>0, <1>1
    <3> QED
      BY <3>1, <3>2
  <2> QED
    BY <2>1, <2>2 DEF ChangesAreAwaited
<1>8. LoginIsDurable'
  BY <1>0, <1>3 DEF LoginIsDurable
<1>9. LogoutIsFinal'
  BY <1>0, <1>3 DEF LogoutIsFinal
<1> QED
  BY <1>4, <1>5, <1>6, <1>7, <1>8, <1>9

(* Taking persistMu: the caller still counts as one that has to write.     *)
LEMMA LockKeepsIInv ==
  ASSUME IInv, TypeOK', NEW c \in Callers, LockPersist(c)
  PROVE  IInv'
<1> USE DEF IInv, TypeOK, LockPersist, Goto, history
<1>1. \A d \in Callers : pc'[d] = IF d = c THEN "copy" ELSE pc[d]
  OBVIOUS
<1>2. \A d \in Callers : pc[d] \notin {"copy", "write"}
  BY NoneAssumption DEF OneWriter
<1>3. OneWriter'
  BY <1>1, <1>2 DEF OneWriter
<1>4. CopyKeepsLogins' /\ CopyOmitsLogouts'
  BY <1>1, <1>2 DEF CopyKeepsLogins, CopyOmitsLogouts
<1>5. ChangesAreAwaited'
  BY <1>1, <1>2 DEF ChangesAreAwaited, Differs
<1>6. LoginIsDurable' /\ LogoutIsFinal'
  BY DEF LoginIsDurable, LogoutIsFinal
<1> QED
  BY <1>3, <1>4, <1>5, <1>6

(* Copying the map: the copy is the map, so nothing differs from it.       *)
LEMMA CopyKeepsIInv ==
  ASSUME IInv, TypeOK', NEW c \in Callers, CopyMap(c)
  PROVE  IInv'
<1> USE DEF IInv, TypeOK, CopyMap, Goto, history
<1>1. \A d \in Callers : pc'[d] = IF d = c THEN "write" ELSE pc[d]
  OBVIOUS
<1>2. snap'[c] = mem \ lapsed
  OBVIOUS
<1>3. \A d \in Callers : pc'[d] = "write" => d = c
  BY <1>1 DEF OneWriter
<1>4. OneWriter'
  BY <1>1 DEF OneWriter
<1>5. CopyKeepsLogins'
  BY <1>2, <1>3 DEF CopyKeepsLogins
<1>6. CopyOmitsLogouts'
  BY <1>1, <1>2, <1>3 DEF CopyOmitsLogouts, LogoutIsFinal
<1>7. ChangesAreAwaited'
  BY <1>1, <1>2, <1>3 DEF ChangesAreAwaited, Differs
<1>8. LoginIsDurable' /\ LogoutIsFinal'
  BY DEF LoginIsDurable, LogoutIsFinal
<1> QED
  BY <1>4, <1>5, <1>6, <1>7, <1>8

(* The end of persist, whether the write succeeded or not: the caller gives *)
(* persistMu back, so nobody is writing.                                   *)
LEMMA WriteKeepsIInv ==
  ASSUME IInv, TypeOK', NEW c \in Callers, WriteDone(c) \/ WriteFails(c)
  PROVE  IInv'
<1> USE DEF IInv, TypeOK
<1>0. /\ pc[c] = "write" /\ Return(c) /\ UNCHANGED <<used, mem, lapsed>>
      /\ \/ /\ lastOk' = TRUE /\ disk' = snap[c]
            /\ in' = IF op[c] = "login" THEN in \cup ids[c] ELSE in
            /\ out' = IF op[c] = "logout" THEN out \cup ids[c] ELSE out
         \/ lastOk' = FALSE /\ UNCHANGED <<disk, in, out>>
  BY DEF WriteDone, WriteFails
<1>1. \A d \in Callers :
        /\ pc'[d] = IF d = c THEN "idle" ELSE pc[d]
        /\ op'[d] = IF d = c THEN "clean" ELSE op[d]
        /\ ids'[d] = IF d = c THEN {} ELSE ids[d]
  BY <1>0 DEF Return, Goto
<1>2. \A d \in Callers : pc'[d] \notin {"copy", "write"}
  BY <1>0, <1>1 DEF OneWriter
<1>3. OneWriter' /\ CopyKeepsLogins'
  BY <1>2 DEF OneWriter, CopyKeepsLogins
<1>4. CopyOmitsLogouts'
  BY <1>0, <1>1, <1>2 DEF CopyOmitsLogouts
<1>5. ChangesAreAwaited'
  <2>1. ASSUME NEW s \in Sessions, lastOk', Differs(s, mem, disk)'
        PROVE  \E d \in Callers : pc'[d] # "idle" /\ s \in ids'[d]
    <3>1. Differs(s, mem, snap[c])
      BY <2>1, <1>0 DEF Differs
    <3>2. PICK d \in Callers : pc[d] = "lock" /\ s \in ids[d]
      BY <3>1, <1>0 DEF ChangesAreAwaited
    <3> QED
      BY <3>2, <1>0, <1>1
  <2> QED
    BY <2>1, <1>2 DEF ChangesAreAwaited
<1>6. LoginIsDurable'
  BY <1>0 DEF LoginIsDurable, CopyKeepsLogins
<1>7. LogoutIsFinal'
  BY <1>0 DEF LogoutIsFinal, CopyOmitsLogouts
<1> QED
  BY <1>3, <1>4, <1>5, <1>6, <1>7

(* Time passes.                                                            *)
LEMMA OthersKeepIInv ==
  ASSUME IInv, TypeOK',
         \/ \E s \in Sessions : Lapse(s)
         \/ UNCHANGED vars
  PROVE  IInv'
<1> USE DEF IInv
<1>1. /\ UNCHANGED <<mem, disk, writer, pc, op, ids, snap, lastOk, in, out>>
      /\ lapsed \subseteq lapsed'
  BY DEF Lapse, vars, history
<1>2. OneWriter' /\ CopyKeepsLogins' /\ CopyOmitsLogouts'
  BY <1>1 DEF OneWriter, CopyKeepsLogins, CopyOmitsLogouts
<1>3. ChangesAreAwaited'
  BY <1>1 DEF ChangesAreAwaited, Differs
<1>4. LoginIsDurable' /\ LogoutIsFinal'
  BY <1>1 DEF LoginIsDurable, LogoutIsFinal
<1> QED
  BY <1>2, <1>3, <1>4

(* A restart: the map is what the file has and is still good.              *)
LEMMA RestartKeepsIInv ==
  ASSUME IInv, TypeOK', Restart
  PROVE  IInv'
<1> USE DEF IInv, TypeOK, Restart, history
<1>1. \A d \in Callers : pc'[d] = "idle" /\ op'[d] = "clean"
  OBVIOUS
<1>2. OneWriter' /\ CopyKeepsLogins' /\ CopyOmitsLogouts'
  BY <1>1 DEF OneWriter, CopyKeepsLogins, CopyOmitsLogouts
<1>3. ChangesAreAwaited'
  BY <1>1 DEF ChangesAreAwaited, Differs
<1>4. LoginIsDurable' /\ LogoutIsFinal'
  BY DEF LoginIsDurable, LogoutIsFinal
<1> QED
  BY <1>2, <1>3, <1>4

(* A server that starts without sessions (session.go:48-60).               *)
LEMMA InitIInv == Init => IInv
BY NoneAssumption
DEF Init, IInv, TypeOK, OneWriter, CopyKeepsLogins, CopyOmitsLogouts,
    ChangesAreAwaited, Differs, LoginIsDurable, LogoutIsFinal

(* Every step of every caller (session.go:98-231).                         *)
LEMMA StepIInv == IInv /\ [Next]_vars => IInv'
<1> SUFFICES ASSUME IInv, [Next]_vars PROVE IInv'
  OBVIOUS
<1>1. TypeOK'
  BY TypeStep DEF IInv
<1> QED
  BY <1>1, CallsAreChanges, ChangeKeepsIInv, LockKeepsIInv, CopyKeepsIInv,
     WriteKeepsIInv, OthersKeepIInv, RestartKeepsIInv
  DEF Next, Step

-----------------------------------------------------------------------------
(* The inductive invariant holds in every reachable state.                 *)
THEOREM Invariance == Spec => []IInv
BY InitIInv, StepIInv, PTL DEF Spec

(* Type correctness of the session manager (session.go:23-36).             *)
THEOREM TypeCorrect == Spec => []TypeOK
BY Invariance, PTL DEF IInv

(* A login whose write succeeded survives a restart at any moment          *)
(* (src/README.md:204, session.go:166-180).                                *)
THEOREM LoginsAreDurable == Spec => []LoginIsDurable
BY Invariance, PTL DEF IInv

(* A session whose removal was written never comes back                    *)
(* (session_test.go:53, session.go:201-231).                               *)
THEOREM LogoutsAreFinal == Spec => []LogoutIsFinal
BY Invariance, PTL DEF IInv

(* With nobody inside persist and the last write done, file and map agree  *)
(* (session.go:98-126).                                                    *)
THEOREM QuietIsSaved == Spec => []QuietMeansSaved
<1>1. IInv => QuietMeansSaved
  BY DEF IInv, QuietMeansSaved, ChangesAreAwaited, Differs, TypeOK
<1> QED
  BY <1>1, Invariance, PTL

(* No write takes a good session out of the file: the comment at           *)
(* session.go:98-99, for any number of callers.                            *)
THEOREM NoLoginIsClobbered == Spec => NoLoginClobbered
<1>1. IInv /\ [Next]_vars =>
        [\A s \in disk \ disk' : s \notin mem \/ s \in lapsed]_vars
  <2> SUFFICES ASSUME IInv, Next, NEW s \in disk \ disk', s \in mem, s \notin lapsed
               PROVE  FALSE
    OBVIOUS
  <2>1. PICK c \in Callers : WriteDone(c)
    BY CallsAreChanges
    DEF Next, Step, Change, Persist, LockPersist, CopyMap,
        WriteFails, Lapse, Restart
  <2> QED
    BY <2>1 DEF WriteDone, IInv, CopyKeepsLogins
<1> QED
  BY <1>1, Invariance, PTL DEF Spec, NoLoginClobbered
=============================================================================
