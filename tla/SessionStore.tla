---------------------------- MODULE SessionStore ----------------------------
(***************************************************************************)
(* Login sessions, session.go: a map in memory under sm.mu, and its image  *)
(* sessions.json, rewritten by persist under a second mutex persistMu.     *)
(*                                                                         *)
(* Every method changes the map in one step and then, no longer holding    *)
(* sm.mu, persists: it waits for persistMu, copies the map, writes the     *)
(* copy and releases persistMu.  Other calls change the map between any    *)
(* two of these steps.  A write that fails is only logged.  Session ids    *)
(* are random, so an id is created once; its user never changes.           *)
(***************************************************************************)
EXTENDS Naturals, FiniteSets

CONSTANTS
  Sessions,  \* session ids
  Users,     \* user names
  Owner,     \* Owner[s]: the user session s is for
  Callers,   \* goroutines inside the session manager at the same time
  None       \* no caller holds the mutex

ASSUME OwnerAssumption == Owner \in [Sessions -> Users]

ASSUME NoneAssumption == None \notin Callers

VARIABLES
  used,    \* ids created so far
  mem,     \* sm.sessions
  disk,    \* sessions.json
  lapsed,  \* sessions whose ExpiresAt is in the past
  writer,  \* who holds persistMu
  pc,      \* where each caller stands
  op,      \* what each caller does: "login", "logout" or "clean"
  ids,     \* the sessions each caller created or removed
  snap,    \* the copy of the map each caller is writing
  lastOk,  \* whether the last write succeeded
  in,      \* logins whose own write succeeded (history)
  out      \* logouts whose own write succeeded (history)

vars == <<used, mem, disk, lapsed, writer, pc, op, ids, snap, lastOk,
          in, out>>

history == <<in, out>>

Init ==
  /\ used = {} /\ mem = {} /\ disk = {} /\ lapsed = {}
  /\ writer = None
  /\ pc = [c \in Callers |-> "idle"]
  /\ op = [c \in Callers |-> "clean"]
  /\ ids = [c \in Callers |-> {}]
  /\ snap = [c \in Callers |-> {}]
  /\ lastOk = TRUE
  /\ in = {} /\ out = {}

Goto(c, l) == pc' = [pc EXCEPT ![c] = l]

(* Caller c has changed the sessions S of the map and goes on to persist.  *)
Persist(c, o, S) ==
  /\ pc[c] = "idle"
  /\ Goto(c, "lock")
  /\ op' = [op EXCEPT ![c] = o]
  /\ ids' = [ids EXCEPT ![c] = S]
  /\ UNCHANGED <<disk, lapsed, writer, snap, lastOk>>

(* create *)
Login(c, s) ==
  /\ s \notin used
  /\ used' = used \cup {s}
  /\ mem' = mem \cup {s}
  /\ Persist(c, "login", {s})
  /\ UNCHANGED history

(* destroy, called by handleLogoutAPI; an id that is not in the map is     *)
(* answered without persisting, and nothing changes.                       *)
Logout(c, s) ==
  /\ s \in mem
  /\ mem' = mem \ {s}
  /\ Persist(c, "logout", {s})
  /\ UNCHANGED <<used, history>>

(* A faulty destroyByUsername that leaves the file to the next caller.     *)
DestroyByUsernameUnsaved(c, u) ==
  /\ pc[c] = "idle"
  /\ \E s \in mem : Owner[s] = u
  /\ mem' = {s \in mem : Owner[s] # u}
  /\ UNCHANGED <<used, disk, lapsed, writer, pc, op, ids, snap, lastOk, history>>

(* destroyByUsername: every session of one user, after its password or     *)
(* role changed or the user was deleted.                                   *)
DestroyByUsername(c, u) ==
  LET S == {s \in mem : Owner[s] = u}
  IN /\ S # {}
     /\ mem' = mem \ S
     /\ Persist(c, "logout", S)
     /\ UNCHANGED <<used, history>>

(* get finds the session expired and destroys it.                          *)
GetExpired(c, s) ==
  /\ s \in mem \cap lapsed
  /\ mem' = mem \ {s}
  /\ Persist(c, "clean", {s})
  /\ UNCHANGED <<used, history>>

(* reap, once an hour.                                                     *)
Reap(c) ==
  /\ mem \cap lapsed # {}
  /\ mem' = mem \ lapsed
  /\ Persist(c, "clean", mem \cap lapsed)
  /\ UNCHANGED <<used, history>>

(* A faulty persist without its own mutex.                                 *)
LockPersistShared(c) ==
  /\ pc[c] = "lock"
  /\ writer' = c
  /\ Goto(c, "copy")
  /\ UNCHANGED <<used, mem, disk, lapsed, op, ids, snap, lastOk, history>>

(* persist, step by step.                                                  *)
LockPersist(c) ==
  /\ pc[c] = "lock"
  /\ writer = None
  /\ writer' = c
  /\ Goto(c, "copy")
  /\ UNCHANGED <<used, mem, disk, lapsed, op, ids, snap, lastOk, history>>

(* A faulty copy that keeps what the file already has.                     *)
CopyMapMerged(c) ==
  /\ pc[c] = "copy"
  /\ snap' = [snap EXCEPT ![c] = (mem \cup disk) \ lapsed]
  /\ Goto(c, "write")
  /\ UNCHANGED <<used, mem, disk, lapsed, writer, op, ids, lastOk, history>>

CopyMap(c) ==
  /\ pc[c] = "copy"
  /\ snap' = [snap EXCEPT ![c] = mem \ lapsed]
  /\ Goto(c, "write")
  /\ UNCHANGED <<used, mem, disk, lapsed, writer, op, ids, lastOk, history>>

(* The caller of persist returns: the client gets its answer.              *)
Return(c) ==
  /\ writer' = None
  /\ Goto(c, "idle")
  /\ op' = [op EXCEPT ![c] = "clean"]
  /\ ids' = [ids EXCEPT ![c] = {}]
  /\ snap' = [snap EXCEPT ![c] = {}]

WriteDone(c) ==
  /\ pc[c] = "write"
  /\ disk' = snap[c]
  /\ lastOk' = TRUE
  /\ in' = IF op[c] = "login" THEN in \cup ids[c] ELSE in
  /\ out' = IF op[c] = "logout" THEN out \cup ids[c] ELSE out
  /\ Return(c)
  /\ UNCHANGED <<used, mem, lapsed>>

WriteFails(c) ==
  /\ pc[c] = "write"
  /\ lastOk' = FALSE
  /\ Return(c)
  /\ UNCHANGED <<used, mem, disk, lapsed, in, out>>

Lapse(s) ==
  /\ s \in used
  /\ lapsed' = lapsed \cup {s}
  /\ UNCHANGED <<used, mem, disk, writer, pc, op, ids, snap, lastOk, history>>

(* The process dies at any point and load reads the file.                  *)
Restart ==
  /\ mem' = disk \ lapsed
  /\ writer' = None
  /\ pc' = [c \in Callers |-> "idle"]
  /\ op' = [c \in Callers |-> "clean"]
  /\ ids' = [c \in Callers |-> {}]
  /\ snap' = [c \in Callers |-> {}]
  /\ lastOk' = TRUE
  /\ UNCHANGED <<used, disk, lapsed, history>>

Step(c) == LockPersist(c) \/ CopyMap(c) \/ WriteDone(c) \/ WriteFails(c)

Next ==
  \/ \E c \in Callers, s \in Sessions :
       Login(c, s) \/ Logout(c, s) \/ GetExpired(c, s)
  \/ \E c \in Callers, u \in Users : DestroyByUsername(c, u)
  \/ \E c \in Callers : Reap(c)
  \/ \E c \in Callers : Step(c)
  \/ \E s \in Sessions : Lapse(s)
  \/ Restart

Spec == Init /\ [][Next]_vars

-----------------------------------------------------------------------------
(* Properties.                                                             *)

(* Every variable has its shape, and persistMu is held only by a caller    *)
(* that is inside persist: it is released on every path.                   *)
TypeOK ==
  /\ used \subseteq Sessions /\ mem \subseteq used /\ disk \subseteq used
  /\ lapsed \subseteq used
  /\ writer \in Callers \cup {None}
  /\ pc \in [Callers -> {"idle", "lock", "copy", "write"}]
  /\ op \in [Callers -> {"login", "logout", "clean"}]
  /\ ids \in [Callers -> SUBSET used]
  /\ snap \in [Callers -> SUBSET used]
  /\ lastOk \in BOOLEAN
  /\ writer # None => pc[writer] \in {"copy", "write"}
  /\ in \subseteq used /\ out \subseteq used

(* src/README.md:204, session.go:98-99: "logins cannot clobber each        *)
(* other": a write never takes a session out of the file that is still in  *)
(* the map and has not expired, however old the copy it writes.            *)
NoLoginClobbered ==
  [][\A s \in disk \ disk' : s \notin mem \/ s \in lapsed]_vars

(* A login whose write succeeded is in the file for as long as it is good: *)
(* it survives a restart at any moment.                                    *)
LoginIsDurable == (in \cap mem) \ lapsed \subseteq disk

(* session_test.go:53: a session whose removal was written never comes     *)
(* back, neither in the file (by a slower writer with an older copy) nor   *)
(* in the map (by a restart).                                              *)
LogoutIsFinal == out \cap (mem \cup disk) = {}

(* When nobody is inside persist and the last write succeeded, the file is *)
(* the map: no change of any caller was left out.                          *)
QuietMeansSaved ==
  (\A c \in Callers : pc[c] = "idle") /\ lastOk => disk \ lapsed = mem \ lapsed
=============================================================================
