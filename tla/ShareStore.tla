----------------------------- MODULE ShareStore -----------------------------
(***************************************************************************)
(* The share store of shares.go and the public requests that use it.       *)
(*                                                                         *)
(* shareStore keeps a slice of Share records in memory and rewrites the    *)
(* whole of shares.json under its mutex s.mu, so a method of the store is  *)
(* one atomic step here.  The result of every save is chosen: a save that  *)
(* fails leaves the file as it was (atomic.go renames a complete file into *)
(* place), and the code then keeps, undoes or ignores its change in        *)
(* memory, method by method.  A crash between the two saves of one call    *)
(* leaves the file the second save would have left by failing.             *)
(*                                                                         *)
(* A token names a share for ever: tokens are random, and the kind and the *)
(* expiry mode of a share never change, so they are constant functions of  *)
(* the token.  A public request is used once: it reads a copy of the share *)
(* (getValid), works on the copy without the mutex, and comes back to      *)
(* reserve its transfer.                                                   *)
(***************************************************************************)
EXTENDS Naturals, FiniteSets, SequencesExt

CONSTANTS
  Tokens,          \* share tokens
  Kind,            \* Kind[t]: "link" (download share) or "drop" (inbound)
  Expiry,          \* Expiry[t]: "timed", "never" or "1download"
  Paths,           \* shareable paths, sequences of names (bounds the archive)
  Requests,        \* public requests, each served once
  DropMaxUploads,  \* dropDefaultMaxUploads
  NoShare,         \* stands for a token without a record
  NoToken          \* stands for a request without a share copy

ASSUME KindAssumption == Kind \in [Tokens -> {"link", "drop"}]

(* Drops must have a deadline; links choose any mode (shares.go:161-191).  *)
ASSUME ExpiryAssumption ==
  /\ Expiry \in [Tokens -> {"timed", "never", "1download"}]
  /\ \A t \in Tokens : Kind[t] = "drop" => Expiry[t] = "timed"

ASSUME LimitAssumption == DropMaxUploads \in Nat \ {0}

Share == [path : Paths, downloads : Nat, uploads : Nat]

ASSUME NothingAssumption == NoShare \notin Share /\ NoToken \notin Tokens

VARIABLES
  mem,     \* s.Shares: for each token, its record or NoShare
  disk,    \* shares.json, the same shape
  lapsed,  \* tokens whose ExpiresAt is in the past
  told,    \* what the administrator was last told of a token
  pc,      \* where each public request stands
  tok      \* the token of the share copy a request holds

vars == <<mem, disk, lapsed, told, pc, tok>>

Live(m) == {t \in Tokens : m[t] # NoShare}

MaxDownloads(t) == IF Expiry[t] = "1download" THEN 1 ELSE 0

(* Faulty limits that let one transfer too many through.                   *)
DownloadsOverrun(t, sh) == MaxDownloads(t) > 0 /\ sh.downloads > MaxDownloads(t)
UploadsOverrun(t, sh) == Kind[t] = "drop" /\ sh.uploads > DropMaxUploads

DownloadsUsedUp(t, sh) == MaxDownloads(t) > 0 /\ sh.downloads >= MaxDownloads(t)

UploadsUsedUp(t, sh) == Kind[t] = "drop" /\ sh.uploads >= DropMaxUploads

ShareExpired(t, sh) ==
  t \in lapsed \/ DownloadsUsedUp(t, sh) \/ UploadsUsedUp(t, sh)

(* A faulty pruneLocked that leaves expired records for later.             *)
PruneNothing(m) == m

(* pruneLocked drops expired records from memory and does not save.        *)
PruneLocked(m) ==
  [t \in Tokens |->
     IF m[t] # NoShare /\ ShareExpired(t, m[t]) THEN NoShare ELSE m[t]]

Without(m, S) == [t \in Tokens |-> IF t \in S THEN NoShare ELSE m[t]]

(* saveLocked: the file takes what memory holds at the end of the step, or *)
(* stays as it was.                                                        *)
SaveLocked(ok) == disk' = IF ok THEN mem' ELSE disk

Init ==
  /\ mem = [t \in Tokens |-> NoShare]
  /\ disk = mem
  /\ lapsed = {}
  /\ told = [t \in Tokens |-> "unused"]
  /\ pc = [r \in Requests |-> "new"]
  /\ tok = [r \in Requests |-> NoToken]

-----------------------------------------------------------------------------
(* Administrator calls.                                                    *)

NewShare(p) == [path |-> p, downloads |-> 0, uploads |-> 0]

(* A faulty create that answers without looking at its save.               *)
CreateUnsaved(t, p, ok) ==
  /\ told[t] = "unused"
  /\ mem' = [PruneLocked(mem) EXCEPT ![t] = NewShare(p)]
  /\ SaveLocked(ok)
  /\ told' = [told EXCEPT ![t] = "created"]
  /\ UNCHANGED <<lapsed, pc, tok>>

(* create: prune, append, save.  When the save fails the caller gets an    *)
(* error, and the record stays in memory.                                  *)
Create(t, p, ok) ==
  /\ told[t] = "unused"
  /\ mem' = [PruneLocked(mem) EXCEPT ![t] = NewShare(p)]
  /\ SaveLocked(ok)
  /\ told' = [told EXCEPT ![t] = IF ok THEN "created" ELSE "failed"]
  /\ UNCHANGED <<lapsed, pc, tok>>

ListPublic ==
  /\ mem' = PruneLocked(mem)
  /\ UNCHANGED <<disk, lapsed, told, pc, tok>>

(* revoke ignores the result of its save and reports success.              *)
Revoke(t, ok) ==
  /\ mem[t] # NoShare
  /\ mem' = Without(mem, {t})
  /\ SaveLocked(ok)
  /\ told' = [told EXCEPT ![t] = "revoked"]
  /\ UNCHANGED <<lapsed, pc, tok>>

(* removeByPathPrefix, called after a delete of rel.                       *)
RemoveByPathPrefix(rel, ok) ==
  LET under == {t \in Live(mem) : IsPrefix(rel, mem[t].path)}
  IN /\ under # {}
     /\ mem' = Without(mem, under)
     /\ SaveLocked(ok)
     /\ told' = [t \in Tokens |-> IF t \in under THEN "removed" ELSE told[t]]
     /\ UNCHANGED <<lapsed, pc, tok>>

Rewritten(path, oldRel, newRel) ==
  newRel \o SubSeq(path, Len(oldRel) + 1, Len(path))

(* rewritePathPrefix, called after a rename or a move of oldRel.           *)
RewritePathPrefix(oldRel, newRel, ok) ==
  LET under == {t \in Live(mem) : IsPrefix(oldRel, mem[t].path)}
  IN /\ under # {}
     /\ ~ IsPrefix(oldRel, newRel)
     /\ \A t \in under : Rewritten(mem[t].path, oldRel, newRel) \in Paths
     /\ mem' = [t \in Tokens |->
                  IF t \in under
                  THEN [mem[t] EXCEPT !.path = Rewritten(@, oldRel, newRel)]
                  ELSE mem[t]]
     /\ SaveLocked(ok)
     /\ UNCHANGED <<lapsed, told, pc, tok>>

-----------------------------------------------------------------------------
(* Public requests.                                                        *)

(* getValid: on success the request leaves with a copy of the record.      *)
GetValid(r, t) ==
  /\ pc[r] = "new"
  /\ mem' = PruneLocked(mem)
  /\ IF mem'[t] # NoShare
     THEN /\ pc' = [pc EXCEPT ![r] = "holding"]
          /\ tok' = [tok EXCEPT ![r] = t]
     ELSE /\ pc' = [pc EXCEPT ![r] = "done"]
          /\ UNCHANGED tok
  /\ UNCHANGED <<disk, lapsed, told>>

(* The deadline of t passes between the prune and the second look at the   *)
(* clock in getValid, beginDownload or beginUpload.                        *)
LapseDuringCall(r, t, ok) ==
  /\ pc[r] = "new" \/ (pc[r] = "holding" /\ tok[r] = t)
  /\ Expiry[t] = "timed"
  /\ PruneLocked(mem)[t] # NoShare
  /\ lapsed' = lapsed \cup {t}
  /\ mem' = Without(PruneLocked(mem), {t})
  /\ SaveLocked(ok)
  /\ pc' = [pc EXCEPT ![r] = "done"]
  /\ UNCHANGED <<told, tok>>

(* The request ends without a transfer: a landing page, a folder listing,  *)
(* a password prompt, or an early return of a handler.                     *)
ServePage(r) ==
  /\ pc[r] = "holding"
  /\ pc' = [pc EXCEPT ![r] = "done"]
  /\ UNCHANGED <<mem, disk, lapsed, told, tok>>

(* beginDownload and beginUpload when the share of the copy is gone.       *)
Refuse(r) ==
  /\ pc[r] = "holding"
  /\ mem' = PruneLocked(mem)
  /\ mem'[tok[r]] = NoShare
  /\ pc' = [pc EXCEPT ![r] = "done"]
  /\ UNCHANGED <<disk, lapsed, told, tok>>

(* A faulty roll-back that is left out.                                    *)
RollBackMissing(m, t) == m

CountDownload(m, t) == [m EXCEPT ![t].downloads = @ + 1]

RollBack(m, t) == [m EXCEPT ![t].downloads = @ - 1]

(* beginDownload, first save failed: the count is rolled back.             *)
DownloadNotSaved(r) ==
  LET t == tok[r]
      m == PruneLocked(mem)
  IN /\ pc[r] = "holding"
     /\ Kind[t] = "link"
     /\ m[t] # NoShare
     /\ mem' = RollBack(CountDownload(m, t), t)
     /\ pc' = [pc EXCEPT ![r] = "done"]
     /\ UNCHANGED <<disk, lapsed, told, tok>>

(* beginDownload, first save done: the count is on disk before the first   *)
(* byte leaves; a share that reached its limit is then removed, and the    *)
(* result of that second save is ignored.                                  *)
BeginDownload(r, ok) ==
  LET t == tok[r]
      m == PruneLocked(mem)
      counted == CountDownload(m, t)
      hitLimit == DownloadsUsedUp(t, counted[t])
  IN /\ pc[r] = "holding"
     /\ Kind[t] = "link"
     /\ m[t] # NoShare
     /\ mem' = IF hitLimit THEN Without(counted, {t}) ELSE counted
     /\ disk' = IF hitLimit /\ ok THEN mem' ELSE counted
     /\ pc' = [pc EXCEPT ![r] = "sending"]
     /\ UNCHANGED <<lapsed, told, tok>>

CountUpload(m, t) == [m EXCEPT ![t].uploads = @ + 1]

(* A faulty beginUpload that accepts the upload before it is counted in    *)
(* the file.                                                               *)
BeginUploadUnsaved(r, ok) ==
  /\ pc[r] = "holding"
  /\ Kind[tok[r]] = "drop"
  /\ PruneLocked(mem)[tok[r]] # NoShare
  /\ mem' = CountUpload(PruneLocked(mem), tok[r])
  /\ SaveLocked(ok)
  /\ pc' = [pc EXCEPT ![r] = "receiving"]
  /\ UNCHANGED <<lapsed, told, tok>>

(* beginUpload: a failed save refuses the upload and keeps the count.      *)
BeginUpload(r, ok) ==
  LET t == tok[r]
      m == PruneLocked(mem)
  IN /\ pc[r] = "holding"
     /\ Kind[t] = "drop"
     /\ m[t] # NoShare
     /\ mem' = CountUpload(m, t)
     /\ SaveLocked(ok)
     /\ pc' = [pc EXCEPT ![r] = IF ok THEN "receiving" ELSE "done"]
     /\ UNCHANGED <<lapsed, told, tok>>

FinishDownload(r) ==
  /\ pc[r] = "sending"
  /\ pc' = [pc EXCEPT ![r] = "sent"]
  /\ UNCHANGED <<mem, disk, lapsed, told, tok>>

FinishUpload(r) ==
  /\ pc[r] = "receiving"
  /\ pc' = [pc EXCEPT ![r] = "stored"]
  /\ UNCHANGED <<mem, disk, lapsed, told, tok>>

(* A faulty undoUpload that puts back a share removed in the meantime.     *)
FailUploadRevives(r, ok) ==
  /\ pc[r] = "receiving"
  /\ \E p \in Paths : mem' = [mem EXCEPT ![tok[r]] = NewShare(p)]
  /\ SaveLocked(ok)
  /\ pc' = [pc EXCEPT ![r] = "done"]
  /\ UNCHANGED <<lapsed, told, tok>>

(* The file could not be created, written or was too large: it is removed  *)
(* and undoUpload gives the slot back, if the share is still in memory.    *)
FailUpload(r, ok) ==
  LET t == tok[r]
  IN /\ pc[r] = "receiving"
     /\ IF mem[t] # NoShare /\ mem[t].uploads > 0
        THEN /\ mem' = [mem EXCEPT ![t].uploads = @ - 1]
             /\ SaveLocked(ok)
        ELSE UNCHANGED <<mem, disk>>
     /\ pc' = [pc EXCEPT ![r] = "done"]
     /\ UNCHANGED <<lapsed, told, tok>>

-----------------------------------------------------------------------------
(* The clock and the process.                                              *)

Lapse(t) ==
  /\ Expiry[t] = "timed"
  /\ told[t] # "unused"
  /\ lapsed' = lapsed \cup {t}
  /\ UNCHANGED <<mem, disk, told, pc, tok>>

(* A killed request that was writing a drop file leaves the partial file.  *)
Killed(s) ==
  CASE s = "holding" -> "done"
    [] s = "sending" -> "sent"
    [] s = "receiving" -> "cut"
    [] OTHER -> s

(* The process dies and starts again: openShareStore loads the file.       *)
Restart ==
  /\ mem' = disk
  /\ pc' = [r \in Requests |-> Killed(pc[r])]
  /\ UNCHANGED <<disk, lapsed, told, tok>>

Next ==
  \/ \E t \in Tokens, p \in Paths, ok \in BOOLEAN : Create(t, p, ok)
  \/ ListPublic
  \/ \E t \in Tokens, ok \in BOOLEAN : Revoke(t, ok)
  \/ \E p \in Paths, ok \in BOOLEAN : RemoveByPathPrefix(p, ok)
  \/ \E p, q \in Paths, ok \in BOOLEAN : RewritePathPrefix(p, q, ok)
  \/ \E r \in Requests, t \in Tokens : GetValid(r, t)
  \/ \E r \in Requests, t \in Tokens, ok \in BOOLEAN : LapseDuringCall(r, t, ok)
  \/ \E r \in Requests : ServePage(r)
  \/ \E r \in Requests : Refuse(r)
  \/ \E r \in Requests : DownloadNotSaved(r)
  \/ \E r \in Requests, ok \in BOOLEAN : BeginDownload(r, ok)
  \/ \E r \in Requests, ok \in BOOLEAN : BeginUpload(r, ok)
  \/ \E r \in Requests : FinishDownload(r)
  \/ \E r \in Requests : FinishUpload(r)
  \/ \E r \in Requests, ok \in BOOLEAN : FailUpload(r, ok)
  \/ \E t \in Tokens : Lapse(t)
  \/ Restart

Spec == Init /\ [][Next]_vars

-----------------------------------------------------------------------------
(* Properties.                                                             *)

(* Every variable has its shape; a request that reserved has a share copy. *)
TypeOK ==
  /\ mem \in [Tokens -> Share \cup {NoShare}]
  /\ disk \in [Tokens -> Share \cup {NoShare}]
  /\ lapsed \subseteq Tokens
  /\ told \in [Tokens -> {"unused", "created", "failed", "revoked", "removed"}]
  /\ pc \in [Requests -> {"new", "holding", "sending", "sent",
                          "receiving", "stored", "cut", "done"}]
  /\ tok \in [Requests -> Tokens \cup {NoToken}]
  /\ \A r \in Requests : pc[r] \notin {"new", "done"} => tok[r] \in Tokens

(* Requests that were granted a transfer on t and keep a unit of its quota.*)
Holders(t) ==
  {r \in Requests :
     tok[r] = t /\ pc[r] \in {"sending", "sent", "receiving", "stored", "cut"}}

(* src/README.md:211, shares.go:259-262: a "1 download" link starts at most    *)
(* one transfer, whatever copies requests hold, whichever saves fail and   *)
(* however often the server restarts.                                      *)
OneDownloadOnce ==
  \A t \in Tokens : Expiry[t] = "1download" =>
    \A r, s \in Holders(t) : r = s

(* src/README.md:143: uploads stored, in flight or cut by a crash never exceed *)
(* the quota of their drop box, across refunds, failed saves and restarts. *)
DropQuota ==
  \A t \in Tokens : Kind[t] = "drop" => Cardinality(Holders(t)) <= DropMaxUploads

(* A share the administrator was told is created, and that requests can    *)
(* still open, is in shares.json with the download count of memory: a      *)
(* restart neither loses a working link nor forgets a download.            *)
LiveIsDurable ==
  \A t \in Tokens : told[t] = "created" /\ mem[t] # NoShare =>
    /\ disk[t] # NoShare
    /\ disk[t].downloads = mem[t].downloads

(* The file never counts fewer uploads than a drop box has accepted, so a  *)
(* restart cannot hand a slot out twice.                                   *)
UploadsCountedOnDisk ==
  \A t \in Tokens : Kind[t] = "drop" /\ disk[t] # NoShare =>
    Cardinality(Holders(t)) <= disk[t].uploads

(* A token that is neither in memory nor in the file never comes back: no  *)
(* later save, rename or restart revives a share that was really removed.  *)
GoneIsForever ==
  [][\A t \in Tokens :
       told[t] # "unused" /\ mem[t] = NoShare /\ disk[t] = NoShare =>
         mem'[t] = NoShare /\ disk'[t] = NoShare]_vars

(* The abstract promise: quota units are taken and given back, and closed  *)
(* tokens stay closed, whatever happens between memory and file.           *)
Promise ==
  INSTANCE ShareQuota WITH
    Limited <- {t \in Tokens : Kind[t] = "drop" \/ MaxDownloads(t) > 0},
    Refundable <- {t \in Tokens : Kind[t] = "drop"},
    Quota <- [t \in Tokens |-> IF Kind[t] = "drop" THEN DropMaxUploads ELSE 1],
    open <- {t \in Tokens : mem[t] # NoShare \/ disk[t] # NoShare},
    fresh <- {t \in Tokens : told[t] = "unused"},
    holders <- [t \in Tokens |-> Holders(t)]

KeepsPromise == Promise!Spec
=============================================================================
