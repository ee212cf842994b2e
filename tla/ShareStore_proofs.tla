------------------------- MODULE ShareStore_proofs -------------------------
(***************************************************************************)
(* Proofs about ShareStore, for any sets of tokens, paths and requests.    *)
(*                                                                         *)
(* A "1 download" link is used up by its counter, and the counter has two  *)
(* copies, one in memory and one in the file, either of which a restart or *)
(* a failed save may put back.  The inductive invariant says that both     *)
(* copies know every transfer that was granted.                            *)
(***************************************************************************)
EXTENDS ShareStore, FiniteSetTheorems, TLAPS

Records == [Tokens -> Share \cup {NoShare}]

(* A granted download is of a link, a granted upload of a drop box.        *)
KindsMatch ==
  \A r \in Requests :
    /\ pc[r] \in {"sending", "sent"} => Kind[tok[r]] = "link"
    /\ pc[r] \in {"receiving", "stored", "cut"} => Kind[tok[r]] = "drop"

(* A token that was not created is nowhere.                                *)
UnusedIsNowhere ==
  \A t \in Tokens : told[t] = "unused" =>
    /\ mem[t] = NoShare /\ disk[t] = NoShare
    /\ \A r \in Requests : tok[r] # t

(* Both copies of the counter of a "1 download" link know the transfer.    *)
GrantIsCounted ==
  \A t \in Tokens : Expiry[t] = "1download" /\ Holders(t) # {} =>
    /\ mem[t] # NoShare => mem[t].downloads >= 1
    /\ disk[t] # NoShare => disk[t].downloads >= 1

IInv ==
  /\ TypeOK
  /\ KindsMatch
  /\ UnusedIsNowhere
  /\ GrantIsCounted
  /\ OneDownloadOnce
  /\ LiveIsDurable

-----------------------------------------------------------------------------
(* What the operators on the table of shares return.                       *)

(* pruneLocked keeps records or drops them, and keeps no expired one.      *)
LEMMA PruneFacts ==
  ASSUME NEW m \in Records
  PROVE  /\ PruneLocked(m) \in Records
         /\ \A t \in Tokens : PruneLocked(m)[t] # NoShare =>
              /\ PruneLocked(m)[t] = m[t]
              /\ ~ ShareExpired(t, m[t])
BY DEF PruneLocked, Records

(* Removing the record of one token (removeIndexLocked) keeps the others.   *)
LEMMA WithoutFacts ==
  ASSUME NEW m \in Records, NEW S
  PROVE  /\ Without(m, S) \in Records
         /\ \A t \in Tokens : Without(m, S)[t] # NoShare =>
              t \notin S /\ Without(m, S)[t] = m[t]
BY DEF Without, Records

(* Counting changes one counter of one live record.                        *)
LEMMA CountFacts ==
  ASSUME NEW m \in Records, NEW t \in Tokens, m[t] # NoShare
  PROVE  /\ CountDownload(m, t) \in Records
         /\ CountDownload(m, t)[t].downloads = m[t].downloads + 1
         /\ CountDownload(m, t)[t] # NoShare
         /\ RollBack(CountDownload(m, t), t) = m
         /\ CountUpload(m, t) \in Records
         /\ CountUpload(m, t)[t] # NoShare
         /\ CountUpload(m, t)[t].downloads = m[t].downloads
         /\ \A u \in Tokens : u # t => /\ CountDownload(m, t)[u] = m[u]
                                      /\ CountUpload(m, t)[u] = m[u]
<1> DEFINE sh == m[t]
<1>1. sh \in Share /\ sh.downloads \in Nat /\ sh.uploads \in Nat
  BY DEF Records, Share
<1>2. sh = [path |-> sh.path, downloads |-> sh.downloads, uploads |-> sh.uploads]
  BY <1>1 DEF Share
<1>3. [sh EXCEPT !.downloads = @ + 1] \in Share /\ [sh EXCEPT !.uploads = @ + 1] \in Share
  BY <1>1 DEF Share
<1>4. [[sh EXCEPT !.downloads = @ + 1] EXCEPT !.downloads = @ - 1] = sh
  <2> DEFINE more == [sh EXCEPT !.downloads = @ + 1]
  <2>1. more = [path |-> sh.path, downloads |-> sh.downloads + 1, uploads |-> sh.uploads]
    BY <1>1 DEF Share
  <2>2. more.downloads - 1 = sh.downloads
    BY <1>1, <2>1
  <2>3. [more EXCEPT !.downloads = more.downloads - 1] =
          [path |-> sh.path, downloads |-> sh.downloads, uploads |-> sh.uploads]
    <3> HIDE DEF more, sh
    <3> QED
      BY <2>1, <2>2
  <2> QED
    BY <1>2, <2>3
<1>5. CountDownload(m, t) = [m EXCEPT ![t] = [sh EXCEPT !.downloads = @ + 1]]
  BY DEF CountDownload
<1>6. CountUpload(m, t) = [m EXCEPT ![t] = [sh EXCEPT !.uploads = @ + 1]]
  BY DEF CountUpload
<1>7. RollBack(CountDownload(m, t), t) = m
  BY <1>4, <1>5 DEF RollBack, Records
<1> QED
  BY <1>1, <1>3, <1>5, <1>6, <1>7, NothingAssumption DEF Records, Share

-----------------------------------------------------------------------------
(* Type correctness.                                                       *)

(* An administrator call or a public request that leaves the tables well   *)
(* typed keeps the type invariant, action by action (shares.go:113-434).   *)
LEMMA TypeStep == TypeOK /\ [Next]_vars => TypeOK'
<1> SUFFICES ASSUME TypeOK, [Next]_vars PROVE TypeOK'
  OBVIOUS
<1> USE DEF TypeOK
<1>0. /\ mem \in Records /\ disk \in Records
      /\ PruneLocked(mem) \in Records
      /\ \A t \in Tokens : PruneLocked(mem)[t] # NoShare => PruneLocked(mem)[t] = mem[t]
  BY PruneFacts DEF Records
<1>1. ASSUME mem' \in Records, disk' \in {disk, mem'}
      PROVE  mem' \in [Tokens -> Share \cup {NoShare}] /\ disk' \in [Tokens -> Share \cup {NoShare}]
  BY <1>0, <1>1 DEF Records
<1>2. ASSUME NEW t \in Tokens, NEW p \in Paths, NEW ok \in BOOLEAN, Create(t, p, ok)
      PROVE  TypeOK'
  <2>1. NewShare(p) \in Share
    BY DEF NewShare, Share
  <2>2. mem' \in Records
    BY <1>0, <1>2, <2>1 DEF Create, Records
  <2> QED
    BY <1>1, <1>2, <2>2 DEF Create, SaveLocked
<1>3. ASSUME ListPublic PROVE TypeOK'
  BY <1>0, <1>3 DEF ListPublic, Records
<1>4. ASSUME NEW t \in Tokens, NEW ok \in BOOLEAN, Revoke(t, ok) PROVE TypeOK'
  <2>1. mem' \in Records
    BY <1>0, <1>4, WithoutFacts DEF Revoke
  <2> QED
    BY <1>1, <1>4, <2>1 DEF Revoke, SaveLocked
<1>5. ASSUME NEW p \in Paths, NEW ok \in BOOLEAN, RemoveByPathPrefix(p, ok) PROVE TypeOK'
  <2>1. mem' \in Records
    BY <1>0, <1>5, WithoutFacts DEF RemoveByPathPrefix
  <2> QED
    BY <1>1, <1>5, <2>1 DEF RemoveByPathPrefix, SaveLocked
<1>6. ASSUME NEW p \in Paths, NEW q \in Paths, NEW ok \in BOOLEAN, RewritePathPrefix(p, q, ok)
      PROVE  TypeOK'
  <2> DEFINE under == {t \in Live(mem) : IsPrefix(p, mem[t].path)}
  <2>1. ASSUME NEW t \in under
        PROVE  [mem[t] EXCEPT !.path = Rewritten(@, p, q)] \in Share
    <3>1. mem[t] \in Share /\ Rewritten(mem[t].path, p, q) \in Paths
      BY <1>0, <1>6 DEF RewritePathPrefix, Live, Records
    <3> QED
      BY <3>1 DEF Share
  <2>2. mem' \in Records
    BY <1>0, <1>6, <2>1 DEF RewritePathPrefix, Records
  <2> QED
    BY <1>1, <1>6, <2>2 DEF RewritePathPrefix, SaveLocked
<1>7. ASSUME NEW r \in Requests, NEW t \in Tokens, GetValid(r, t) PROVE TypeOK'
  BY <1>0, <1>7 DEF GetValid, Records
<1>8. ASSUME NEW r \in Requests, NEW t \in Tokens, NEW ok \in BOOLEAN, LapseDuringCall(r, t, ok)
      PROVE  TypeOK'
  <2>1. mem' \in Records
    BY <1>0, <1>8, WithoutFacts DEF LapseDuringCall
  <2> QED
    BY <1>1, <1>8, <2>1 DEF LapseDuringCall, SaveLocked
<1>9. ASSUME NEW r \in Requests, ServePage(r) PROVE TypeOK'
  BY <1>9 DEF ServePage
<1>10. ASSUME NEW r \in Requests, Refuse(r) PROVE TypeOK'
  BY <1>0, <1>10 DEF Refuse, Records
<1>11. ASSUME NEW r \in Requests, DownloadNotSaved(r) PROVE TypeOK'
  <2>1. tok[r] \in Tokens /\ mem' = PruneLocked(mem)
    BY <1>0, <1>11, CountFacts DEF DownloadNotSaved
  <2> QED
    BY <1>0, <1>11, <2>1 DEF DownloadNotSaved, Records
<1>12. ASSUME NEW r \in Requests, NEW ok \in BOOLEAN, BeginDownload(r, ok) PROVE TypeOK'
  <2> DEFINE counted == CountDownload(PruneLocked(mem), tok[r])
  <2>1. counted \in Records /\ tok[r] \in Tokens
    BY <1>0, <1>12, CountFacts DEF BeginDownload
  <2>2. mem' \in Records /\ disk' \in Records
    BY <1>12, <2>1, WithoutFacts DEF BeginDownload
  <2> QED
    BY <1>12, <2>1, <2>2 DEF BeginDownload, Records
<1>13. ASSUME NEW r \in Requests, NEW ok \in BOOLEAN, BeginUpload(r, ok) PROVE TypeOK'
  <2>1. mem' \in Records /\ tok[r] \in Tokens
    BY <1>0, <1>13, CountFacts DEF BeginUpload
  <2> QED
    BY <1>1, <1>13, <2>1 DEF BeginUpload, SaveLocked
<1>14. ASSUME NEW r \in Requests, FinishDownload(r) PROVE TypeOK'
  BY <1>14 DEF FinishDownload
<1>15. ASSUME NEW r \in Requests, FinishUpload(r) PROVE TypeOK'
  BY <1>15 DEF FinishUpload
<1>16. ASSUME NEW r \in Requests, NEW ok \in BOOLEAN, FailUpload(r, ok) PROVE TypeOK'
  <2>1. tok[r] \in Tokens
    BY <1>16 DEF FailUpload
  <2>2. mem' \in Records
    <3>1. CASE mem[tok[r]] # NoShare /\ mem[tok[r]].uploads > 0
      <4>1. mem[tok[r]] \in Share /\ mem[tok[r]].uploads - 1 \in Nat
        BY <1>0, <2>1, <3>1 DEF Records, Share
      <4>2. [mem[tok[r]] EXCEPT !.uploads = @ - 1] \in Share
        BY <4>1 DEF Share
      <4> QED
        BY <1>0, <1>16, <2>1, <3>1, <4>2 DEF FailUpload, Records
    <3>2. CASE ~ (mem[tok[r]] # NoShare /\ mem[tok[r]].uploads > 0)
      BY <1>0, <1>16, <3>2 DEF FailUpload
    <3> QED
      BY <3>1, <3>2
  <2> QED
    BY <1>1, <1>16, <2>2 DEF FailUpload, SaveLocked
<1>17. ASSUME NEW t \in Tokens, Lapse(t) PROVE TypeOK'
  BY <1>17 DEF Lapse
<1>18. ASSUME Restart PROVE TypeOK'
  <2>1. \A r \in Requests : /\ Killed(pc[r]) \in {"new", "holding", "sending", "sent",
                                   "receiving", "stored", "cut", "done"}
                            /\ Killed(pc[r]) \notin {"new", "done"} => pc[r] \notin {"new", "done"}
    BY DEF Killed
  <2> QED
    BY <1>18, <2>1 DEF Restart
<1>19. CASE UNCHANGED vars
  BY <1>19 DEF vars
<1> QED
  BY <1>2, <1>3, <1>4, <1>5, <1>6, <1>7, <1>8, <1>9, <1>10, <1>11, <1>12,
     <1>13, <1>14, <1>15, <1>16, <1>17, <1>18, <1>19 DEF Next

-----------------------------------------------------------------------------
(* Steps that create no share, count no download and lose no memory.       *)

Downloading == {"sending", "sent"}
Uploading == {"receiving", "stored", "cut"}

(* Such a step only drops records, changes parts of them no download count *)
(* is in, saves or does not save, and grants nothing but drop uploads.     *)
Tame ==
  /\ \A t \in Tokens : mem'[t] # NoShare =>
       mem[t] # NoShare /\ mem'[t].downloads = mem[t].downloads
  /\ disk' \in {disk, mem'}
  /\ \A t \in Tokens :
       /\ told'[t] = "created" => told[t] = "created"
       /\ told'[t] = "unused" <=> told[t] = "unused"
  /\ \A r \in Requests :
       /\ tok'[r] # tok[r] => pc'[r] = "holding" /\ told'[tok'[r]] # "unused"
       /\ pc'[r] \in Downloading => pc[r] \in Downloading
       /\ pc'[r] \in Uploading => pc[r] \in Uploading \/ Kind[tok[r]] = "drop"

(* Every step but create, beginDownload and the restart is tame: it makes  *)
(* no share and grants no download (shares.go:215-434).                    *)
LEMMA TameSteps ==
  ASSUME IInv,
         \/ ListPublic
         \/ \E t \in Tokens, ok \in BOOLEAN : Revoke(t, ok)
         \/ \E p \in Paths, ok \in BOOLEAN : RemoveByPathPrefix(p, ok)
         \/ \E p, q \in Paths, ok \in BOOLEAN : RewritePathPrefix(p, q, ok)
         \/ \E r \in Requests, t \in Tokens : GetValid(r, t)
         \/ \E r \in Requests, t \in Tokens, ok \in BOOLEAN : LapseDuringCall(r, t, ok)
         \/ \E r \in Requests : ServePage(r) \/ Refuse(r) \/ DownloadNotSaved(r)
         \/ \E r \in Requests, ok \in BOOLEAN : BeginUpload(r, ok)
         \/ \E r \in Requests : FinishDownload(r) \/ FinishUpload(r)
         \/ \E r \in Requests, ok \in BOOLEAN : FailUpload(r, ok)
         \/ \E t \in Tokens : Lapse(t)
         \/ UNCHANGED vars
  PROVE  Tame
<1> USE DEF IInv, TypeOK, Downloading, Uploading
<1>0. /\ mem \in Records /\ PruneLocked(mem) \in Records
      /\ \A t \in Tokens : PruneLocked(mem)[t] # NoShare => PruneLocked(mem)[t] = mem[t]
  BY PruneFacts DEF Records
<1>1. \A t \in Tokens : mem[t] # NoShare => told[t] # "unused"
  BY DEF UnusedIsNowhere
<1>2. CASE ListPublic
  BY <1>0, <1>2 DEF ListPublic, Tame
<1>3. ASSUME NEW t \in Tokens, NEW ok \in BOOLEAN, Revoke(t, ok) PROVE Tame
  BY <1>0, <1>1, <1>3, WithoutFacts DEF Revoke, SaveLocked, Tame
<1>4. ASSUME NEW p \in Paths, NEW ok \in BOOLEAN, RemoveByPathPrefix(p, ok) PROVE Tame
  BY <1>0, <1>1, <1>4, WithoutFacts DEF RemoveByPathPrefix, SaveLocked, Live, Tame
<1>5. ASSUME NEW p \in Paths, NEW q \in Paths, NEW ok \in BOOLEAN, RewritePathPrefix(p, q, ok)
      PROVE  Tame
  <2> DEFINE under == {t \in Live(mem) : IsPrefix(p, mem[t].path)}
  <2>1. \A t \in Tokens : mem'[t] = IF t \in under
                                   THEN [mem[t] EXCEPT !.path = Rewritten(@, p, q)] ELSE mem[t]
    BY <1>5 DEF RewritePathPrefix
  <2>2. \A t \in under : mem[t] # NoShare /\ mem[t] \in Share
    BY <1>0 DEF Live, Records
  <2>3. \A t \in under : [mem[t] EXCEPT !.path = Rewritten(@, p, q)].downloads = mem[t].downloads
    BY <2>2 DEF Share
  <2> QED
    BY <1>5, <2>1, <2>2, <2>3 DEF RewritePathPrefix, SaveLocked, Tame
<1>6. ASSUME NEW r \in Requests, NEW t \in Tokens, GetValid(r, t) PROVE Tame
  BY <1>0, <1>1, <1>6 DEF GetValid, Tame
<1>7. ASSUME NEW r \in Requests, NEW t \in Tokens, NEW ok \in BOOLEAN, LapseDuringCall(r, t, ok)
      PROVE  Tame
  BY <1>0, <1>7, WithoutFacts DEF LapseDuringCall, SaveLocked, Tame
<1>8. ASSUME NEW r \in Requests, ServePage(r) \/ Refuse(r) PROVE Tame
  BY <1>0, <1>8 DEF ServePage, Refuse, Tame
<1>9. ASSUME NEW r \in Requests, DownloadNotSaved(r) PROVE Tame
  <2>1. mem' = PruneLocked(mem)
    BY <1>0, <1>9, CountFacts DEF DownloadNotSaved
  <2> QED
    BY <1>0, <1>9, <2>1 DEF DownloadNotSaved, Tame
<1>10. ASSUME NEW r \in Requests, NEW ok \in BOOLEAN, BeginUpload(r, ok) PROVE Tame
  <2>1. tok[r] \in Tokens
    BY <1>10 DEF BeginUpload
  <2>2. \A t \in Tokens : mem'[t] # NoShare =>
          mem[t] # NoShare /\ mem'[t].downloads = mem[t].downloads
    <3> DEFINE m == PruneLocked(mem)
    <3>1. m[tok[r]] # NoShare /\ mem' = CountUpload(m, tok[r])
      BY <1>10 DEF BeginUpload
    <3>2. /\ mem'[tok[r]].downloads = m[tok[r]].downloads
          /\ \A u \in Tokens : u # tok[r] => mem'[u] = m[u]
      <4>1. m \in Records
        BY <1>0
      <4> QED
        BY <2>1, <3>1, <4>1, CountFacts
    <3>3. \A t \in Tokens : m[t] # NoShare => m[t] = mem[t]
      BY <1>0
    <3> QED
      BY <2>1, <3>1, <3>2, <3>3
  <2>3. disk' \in {disk, mem'}
    BY <1>10 DEF BeginUpload, SaveLocked
  <2>4. /\ UNCHANGED <<told, tok>> /\ Kind[tok[r]] = "drop"
        /\ pc' = [pc EXCEPT ![r] = IF ok THEN "receiving" ELSE "done"]
    BY <1>10 DEF BeginUpload
  <2> QED
    BY <2>2, <2>3, <2>4 DEF Tame
<1>11. ASSUME NEW r \in Requests, FinishDownload(r) \/ FinishUpload(r) PROVE Tame
  BY <1>11 DEF FinishDownload, FinishUpload, Tame
<1>12. ASSUME NEW r \in Requests, NEW ok \in BOOLEAN, FailUpload(r, ok) PROVE Tame
  <2>1. tok[r] \in Tokens
    BY <1>12 DEF FailUpload
  <2>2. \A t \in Tokens : mem'[t] # NoShare =>
          mem[t] # NoShare /\ mem'[t].downloads = mem[t].downloads
    <3>1. CASE mem[tok[r]] # NoShare /\ mem[tok[r]].uploads > 0
      <4>1. [mem[tok[r]] EXCEPT !.uploads = @ - 1].downloads = mem[tok[r]].downloads
        BY <1>0, <2>1, <3>1 DEF Records, Share
      <4>2. mem' = [mem EXCEPT ![tok[r]] = [mem[tok[r]] EXCEPT !.uploads = @ - 1]]
        BY <1>12, <3>1 DEF FailUpload
      <4> QED
        BY <1>0, <2>1, <3>1, <4>1, <4>2 DEF Records
    <3>2. CASE ~ (mem[tok[r]] # NoShare /\ mem[tok[r]].uploads > 0)
      BY <1>12, <3>2 DEF FailUpload
    <3> QED
      BY <3>1, <3>2
  <2>3. disk' \in {disk, mem'}
    BY <1>12 DEF FailUpload, SaveLocked
  <2>4. UNCHANGED <<told, tok>> /\ pc' = [pc EXCEPT ![r] = "done"]
    BY <1>12 DEF FailUpload
  <2> QED
    BY <2>2, <2>3, <2>4 DEF Tame
<1>13. ASSUME NEW t \in Tokens, Lapse(t) PROVE Tame
  BY <1>13 DEF Lapse, Tame
<1>14. CASE UNCHANGED vars
  BY <1>14 DEF vars, Tame
<1> QED
  BY <1>2, <1>3, <1>4, <1>5, <1>6, <1>7, <1>8, <1>9, <1>10, <1>11, <1>12, <1>13, <1>14

(* The holders of a "1 download" link are the requests that download it.   *)
LEMMA OnceHolders ==
  ASSUME TypeOK, KindsMatch, NEW t \in Tokens, Expiry[t] = "1download"
  PROVE  Holders(t) = {r \in Requests : tok[r] = t /\ pc[r] \in Downloading}
BY ExpiryAssumption, KindAssumption DEF TypeOK, KindsMatch, Holders, Downloading

(* A tame step keeps the invariant, whichever action it is.                *)
LEMMA TameKeepsIInv ==
  ASSUME IInv, TypeOK', Tame
  PROVE  IInv'
<1> USE DEF IInv
<1>1. KindsMatch'
  BY DEF KindsMatch, Tame, Downloading, Uploading, TypeOK
<1>2. UnusedIsNowhere'
  BY DEF UnusedIsNowhere, Tame
<1>3. \A t \in Tokens : Expiry[t] = "1download" => Holders(t)' \subseteq Holders(t)
  <2> SUFFICES ASSUME NEW t \in Tokens, Expiry[t] = "1download", NEW r \in Holders(t)'
               PROVE  r \in Holders(t)
    OBVIOUS
  <2>1. r \in Requests /\ tok'[r] = t /\ pc'[r] \in Downloading
    BY <1>1, OnceHolders, KindAssumption, ExpiryAssumption DEF Holders, KindsMatch, Downloading
  <2>2. tok[r] = t /\ pc[r] \in Downloading
    BY <2>1 DEF Tame, Downloading
  <2> QED
    BY <2>1, <2>2 DEF Holders, Downloading
<1>4. GrantIsCounted'
  BY <1>3 DEF GrantIsCounted, Tame
<1>5. OneDownloadOnce'
  BY <1>3 DEF OneDownloadOnce
<1>6. LiveIsDurable'
  BY DEF LiveIsDurable, Tame
<1> QED
  BY <1>1, <1>2, <1>4, <1>5, <1>6

-----------------------------------------------------------------------------
(* The steps that are not tame.                                            *)

(* create uses a token that no request and no copy of the table knows.     *)
LEMMA CreateKeepsIInv ==
  ASSUME IInv, TypeOK', NEW t \in Tokens, NEW p \in Paths, NEW ok \in BOOLEAN,
         Create(t, p, ok)
  PROVE  IInv'
<1> USE DEF IInv
<1>1. /\ told[t] = "unused"
      /\ UNCHANGED <<lapsed, pc, tok>>
      /\ told' = [told EXCEPT ![t] = IF ok THEN "created" ELSE "failed"]
      /\ disk' = IF ok THEN mem' ELSE disk
  BY DEF Create, SaveLocked
<1>2. /\ mem'[t] # NoShare
      /\ \A u \in Tokens : u # t /\ mem'[u] # NoShare => mem'[u] = mem[u]
  <2>1. PruneLocked(mem) \in Records
        /\ \A u \in Tokens : PruneLocked(mem)[u] # NoShare => PruneLocked(mem)[u] = mem[u]
    BY PruneFacts DEF TypeOK, Records
  <2>2. mem' = [PruneLocked(mem) EXCEPT ![t] = NewShare(p)] /\ NewShare(p) \in Share
    BY DEF Create, NewShare, Share
  <2> QED
    BY <2>1, <2>2, NothingAssumption DEF Records
<1>3. \A r \in Requests : tok[r] # t
  BY <1>1 DEF UnusedIsNowhere
<1>4. /\ Holders(t) = {} /\ Holders(t)' = {}
      /\ \A u \in Tokens : Holders(u)' = Holders(u)
  BY <1>1, <1>3 DEF Holders
<1>5. KindsMatch'
  BY <1>1 DEF KindsMatch
<1>6. UnusedIsNowhere'
  <2> SUFFICES ASSUME NEW u \in Tokens, told'[u] = "unused"
               PROVE  /\ mem'[u] = NoShare /\ disk'[u] = NoShare
                      /\ \A r \in Requests : tok'[r] # u
    BY DEF UnusedIsNowhere
  <2>1. u # t /\ told[u] = "unused"
    BY <1>1 DEF TypeOK
  <2> QED
    BY <1>1, <1>2, <2>1 DEF UnusedIsNowhere
<1>7. GrantIsCounted'
  <2> SUFFICES ASSUME NEW u \in Tokens, Expiry[u] = "1download", Holders(u) # {}
               PROVE  /\ mem'[u] # NoShare => mem'[u].downloads >= 1
                      /\ disk'[u] # NoShare => disk'[u].downloads >= 1
    BY <1>4 DEF GrantIsCounted
  <2>1. u # t
    BY <1>4
  <2> QED
    BY <1>1, <1>2, <2>1 DEF GrantIsCounted
<1>8. OneDownloadOnce'
  BY <1>4 DEF OneDownloadOnce
<1>9. LiveIsDurable'
  <2> SUFFICES ASSUME NEW u \in Tokens, told'[u] = "created", mem'[u] # NoShare
               PROVE  disk'[u] # NoShare /\ disk'[u].downloads = mem'[u].downloads
    BY DEF LiveIsDurable
  <2>1. CASE ok
    BY <1>1, <2>1
  <2>2. CASE ~ ok
    <3>1. u # t /\ told[u] = "created"
      BY <1>1, <2>2 DEF TypeOK
    <3> QED
      BY <1>1, <1>2, <2>2, <3>1 DEF LiveIsDurable
  <2> QED
    BY <2>1, <2>2
<1> QED
  BY <1>5, <1>6, <1>7, <1>8, <1>9

(* beginDownload counts the transfer in both copies before it grants it, so*)
(* the record it found unused cannot have been granted before.             *)
LEMMA BeginDownloadKeepsIInv ==
  ASSUME IInv, TypeOK', NEW r \in Requests, NEW ok \in BOOLEAN, BeginDownload(r, ok)
  PROVE  IInv'
<1> USE DEF IInv
<1> DEFINE t == tok[r]
           m == PruneLocked(mem)
           counted == CountDownload(m, t)
<1>1. /\ t \in Tokens /\ m \in Records /\ m[t] # NoShare
      /\ pc[r] = "holding" /\ Kind[t] = "link"
      /\ UNCHANGED <<lapsed, told, tok>>
      /\ pc' = [pc EXCEPT ![r] = "sending"]
  BY PruneFacts DEF BeginDownload, TypeOK, Records
<1>2. /\ \A u \in Tokens : m[u] # NoShare => m[u] = mem[u]
      /\ ~ ShareExpired(t, mem[t])
  BY <1>1, PruneFacts DEF TypeOK, Records
<1>3. /\ counted \in Records /\ counted[t] # NoShare
      /\ counted[t].downloads = mem[t].downloads + 1
      /\ \A u \in Tokens : u # t => counted[u] = m[u]
  <2> HIDE DEF m
  <2> QED
    BY <1>1, <1>2, CountFacts
<1>4. /\ mem[t] # NoShare /\ mem[t].downloads \in Nat
      /\ counted[t].downloads >= 1
  BY <1>1, <1>2, <1>3 DEF TypeOK, Share
<1>5. /\ mem' \in {counted, Without(counted, {t})}
      /\ disk' \in {counted, mem'}
  BY DEF BeginDownload
<1>6. /\ \A u \in Tokens : mem'[u] # NoShare => mem'[u] = counted[u]
      /\ \A u \in Tokens : disk'[u] # NoShare => disk'[u] = counted[u]
      /\ \A u \in Tokens : mem'[u] # NoShare => disk'[u] = mem'[u]
  <2> HIDE DEF counted
  <2>1. \A u \in Tokens : Without(counted, {t})[u] # NoShare =>
          Without(counted, {t})[u] = counted[u]
    BY <1>3, WithoutFacts
  <2> QED
    BY <1>5, <2>1
<1> HIDE DEF m, counted
<1>7. told[t] # "unused"
  BY <1>1 DEF UnusedIsNowhere
<1>8. KindsMatch'
  BY <1>1 DEF KindsMatch, TypeOK
<1>9. UnusedIsNowhere'
  <2> SUFFICES ASSUME NEW u \in Tokens, told[u] = "unused"
               PROVE  mem'[u] = NoShare /\ disk'[u] = NoShare
    BY <1>1 DEF UnusedIsNowhere
  <2>1. u # t /\ mem[u] = NoShare
    BY <1>7 DEF UnusedIsNowhere
  <2> QED
    BY <1>2, <1>3, <1>6, <2>1
<1>10. \A u \in Tokens : u # t => Holders(u)' = Holders(u)
  BY <1>1 DEF Holders, TypeOK
<1>11. Holders(t)' = Holders(t) \cup {r}
  BY <1>1 DEF Holders, TypeOK
<1>12. GrantIsCounted'
  <2> SUFFICES ASSUME NEW u \in Tokens, Expiry[u] = "1download", Holders(u)' # {}
               PROVE  /\ mem'[u] # NoShare => mem'[u].downloads >= 1
                      /\ disk'[u] # NoShare => disk'[u].downloads >= 1
    BY DEF GrantIsCounted
  <2>1. CASE u = t
    BY <1>4, <1>6, <2>1
  <2>2. CASE u # t
    BY <1>2, <1>3, <1>6, <1>10, <2>2 DEF GrantIsCounted
  <2> QED
    BY <2>1, <2>2
<1>13. OneDownloadOnce'
  <2> SUFFICES ASSUME NEW u \in Tokens, Expiry[u] = "1download"
               PROVE  \A a, b \in Holders(u)' : a = b
    BY DEF OneDownloadOnce
  <2>1. CASE u = t
    <3>1. mem[t].downloads < 1
      BY <1>2, <1>4, <2>1 DEF ShareExpired, DownloadsUsedUp, MaxDownloads
    <3>2. Holders(t) = {}
      BY <1>1, <1>4, <2>1, <3>1 DEF GrantIsCounted
    <3>3. Holders(u)' = {r}
      BY <1>1, <1>11, <2>1, <3>2 DEF Holders
    <3> QED
      BY <3>3
  <2>2. CASE u # t
    BY <1>10, <2>2 DEF OneDownloadOnce
  <2> QED
    BY <2>1, <2>2
<1>14. LiveIsDurable'
  BY <1>6 DEF LiveIsDurable
<1> QED
  BY <1>8, <1>9, <1>12, <1>13, <1>14

(* openShareStore reads back a file that knows every granted transfer.     *)
LEMMA RestartKeepsIInv ==
  ASSUME IInv, TypeOK', Restart
  PROVE  IInv'
<1> USE DEF IInv
<1>1. /\ mem' = disk /\ disk' = disk /\ UNCHANGED <<lapsed, told, tok>>
      /\ \A r \in Requests : pc'[r] = Killed(pc[r])
  BY DEF Restart
<1>2. \A r \in Requests :
        /\ pc'[r] \in Downloading => pc[r] \in Downloading
        /\ pc'[r] \in Uploading => pc[r] \in Uploading
        /\ pc[r] \in Downloading => pc'[r] \in Downloading
        /\ pc[r] \in Uploading => pc'[r] \in Uploading
  BY <1>1 DEF Killed, Downloading, Uploading
<1>3. KindsMatch'
  BY <1>1, <1>2 DEF KindsMatch, Downloading, Uploading
<1>4. UnusedIsNowhere'
  BY <1>1 DEF UnusedIsNowhere
<1>5. \A t \in Tokens : Holders(t)' = Holders(t)
  BY <1>1, <1>2 DEF Holders, Downloading, Uploading
<1>6. GrantIsCounted'
  BY <1>1, <1>5 DEF GrantIsCounted
<1>7. OneDownloadOnce'
  BY <1>5 DEF OneDownloadOnce
<1>8. LiveIsDurable'
  BY <1>1 DEF LiveIsDurable
<1> QED
  BY <1>3, <1>4, <1>6, <1>7, <1>8

-----------------------------------------------------------------------------
(* The theorems.                                                           *)

(* An empty store, before the first create.                                *)
LEMMA InitIInv == Init => IInv
<1> SUFFICES ASSUME Init PROVE IInv
  OBVIOUS
<1> USE DEF Init
<1>1. TypeOK
  BY DEF TypeOK
<1>2. KindsMatch
  BY DEF KindsMatch
<1>3. UnusedIsNowhere
  BY NothingAssumption DEF UnusedIsNowhere
<1>4. \A t \in Tokens : Holders(t) = {}
  BY DEF Holders
<1>5. GrantIsCounted /\ OneDownloadOnce
  BY <1>4 DEF GrantIsCounted, OneDownloadOnce
<1>6. LiveIsDurable
  BY DEF LiveIsDurable
<1> QED
  BY <1>1, <1>2, <1>3, <1>5, <1>6 DEF IInv

(* Every call of the store and every step of a request (shares.go:113-434).*)
LEMMA StepIInv == IInv /\ [Next]_vars => IInv'
<1> SUFFICES ASSUME IInv, [Next]_vars PROVE IInv'
  OBVIOUS
<1>1. TypeOK'
  BY TypeStep DEF IInv
<1>2. CASE \E t \in Tokens, p \in Paths, ok \in BOOLEAN : Create(t, p, ok)
  BY <1>1, <1>2, CreateKeepsIInv
<1>3. CASE \E r \in Requests, ok \in BOOLEAN : BeginDownload(r, ok)
  BY <1>1, <1>3, BeginDownloadKeepsIInv
<1>4. CASE Restart
  BY <1>1, <1>4, RestartKeepsIInv
<1>5. ASSUME ~ (\E t \in Tokens, p \in Paths, ok \in BOOLEAN : Create(t, p, ok)),
             ~ (\E r \in Requests, ok \in BOOLEAN : BeginDownload(r, ok)),
             ~ Restart
      PROVE  Tame
  BY <1>5, TameSteps DEF Next
<1> QED
  BY <1>1, <1>2, <1>3, <1>4, <1>5, TameKeepsIInv

(* The inductive invariant holds of the store and its requests             *)
(* (shares.go:113-434).                                                    *)
THEOREM Invariance == Spec => []IInv
BY InitIInv, StepIInv, PTL DEF Spec

(* Type correctness of both copies of the table and of the requests        *)
(* (shares.go:33-53).                                                      *)
THEOREM TypeCorrect == Spec => []TypeOK
<1>1. IInv => TypeOK
  BY DEF IInv
<1> QED
  BY <1>1, Invariance, PTL

(* For any number of shares, requests, failed saves and restarts, a "1     *)
(* download" link starts at most one transfer (shares.go:263-305).         *)
THEOREM OneDownloadIsOnce == Spec => []OneDownloadOnce
<1>1. IInv => OneDownloadOnce
  BY DEF IInv
<1> QED
  BY <1>1, Invariance, PTL

(* A created share that requests can open is in shares.json with all its   *)
(* downloads (shares.go:196-213, 287-305).                                 *)
THEOREM LiveSharesAreDurable == Spec => []LiveIsDurable
<1>1. IInv => LiveIsDurable
  BY DEF IInv
<1> QED
  BY <1>1, Invariance, PTL

-----------------------------------------------------------------------------
(* Quotas of drop boxes, and the promise.                                  *)
(*                                                                         *)
(* The counter of a drop box has two copies as well, and unlike downloads  *)
(* its units come back.  Each copy that still has the record counts at     *)
(* least the requests that hold a slot.  Holders are finite because every  *)
(* step adds at most one.                                                  *)

HoldersFinite == \A t \in Tokens : IsFiniteSet(Holders(t))

UploadsCountedInMemory ==
  \A t \in Tokens : Kind[t] = "drop" /\ mem[t] # NoShare =>
    Cardinality(Holders(t)) <= mem[t].uploads

QuotaInv ==
  /\ IInv
  /\ HoldersFinite
  /\ UploadsCountedInMemory
  /\ UploadsCountedOnDisk
  /\ DropQuota

(* The record of t that a copy has after the step is one that memory or    *)
(* the file had before, as far as its uploads are concerned.               *)
SameUploads(t) ==
  \A new \in {mem'[t], disk'[t]} : new # NoShare =>
    \E sh \in {mem[t], disk[t]} : sh # NoShare /\ new.uploads = sh.uploads

(* Only three steps change who holds a slot: beginDownload, a beginUpload  *)
(* that was saved, and an upload that fails.                               *)
LEMMA HoldersStay ==
  ASSUME TypeOK, TypeOK', [Next]_vars,
         ~ (\E r \in Requests, ok \in BOOLEAN : BeginDownload(r, ok)),
         ~ (\E r \in Requests : BeginUpload(r, TRUE)),
         ~ (\E r \in Requests, ok \in BOOLEAN : FailUpload(r, ok)),
         NEW t \in Tokens
  PROVE  Holders(t)' = Holders(t)
<1> DEFINE Holding == {"sending", "sent", "receiving", "stored", "cut"}
<1>1. SUFFICES \A r \in Requests : /\ pc'[r] \in Holding <=> pc[r] \in Holding
                                   /\ pc[r] \in Holding => tok'[r] = tok[r]
  BY DEF Holders
<1> USE DEF TypeOK
<1>2. ASSUME NEW u \in Tokens, NEW p \in Paths, NEW ok \in BOOLEAN, Create(u, p, ok)
      PROVE  UNCHANGED <<pc, tok>>
  BY <1>2 DEF Create
<1>3. ASSUME NEW u \in Tokens, NEW ok \in BOOLEAN, Revoke(u, ok) PROVE UNCHANGED <<pc, tok>>
  BY <1>3 DEF Revoke
<1>4. ASSUME NEW p \in Paths, NEW ok \in BOOLEAN, RemoveByPathPrefix(p, ok)
      PROVE  UNCHANGED <<pc, tok>>
  BY <1>4 DEF RemoveByPathPrefix
<1>5. ASSUME NEW p \in Paths, NEW q \in Paths, NEW ok \in BOOLEAN, RewritePathPrefix(p, q, ok)
      PROVE  UNCHANGED <<pc, tok>>
  BY <1>5 DEF RewritePathPrefix
<1>6. ASSUME ListPublic \/ (\E u \in Tokens : Lapse(u)) \/ UNCHANGED vars
      PROVE  UNCHANGED <<pc, tok>>
  BY <1>6 DEF ListPublic, Lapse, vars
<1>7. CASE UNCHANGED <<pc, tok>>
  BY <1>7
<1>8. ASSUME NEW r \in Requests, NEW u \in Tokens, GetValid(r, u)
      PROVE  \A s \in Requests : /\ pc'[s] \in Holding <=> pc[s] \in Holding
                                 /\ pc[s] \in Holding => tok'[s] = tok[s]
  BY <1>8 DEF GetValid
<1>9. ASSUME NEW r \in Requests, NEW u \in Tokens, NEW ok \in BOOLEAN, LapseDuringCall(r, u, ok)
      PROVE  \A s \in Requests : /\ pc'[s] \in Holding <=> pc[s] \in Holding
                                 /\ pc[s] \in Holding => tok'[s] = tok[s]
  BY <1>9 DEF LapseDuringCall
<1>10. ASSUME NEW r \in Requests,
              \/ ServePage(r) \/ Refuse(r) \/ DownloadNotSaved(r)
              \/ BeginUpload(r, FALSE) \/ FinishDownload(r) \/ FinishUpload(r)
       PROVE  \A s \in Requests : /\ pc'[s] \in Holding <=> pc[s] \in Holding
                                  /\ pc[s] \in Holding => tok'[s] = tok[s]
  BY <1>10 DEF ServePage, Refuse, DownloadNotSaved, BeginUpload, FinishDownload, FinishUpload
<1>11. ASSUME Restart
       PROVE  \A s \in Requests : /\ pc'[s] \in Holding <=> pc[s] \in Holding
                                  /\ pc[s] \in Holding => tok'[s] = tok[s]
  BY <1>11 DEF Restart, Killed
<1> QED
  BY <1>2, <1>3, <1>4, <1>5, <1>6, <1>7, <1>8, <1>9, <1>10, <1>11 DEF Next

(* Only create, beginUpload and undoUpload make an upload count that no    *)
(* copy of the record had before (shares.go:196, 397, 418).                *)
LEMMA UploadsStay ==
  ASSUME TypeOK, [Next]_vars, NEW t \in Tokens, Kind[t] = "drop",
         ~ (\E p \in Paths, ok \in BOOLEAN : Create(t, p, ok)),
         ~ (\E r \in Requests, ok \in BOOLEAN : tok[r] = t /\ BeginUpload(r, ok)),
         ~ (\E r \in Requests, ok \in BOOLEAN : tok[r] = t /\ FailUpload(r, ok))
  PROVE  SameUploads(t)
<1> USE DEF TypeOK
<1>0. /\ mem \in Records /\ PruneLocked(mem) \in Records
      /\ \A u \in Tokens : PruneLocked(mem)[u] # NoShare => PruneLocked(mem)[u] = mem[u]
  BY PruneFacts DEF Records
<1>1. ASSUME mem'[t] # NoShare => mem[t] # NoShare /\ mem'[t].uploads = mem[t].uploads,
             disk'[t] \in {disk[t], mem'[t]}
      PROVE  SameUploads(t)
  BY <1>1 DEF SameUploads
<1>2. ASSUME NEW u \in Tokens, NEW p \in Paths, NEW ok \in BOOLEAN, Create(u, p, ok)
      PROVE  SameUploads(t)
  <2>1. u # t BY <1>2
  <2>2. mem'[t] = PruneLocked(mem)[t] BY <1>0, <1>2, <2>1 DEF Create, Records
  <2> QED BY <1>0, <1>1, <1>2, <2>2 DEF Create, SaveLocked
<1>3. CASE ListPublic \/ (\E u \in Tokens : Lapse(u)) \/ UNCHANGED vars
  BY <1>0, <1>1, <1>3 DEF ListPublic, Lapse, vars
<1>4. ASSUME NEW u \in Tokens, NEW ok \in BOOLEAN, Revoke(u, ok) PROVE SameUploads(t)
  BY <1>0, <1>1, <1>4, WithoutFacts DEF Revoke, SaveLocked
<1>5. ASSUME NEW p \in Paths, NEW ok \in BOOLEAN, RemoveByPathPrefix(p, ok)
      PROVE  SameUploads(t)
  BY <1>0, <1>1, <1>5, WithoutFacts DEF RemoveByPathPrefix, SaveLocked
<1>6. ASSUME NEW p \in Paths, NEW q \in Paths, NEW ok \in BOOLEAN, RewritePathPrefix(p, q, ok)
      PROVE  SameUploads(t)
  <2> DEFINE under == {u \in Live(mem) : IsPrefix(p, mem[u].path)}
  <2>1. mem'[t] = IF t \in under THEN [mem[t] EXCEPT !.path = Rewritten(@, p, q)] ELSE mem[t]
    BY <1>6 DEF RewritePathPrefix
  <2>2. t \in under => mem[t] # NoShare /\ mem[t] \in Share
    BY <1>0 DEF Live, Records
  <2>3. t \in under => [mem[t] EXCEPT !.path = Rewritten(@, p, q)].uploads = mem[t].uploads
    BY <2>2 DEF Share
  <2> QED
    BY <1>1, <1>6, <2>1, <2>2, <2>3 DEF RewritePathPrefix, SaveLocked
<1>7. ASSUME NEW r \in Requests, NEW u \in Tokens, GetValid(r, u) PROVE SameUploads(t)
  BY <1>0, <1>1, <1>7 DEF GetValid
<1>8. ASSUME NEW r \in Requests, NEW u \in Tokens, NEW ok \in BOOLEAN, LapseDuringCall(r, u, ok)
      PROVE  SameUploads(t)
  BY <1>0, <1>1, <1>8, WithoutFacts DEF LapseDuringCall, SaveLocked
<1>9. ASSUME NEW r \in Requests,
             ServePage(r) \/ Refuse(r) \/ FinishDownload(r) \/ FinishUpload(r)
      PROVE  SameUploads(t)
  BY <1>0, <1>1, <1>9 DEF ServePage, Refuse, FinishDownload, FinishUpload
<1>10. ASSUME NEW r \in Requests, DownloadNotSaved(r) PROVE SameUploads(t)
  <2>1. mem' = PruneLocked(mem) /\ disk' = disk
    BY <1>0, <1>10, CountFacts DEF DownloadNotSaved
  <2> QED BY <1>0, <1>1, <2>1
<1>11. ASSUME NEW r \in Requests, NEW ok \in BOOLEAN, BeginDownload(r, ok) PROVE SameUploads(t)
  <2> DEFINE m == PruneLocked(mem)
             counted == CountDownload(m, tok[r])
  <2>1. tok[r] \in Tokens /\ m[tok[r]] # NoShare /\ t # tok[r]
    BY <1>11 DEF BeginDownload
  <2>2. counted \in Records /\ counted[t] = m[t]
    <3> HIDE DEF m
    <3> QED BY <1>0, <2>1, CountFacts DEF m
  <2>3. mem' \in {counted, Without(counted, {tok[r]})} /\ disk' \in {counted, mem'}
    BY <1>11 DEF BeginDownload
  <2> HIDE DEF counted
  <2>4. mem'[t] = m[t] /\ disk'[t] = m[t]
    BY <2>1, <2>2, <2>3 DEF Without
  <2> QED BY <1>0, <1>1, <2>4
<1>12. ASSUME NEW r \in Requests, NEW ok \in BOOLEAN, BeginUpload(r, ok) PROVE SameUploads(t)
  <2>1. tok[r] \in Tokens /\ tok[r] # t /\ PruneLocked(mem)[tok[r]] # NoShare
    BY <1>12 DEF BeginUpload
  <2>2. mem'[t] = PruneLocked(mem)[t]
    BY <1>0, <1>12, <2>1, CountFacts DEF BeginUpload
  <2> QED BY <1>0, <1>1, <1>12, <2>2 DEF BeginUpload, SaveLocked
<1>13. ASSUME NEW r \in Requests, NEW ok \in BOOLEAN, FailUpload(r, ok) PROVE SameUploads(t)
  <2>1. tok[r] # t BY <1>13
  <2>2. mem'[t] = mem[t] BY <1>13, <2>1 DEF FailUpload
  <2> QED BY <1>1, <1>13, <2>2 DEF FailUpload, SaveLocked
<1>14. CASE Restart
  BY <1>14 DEF Restart, SameUploads
<1> QED
  BY <1>2, <1>3, <1>4, <1>5, <1>6, <1>7, <1>8, <1>9, <1>10, <1>11, <1>12, <1>13, <1>14 DEF Next

(* A step that does neither keeps every count above the holders.           *)
LEMMA QuietQuota ==
  ASSUME QuotaInv, NEW t \in Tokens, Kind[t] = "drop",
         Holders(t)' = Holders(t), SameUploads(t)
  PROVE  /\ Cardinality(Holders(t)') <= DropMaxUploads
         /\ mem'[t] # NoShare => Cardinality(Holders(t)') <= mem'[t].uploads
         /\ disk'[t] # NoShare => Cardinality(Holders(t)') <= disk'[t].uploads
BY DEF QuotaInv, UploadsCountedInMemory, UploadsCountedOnDisk, DropQuota, SameUploads

(* beginUpload counts in both copies before it grants (shares.go:397-416). *)
LEMMA BeginUploadQuota ==
  ASSUME QuotaInv, NEW r \in Requests, NEW ok \in BOOLEAN, BeginUpload(r, ok),
         NEW t \in Tokens, t = tok[r]
  PROVE  /\ Kind[t] = "drop" /\ r \notin Holders(t)
         /\ Holders(t)' = IF ok THEN Holders(t) \cup {r} ELSE Holders(t)
         /\ \A u \in Tokens : u # t => Holders(u)' = Holders(u)
         /\ Cardinality(Holders(t)') <= DropMaxUploads
         /\ mem'[t] # NoShare => Cardinality(Holders(t)') <= mem'[t].uploads
         /\ disk'[t] # NoShare => Cardinality(Holders(t)') <= disk'[t].uploads
         /\ ok => mem[t] # NoShare /\ Cardinality(Holders(t)) < DropMaxUploads
<1> DEFINE m == PruneLocked(mem)
<1> USE DEF QuotaInv, IInv, TypeOK
<1>1. /\ m \in Records /\ m[t] # NoShare /\ pc[r] = "holding" /\ Kind[t] = "drop"
      /\ mem' = CountUpload(m, t) /\ disk' = IF ok THEN mem' ELSE disk
      /\ pc' = [pc EXCEPT ![r] = IF ok THEN "receiving" ELSE "done"] /\ tok' = tok
  BY PruneFacts DEF BeginUpload, SaveLocked, Records
<1>2. /\ m[t] = mem[t] /\ ~ ShareExpired(t, mem[t]) /\ mem[t] # NoShare
  BY <1>1, PruneFacts DEF Records
<1>3. mem[t].uploads \in Nat /\ mem[t].uploads < DropMaxUploads
  BY <1>1, <1>2, LimitAssumption DEF ShareExpired, UploadsUsedUp, Share
<1>4. mem'[t].uploads = mem[t].uploads + 1
  <2> HIDE DEF m
  <2> QED BY <1>1, <1>2 DEF CountUpload, Records, Share
<1>5. /\ r \notin Holders(t)
      /\ Holders(t)' = IF ok THEN Holders(t) \cup {r} ELSE Holders(t)
      /\ \A u \in Tokens : u # t => Holders(u)' = Holders(u)
  <2>1. /\ pc = [q \in Requests |-> pc[q]] /\ t = tok[r] /\ r \in Requests
        /\ pc' = [pc EXCEPT ![r] = IF ok THEN "receiving" ELSE "done"]
        /\ tok' = tok /\ pc[r] = "holding"
    BY <1>1
  <2> HIDE DEF QuotaInv, IInv, TypeOK, m
  <2> QED BY <2>1 DEF Holders
<1>6. /\ IsFiniteSet(Holders(t)) /\ Cardinality(Holders(t)) \in Nat
      /\ Cardinality(Holders(t)) <= mem[t].uploads
  <2>1. IsFiniteSet(Holders(t)) BY <1>1 DEF HoldersFinite
  <2>2. Cardinality(Holders(t)) <= mem[t].uploads
    BY <1>1, <1>2 DEF UploadsCountedInMemory
  <2> HIDE DEF QuotaInv, IInv, TypeOK
  <2> QED BY <2>1, <2>2, FS_CardinalityType
<1>7. ok => Cardinality(Holders(t)') = Cardinality(Holders(t)) + 1
  <2> HIDE DEF QuotaInv, IInv, TypeOK, m
  <2> QED BY <1>5, <1>6, FS_AddElement
<1>8. ~ ok => disk' = disk /\ Holders(t)' = Holders(t)
  BY <1>1, <1>5
<1>9. ~ ok /\ disk[t] # NoShare => Cardinality(Holders(t)) <= disk[t].uploads
  BY <1>1 DEF UploadsCountedOnDisk
<1> HIDE DEF m, QuotaInv, IInv, TypeOK
<1>10. Cardinality(Holders(t)) < DropMaxUploads /\ DropMaxUploads \in Nat
  BY <1>3, <1>6, LimitAssumption
<1>11. CASE ok
  <2>1. mem'[t].uploads = disk'[t].uploads BY <1>1, <1>11
  <2> QED BY <1>1, <1>2, <1>3, <1>4, <1>5, <1>6, <1>7, <1>10, <1>11, <2>1
<1>12. CASE ~ ok
  BY <1>1, <1>3, <1>4, <1>5, <1>6, <1>8, <1>9, <1>10, <1>12
<1> QED BY <1>11, <1>12

(* undoUpload takes the slot back from the request that held it, and takes *)
(* the unit from the copies that still count it (shares.go:418-434).       *)
LEMMA FailUploadQuota ==
  ASSUME QuotaInv, NEW r \in Requests, NEW ok \in BOOLEAN, FailUpload(r, ok),
         NEW t \in Tokens, t = tok[r]
  PROVE  /\ Kind[t] = "drop" /\ r \in Holders(t)
         /\ Holders(t)' = Holders(t) \ {r}
         /\ \A u \in Tokens : u # t => Holders(u)' = Holders(u)
         /\ Cardinality(Holders(t)') <= DropMaxUploads
         /\ mem'[t] # NoShare => Cardinality(Holders(t)') <= mem'[t].uploads
         /\ disk'[t] # NoShare => Cardinality(Holders(t)') <= disk'[t].uploads
<1> USE DEF QuotaInv, IInv, TypeOK
<1>1. /\ pc[r] = "receiving" /\ pc' = [pc EXCEPT ![r] = "done"] /\ tok' = tok
      /\ Kind[t] = "drop"
  BY DEF FailUpload, KindsMatch
<1>2. /\ r \in Holders(t)
      /\ Holders(t)' = Holders(t) \ {r}
      /\ \A u \in Tokens : u # t => Holders(u)' = Holders(u)
  <2>1. pc = [q \in Requests |-> pc[q]] /\ t = tok[r] /\ r \in Requests OBVIOUS
  <2> HIDE DEF QuotaInv, IInv, TypeOK
  <2> QED BY <1>1, <2>1 DEF Holders
<1>3. /\ Cardinality(Holders(t)) \in Nat /\ IsFiniteSet(Holders(t))
      /\ Cardinality(Holders(t)') = Cardinality(Holders(t)) - 1
      /\ Cardinality(Holders(t)) <= DropMaxUploads
  <2>1. IsFiniteSet(Holders(t)) BY DEF HoldersFinite
  <2>2. Cardinality(Holders(t)) <= DropMaxUploads BY <1>1 DEF DropQuota
  <2> HIDE DEF QuotaInv, IInv, TypeOK
  <2> QED BY <1>2, <2>1, <2>2, FS_RemoveElement, FS_CardinalityType
<1>4. /\ mem[t] # NoShare => mem[t].uploads \in Nat /\ Cardinality(Holders(t)) <= mem[t].uploads
      /\ disk[t] # NoShare => disk[t].uploads \in Nat /\ Cardinality(Holders(t)) <= disk[t].uploads
  BY <1>1 DEF UploadsCountedInMemory, UploadsCountedOnDisk, Share
<1>5. CASE mem[t] # NoShare /\ mem[t].uploads > 0
  <2>1. mem'[t] = [mem[t] EXCEPT !.uploads = mem[t].uploads - 1] /\ disk' \in {mem', disk}
    BY <1>5 DEF FailUpload, SaveLocked
  <2>2. mem'[t].uploads = mem[t].uploads - 1
    BY <2>1, <1>5 DEF Share
  <2>3. disk'[t] \in {mem'[t], disk[t]} BY <2>1
  <2> HIDE DEF QuotaInv
  <2> QED BY <1>1, <1>2, <1>3, <1>4, <1>5, <2>2, <2>3, LimitAssumption
<1>6. CASE ~ (mem[t] # NoShare /\ mem[t].uploads > 0)
  <2>1. mem' = mem /\ disk' = disk BY <1>6 DEF FailUpload
  <2> HIDE DEF QuotaInv
  <2> QED BY <1>1, <1>2, <1>3, <1>4, <2>1, LimitAssumption
<1> QED BY <1>5, <1>6

(* beginDownload grants one transfer of a link; of a "1 download" link it  *)
(* is the first.                                                           *)
LEMMA BeginDownloadHolders ==
  ASSUME IInv, NEW r \in Requests, NEW ok \in BOOLEAN, BeginDownload(r, ok),
         NEW t \in Tokens, t = tok[r]
  PROVE  /\ Kind[t] = "link" /\ mem[t] # NoShare /\ r \notin Holders(t)
         /\ Holders(t)' = Holders(t) \cup {r}
         /\ \A u \in Tokens : u # t => Holders(u)' = Holders(u)
         /\ Expiry[t] = "1download" => Holders(t) = {}
<1> USE DEF IInv, TypeOK
<1>1. /\ Kind[t] = "link" /\ PruneLocked(mem)[t] # NoShare /\ pc[r] = "holding"
      /\ pc' = [pc EXCEPT ![r] = "sending"] /\ tok' = tok
  BY DEF BeginDownload
<1>2. mem[t] # NoShare /\ ~ ShareExpired(t, mem[t])
  BY <1>1, PruneFacts DEF Records
<1>3. Expiry[t] = "1download" => mem[t].downloads < 1 /\ mem[t].downloads \in Nat
  BY <1>2 DEF ShareExpired, DownloadsUsedUp, MaxDownloads, Share
<1>4. Expiry[t] = "1download" => Holders(t) = {}
  BY <1>2, <1>3 DEF GrantIsCounted
<1> QED BY <1>1, <1>2, <1>4 DEF Holders

(* A created token has no holders yet.                                     *)
LEMMA CreateHolders ==
  ASSUME IInv, NEW t \in Tokens, NEW p \in Paths, NEW ok \in BOOLEAN, Create(t, p, ok)
  PROVE  /\ Holders(t) = {} /\ \A u \in Tokens : Holders(u)' = Holders(u)
         /\ mem'[t] = NewShare(p) /\ disk'[t] \in {NoShare, mem'[t]}
<1> USE DEF IInv, TypeOK
<1>1. told[t] = "unused" /\ pc' = pc /\ tok' = tok BY DEF Create
<1>2. (\A r \in Requests : tok[r] # t) /\ disk[t] = NoShare
  BY <1>1 DEF UnusedIsNowhere
<1>3. PruneLocked(mem) \in Records BY PruneFacts DEF Records
<1>4. mem'[t] = NewShare(p) BY <1>3 DEF Create, Records
<1> QED BY <1>1, <1>2, <1>4 DEF Holders, Create, SaveLocked

LEMMA QuotaStep == QuotaInv /\ [Next]_vars => QuotaInv'
<1> SUFFICES ASSUME QuotaInv, [Next]_vars PROVE QuotaInv'
  OBVIOUS
<1>1. IInv /\ IInv' BY StepIInv DEF QuotaInv
<1>2. TypeOK /\ TypeOK' BY <1>1 DEF IInv
<1> DEFINE Fine(t) ==
             /\ IsFiniteSet(Holders(t)')
             /\ Kind[t] = "drop" =>
                  /\ Cardinality(Holders(t)') <= DropMaxUploads
                  /\ mem'[t] # NoShare => Cardinality(Holders(t)') <= mem'[t].uploads
                  /\ disk'[t] # NoShare => Cardinality(Holders(t)') <= disk'[t].uploads
<1>3. \A t \in Tokens : IsFiniteSet(Holders(t)) BY DEF QuotaInv, HoldersFinite
<1>4. SUFFICES ASSUME NEW t \in Tokens PROVE Fine(t)
  BY <1>1 DEF QuotaInv, HoldersFinite, UploadsCountedInMemory, UploadsCountedOnDisk, DropQuota
<1>5. ASSUME NEW p \in Paths, NEW ok \in BOOLEAN, Create(t, p, ok) PROVE Fine(t)
  <2>1. Holders(t)' = Holders(t) /\ Holders(t) = {}
    BY <1>1, <1>5, CreateHolders
  <2>2. mem'[t] = NewShare(p) /\ disk'[t] \in {NoShare, mem'[t]}
    BY <1>1, <1>5, CreateHolders
  <2>3. mem'[t].uploads = 0 BY <2>2 DEF NewShare
  <2> QED BY <2>1, <2>2, <2>3, FS_EmptySet, LimitAssumption
<1>6. ASSUME NEW r \in Requests, NEW ok \in BOOLEAN, tok[r] = t, BeginUpload(r, ok)
      PROVE  Fine(t)
  <2>1. /\ Holders(t)' = IF ok THEN Holders(t) \cup {r} ELSE Holders(t)
        /\ Cardinality(Holders(t)') <= DropMaxUploads
        /\ mem'[t] # NoShare => Cardinality(Holders(t)') <= mem'[t].uploads
        /\ disk'[t] # NoShare => Cardinality(Holders(t)') <= disk'[t].uploads
    <3>1. t = tok[r] BY <1>6
    <3> QED BY ONLY QuotaInv, t \in Tokens, <1>6, <3>1, BeginUploadQuota
  <2>2. IsFiniteSet(Holders(t) \cup {r}) BY <1>3, FS_AddElement
  <2> QED BY <1>3, <2>1, <2>2
<1>7. ASSUME NEW r \in Requests, NEW ok \in BOOLEAN, tok[r] = t, FailUpload(r, ok)
      PROVE  Fine(t)
  <2>1. /\ Holders(t)' = Holders(t) \ {r}
        /\ Cardinality(Holders(t)') <= DropMaxUploads
        /\ mem'[t] # NoShare => Cardinality(Holders(t)') <= mem'[t].uploads
        /\ disk'[t] # NoShare => Cardinality(Holders(t)') <= disk'[t].uploads
    <3>1. t = tok[r] BY <1>7
    <3> QED BY ONLY QuotaInv, t \in Tokens, <1>7, <3>1, FailUploadQuota
  <2>2. IsFiniteSet(Holders(t) \ {r}) BY <1>3, FS_RemoveElement
  <2> QED BY <2>1, <2>2
<1>8. ASSUME NEW r \in Requests, NEW ok \in BOOLEAN, tok[r] = t, BeginDownload(r, ok)
      PROVE  Fine(t)
  <2>1. Kind[t] = "link" /\ Holders(t)' = Holders(t) \cup {r}
    BY <1>1, <1>8, BeginDownloadHolders
  <2> QED BY <1>3, <2>1, FS_AddElement
<1>9. ASSUME ~ (\E r \in Requests, ok \in BOOLEAN : tok[r] = t /\ BeginUpload(r, ok)),
             ~ (\E r \in Requests, ok \in BOOLEAN : tok[r] = t /\ FailUpload(r, ok)),
             ~ (\E r \in Requests, ok \in BOOLEAN : tok[r] = t /\ BeginDownload(r, ok))
      PROVE  Holders(t)' = Holders(t)
  <2>1. ASSUME NEW r \in Requests, NEW ok \in BOOLEAN, BeginDownload(r, ok)
        PROVE  Holders(t)' = Holders(t)
    <3>1. tok[r] \in Tokens BY <1>2, <2>1 DEF BeginDownload, TypeOK
    <3> QED BY <1>1, <1>9, <2>1, <3>1, BeginDownloadHolders
  <2>2. ASSUME NEW r \in Requests, BeginUpload(r, TRUE) PROVE Holders(t)' = Holders(t)
    <3>1. tok[r] \in Tokens BY <1>2, <2>2 DEF BeginUpload, TypeOK
    <3> QED BY <1>9, <2>2, <3>1, BeginUploadQuota
  <2>3. ASSUME NEW r \in Requests, NEW ok \in BOOLEAN, FailUpload(r, ok)
        PROVE  Holders(t)' = Holders(t)
    <3>1. tok[r] \in Tokens BY <1>2, <2>3 DEF FailUpload, TypeOK
    <3> QED BY <1>9, <2>3, <3>1, FailUploadQuota
  <2> QED BY <1>2, <2>1, <2>2, <2>3, HoldersStay
<1>10. ASSUME ~ (\E p \in Paths, ok \in BOOLEAN : Create(t, p, ok)),
              ~ (\E r \in Requests, ok \in BOOLEAN : tok[r] = t /\ BeginUpload(r, ok)),
              ~ (\E r \in Requests, ok \in BOOLEAN : tok[r] = t /\ FailUpload(r, ok)),
              ~ (\E r \in Requests, ok \in BOOLEAN : tok[r] = t /\ BeginDownload(r, ok))
       PROVE  Fine(t)
  <2>1. Holders(t)' = Holders(t) BY <1>9, <1>10
  <2>2. Kind[t] = "drop" => SameUploads(t) BY <1>2, <1>10, UploadsStay
  <2> QED BY <1>3, <2>1, <2>2, QuietQuota
<1> QED BY <1>5, <1>6, <1>7, <1>8, <1>10

LEMMA QuotaInitially == Init => QuotaInv
<1> SUFFICES ASSUME Init PROVE QuotaInv
  OBVIOUS
<1>1. \A t \in Tokens : Holders(t) = {} /\ mem[t] = NoShare /\ disk[t] = NoShare
  BY DEF Init, Holders
<1> QED
  BY <1>1, InitIInv, FS_EmptySet, LimitAssumption
  DEF QuotaInv, HoldersFinite, UploadsCountedInMemory, UploadsCountedOnDisk, DropQuota

THEOREM QuotaInvariance == Spec => []QuotaInv
BY QuotaInitially, QuotaStep, PTL DEF Spec

(* Uploads stored, in flight or cut by a crash never exceed the quota of   *)
(* their drop box, however many requests, refunds, failed saves and        *)
(* restarts there are (src/README.md:143).                                 *)
THEOREM DropQuotaIsKept == Spec => []DropQuota
<1>1. QuotaInv => DropQuota BY DEF QuotaInv
<1> QED BY <1>1, QuotaInvariance, PTL

(* shares.json never counts fewer uploads than a drop box has accepted     *)
(* (shares.go:397-416).                                                    *)
THEOREM UploadsAreOnDisk == Spec => []UploadsCountedOnDisk
<1>1. QuotaInv => UploadsCountedOnDisk BY DEF QuotaInv
<1> QED BY <1>1, QuotaInvariance, PTL

-----------------------------------------------------------------------------
(* The promise: no step but create opens a token.                          *)

OpenTokens == {t \in Tokens : mem[t] # NoShare \/ disk[t] # NoShare}
FreshTokens == {t \in Tokens : told[t] = "unused"}
HoldersOf == [t \in Tokens |-> Holders(t)]

(* Memory and file only ever take records from each other.                 *)
LEMMA NothingOpens ==
  ASSUME IInv, [Next]_vars, NEW t \in Tokens,
         ~ (\E p \in Paths, ok \in BOOLEAN : Create(t, p, ok))
  PROVE  /\ mem'[t] # NoShare \/ disk'[t] # NoShare => mem[t] # NoShare \/ disk[t] # NoShare
         /\ told'[t] = "unused" <=> told[t] = "unused"
<1>0. TypeOK /\ mem \in Records /\ PruneLocked(mem) \in Records
  BY PruneFacts DEF IInv, TypeOK, Records
<1>1. PruneLocked(mem)[t] # NoShare => mem[t] # NoShare
  BY <1>0, PruneFacts DEF TypeOK
<1>2. ASSUME NEW u \in Tokens, NEW p \in Paths, NEW ok \in BOOLEAN, Create(u, p, ok)
      PROVE  /\ mem'[t] = PruneLocked(mem)[t] /\ disk'[t] \in {disk[t], mem'[t]}
             /\ told'[t] = told[t]
  <2>1. u # t BY <1>2
  <2> QED BY <1>0, <1>2, <2>1 DEF Create, SaveLocked, Records, TypeOK
<1>3. ASSUME NEW r \in Requests, NEW ok \in BOOLEAN, BeginDownload(r, ok)
      PROVE  /\ mem'[t] # NoShare \/ disk'[t] # NoShare => PruneLocked(mem)[t] # NoShare
             /\ told' = told
  <2> DEFINE m == PruneLocked(mem)
             counted == CountDownload(m, tok[r])
  <2>1. /\ m[tok[r]] # NoShare /\ told' = told
        /\ mem' \in {counted, Without(counted, {tok[r]})} /\ disk' \in {counted, mem'}
    BY <1>3 DEF BeginDownload
  <2>2. counted[t] # NoShare => m[t] # NoShare
    BY <1>0, <2>1 DEF CountDownload, Records
  <2> HIDE DEF counted, m
  <2> QED BY <2>1, <2>2 DEF Without, m
<1>4. CASE Restart
  BY <1>4 DEF Restart
<1>5. CASE Tame
  BY <1>5 DEF Tame
<1> QED
  BY <1>1, <1>2, <1>3, <1>4, <1>5, TameSteps DEF Next

(* A token that memory and file lost stays lost: no later save, rename or  *)
(* restart brings a removed share back (shares.go:215-328).                *)
THEOREM GoneStaysGone == Spec => GoneIsForever
<1> DEFINE Gone == \A t \in Tokens :
             told[t] # "unused" /\ mem[t] = NoShare /\ disk[t] = NoShare =>
               mem'[t] = NoShare /\ disk'[t] = NoShare
<1>1. ASSUME IInv, [Next]_vars PROVE Gone
  <2> SUFFICES ASSUME NEW t \in Tokens, told[t] # "unused",
                      mem[t] = NoShare, disk[t] = NoShare
               PROVE  mem'[t] = NoShare /\ disk'[t] = NoShare
    OBVIOUS
  <2>1. ~ (\E p \in Paths, ok \in BOOLEAN : Create(t, p, ok)) BY DEF Create
  <2> QED BY <1>1, <2>1, NothingOpens
<1>2. IInv /\ [Next]_vars => [Gone]_vars BY <1>1
<1> QED BY <1>2, Invariance, PTL DEF Spec, GoneIsForever

(* The tokens open after a step that creates none were open before.        *)
LEMMA OpenShrinks ==
  ASSUME IInv, [Next]_vars,
         ~ (\E t \in Tokens, p \in Paths, ok \in BOOLEAN : Create(t, p, ok))
  PROVE  OpenTokens' \in SUBSET OpenTokens /\ FreshTokens' = FreshTokens
BY NothingOpens DEF OpenTokens, FreshTokens

(* create mints its token, whatever became of the save.                    *)
LEMMA CreateMints ==
  ASSUME IInv, NEW t \in Tokens, NEW p \in Paths, NEW ok \in BOOLEAN, Create(t, p, ok)
  PROVE  Promise!Next
<1>1. [Next]_vars BY DEF Next
<1>2. t \in FreshTokens /\ FreshTokens' = FreshTokens \ {t}
  BY DEF Create, FreshTokens, IInv, TypeOK
<1>3. HoldersOf' = HoldersOf BY CreateHolders DEF HoldersOf
<1>4. \A u \in Tokens : u # t => ~ (\E q \in Paths, o \in BOOLEAN : Create(u, q, o))
  BY DEF Create, IInv, TypeOK
<1>5. \A u \in Tokens : u \in OpenTokens' => u = t \/ u \in OpenTokens
  BY <1>1, <1>4, NothingOpens DEF OpenTokens
<1>6. t \in OpenTokens'
  <2>1. mem'[t] = NewShare(p) /\ NewShare(p) \in Share
    BY CreateHolders DEF NewShare, Share
  <2> QED BY <2>1, NothingAssumption DEF OpenTokens
<1>7. OpenTokens' = {t} \cup (OpenTokens' \cap OpenTokens)
  <2>1. OpenTokens' \subseteq Tokens BY DEF OpenTokens
  <2> QED BY <1>5, <1>6, <2>1
<1>8. Promise!Mint(t)
  BY <1>2, <1>3, <1>7 DEF Promise!Mint, OpenTokens, FreshTokens, HoldersOf
<1> QED BY <1>8 DEF Promise!Next

(* The cardinality the promise counts with is that of this module.         *)
LEMMA SameCardinality == ASSUME NEW S PROVE Promise!Cardinality(S) = Cardinality(S)
BY DEF Cardinality, Promise!Cardinality

(* beginDownload and a saved beginUpload grant a unit the quota still has. *)
LEMMA BeginDownloadGrants ==
  ASSUME QuotaInv, NEW r \in Requests, NEW ok \in BOOLEAN, BeginDownload(r, ok)
  PROVE  Promise!Next
<1>1. IInv /\ [Next]_vars BY DEF QuotaInv, Next
<1>0. tok[r] \in Tokens /\ pc[r] = "holding" BY <1>1 DEF BeginDownload, IInv, TypeOK
<1>2. PICK t \in Tokens : t = tok[r] BY <1>0
<1>3. /\ Kind[t] = "link" /\ mem[t] # NoShare
      /\ Holders(t)' = Holders(t) \cup {r}
      /\ \A u \in Tokens : u # t => Holders(u)' = Holders(u)
      /\ Expiry[t] = "1download" => Holders(t) = {}
  BY <1>1, <1>2, BeginDownloadHolders
<1>4. \A u \in Tokens : r \notin Holders(u) BY <1>0 DEF Holders
<1>5. OpenTokens' \in SUBSET OpenTokens /\ FreshTokens' = FreshTokens
  <2>1. ~ (\E u \in Tokens, p \in Paths, o \in BOOLEAN : Create(u, p, o))
    BY <1>1, <1>0 DEF Create, BeginDownload, IInv, TypeOK
  <2> QED BY <1>1, <2>1, OpenShrinks
<1>6. HoldersOf' = [HoldersOf EXCEPT ![t] = @ \cup {r}]
  BY <1>2, <1>3 DEF HoldersOf
<1>7. MaxDownloads(t) > 0 => Cardinality(HoldersOf[t]) < 1
  BY <1>2, <1>3, FS_EmptySet DEF MaxDownloads, HoldersOf
<1>8. Promise!Grant(t, r)
  BY <1>2, <1>3, <1>4, <1>5, <1>6, <1>7, SameCardinality
  DEF Promise!Grant, Promise!CloseSome, OpenTokens, FreshTokens, HoldersOf
<1> QED BY <1>2, <1>8 DEF Promise!Next

LEMMA BeginUploadGrants ==
  ASSUME QuotaInv, NEW r \in Requests, BeginUpload(r, TRUE)
  PROVE  Promise!Next
<1>1. IInv /\ [Next]_vars BY DEF QuotaInv, Next
<1>0. tok[r] \in Tokens /\ pc[r] = "holding" BY <1>1 DEF BeginUpload, IInv, TypeOK
<1>2. PICK t \in Tokens : t = tok[r] BY <1>0
<1>3. /\ Kind[t] = "drop" /\ mem[t] # NoShare
      /\ Holders(t)' = Holders(t) \cup {r}
      /\ \A u \in Tokens : u # t => Holders(u)' = Holders(u)
      /\ Cardinality(Holders(t)) < DropMaxUploads
  BY <1>2, BeginUploadQuota
<1>4. \A u \in Tokens : r \notin Holders(u) BY <1>0 DEF Holders
<1>5. OpenTokens' \in SUBSET OpenTokens /\ FreshTokens' = FreshTokens
  <2>1. ~ (\E u \in Tokens, p \in Paths, o \in BOOLEAN : Create(u, p, o))
    BY <1>1, <1>0 DEF Create, BeginUpload, IInv, TypeOK
  <2> QED BY <1>1, <2>1, OpenShrinks
<1>6. HoldersOf' = [HoldersOf EXCEPT ![t] = @ \cup {r}]
  BY <1>2, <1>3 DEF HoldersOf
<1>7. Promise!Grant(t, r)
  BY <1>2, <1>3, <1>4, <1>5, <1>6, SameCardinality
  DEF Promise!Grant, Promise!CloseSome, OpenTokens, FreshTokens, HoldersOf
<1> QED BY <1>2, <1>7 DEF Promise!Next

(* A failed upload refunds its unit (shares.go:418-434).                   *)
LEMMA FailUploadRefunds ==
  ASSUME QuotaInv, NEW r \in Requests, NEW ok \in BOOLEAN, FailUpload(r, ok)
  PROVE  Promise!Next
<1>1. IInv /\ [Next]_vars BY DEF QuotaInv, Next
<1>0. tok[r] \in Tokens /\ pc[r] = "receiving" /\ pc'[r] = "done"
  BY <1>1 DEF FailUpload, IInv, TypeOK
<1>2. PICK t \in Tokens : t = tok[r] BY <1>0
<1>3. /\ Kind[t] = "drop" /\ r \in Holders(t)
      /\ Holders(t)' = Holders(t) \ {r}
      /\ \A u \in Tokens : u # t => Holders(u)' = Holders(u)
  BY <1>2, FailUploadQuota
<1>4. OpenTokens' \in SUBSET OpenTokens /\ FreshTokens' = FreshTokens
  <2>1. ~ (\E u \in Tokens, p \in Paths, o \in BOOLEAN : Create(u, p, o))
    BY <1>0 DEF Create
  <2> QED BY <1>1, <2>1, OpenShrinks
<1>5. HoldersOf' = [HoldersOf EXCEPT ![t] = @ \ {r}]
  BY <1>2, <1>3 DEF HoldersOf
<1>6. Promise!Refund(t, r)
  BY <1>2, <1>3, <1>4, <1>5
  DEF Promise!Refund, Promise!CloseSome, OpenTokens, FreshTokens, HoldersOf
<1> QED BY <1>2, <1>6 DEF Promise!Next

(* Any other step closes some tokens, or none.                             *)
LEMMA OtherStepsClose ==
  ASSUME QuotaInv, [Next]_vars,
         ~ (\E t \in Tokens, p \in Paths, ok \in BOOLEAN : Create(t, p, ok)),
         ~ (\E r \in Requests, ok \in BOOLEAN : BeginDownload(r, ok)),
         ~ (\E r \in Requests : BeginUpload(r, TRUE)),
         ~ (\E r \in Requests, ok \in BOOLEAN : FailUpload(r, ok))
  PROVE  Promise!Next
<1>1. IInv /\ TypeOK /\ TypeOK' BY StepIInv DEF QuotaInv, IInv
<1>2. OpenTokens' \in SUBSET OpenTokens /\ FreshTokens' = FreshTokens
  BY <1>1, OpenShrinks
<1>3. HoldersOf' = HoldersOf
  BY <1>1, HoldersStay DEF HoldersOf
<1>4. Promise!Close
  BY <1>2, <1>3 DEF Promise!Close, Promise!CloseSome, OpenTokens, FreshTokens, HoldersOf
<1> QED BY <1>4 DEF Promise!Next

(* The store implements the promise of ShareQuota: memory, file, failed    *)
(* saves, sweeps and restarts together behave as one ledger of quotas that *)
(* grants within the limit, refunds failed uploads and never reopens.      *)
THEOREM StoreKeepsPromise == Spec => KeepsPromise
<1>1. Init => Promise!Init
  <2> SUFFICES ASSUME Init PROVE Promise!Init
    OBVIOUS
  <2>1. OpenTokens = {} /\ FreshTokens = Tokens
    BY DEF Init, OpenTokens, FreshTokens
  <2>2. \A t \in Tokens : Holders(t) = {} BY DEF Init, Holders
  <2> QED BY <2>1, <2>2 DEF Promise!Init, OpenTokens, FreshTokens
<1>2. QuotaInv /\ [Next]_vars => [Promise!Next]_(Promise!vars)
  BY CreateMints, BeginDownloadGrants, BeginUploadGrants, FailUploadRefunds, OtherStepsClose
  DEF QuotaInv
<1> QED BY <1>1, <1>2, QuotaInvariance, PTL DEF Spec, KeepsPromise, Promise!Spec
=============================================================================
