---------------------------- MODULE ListingCache ----------------------------
(***************************************************************************)
(* The cache of directory listings (cache.go), the requests that fill and  *)
(* read it (listDirNodes of handlers.go, the tree request, search.go), the *)
(* cached disk usage (disk.go), and the handlers that change the archive   *)
(* and invalidate both.                                                    *)
(*                                                                         *)
(* get, set and invalidate hold the mutex of the cache, so each is one     *)
(* step.  Between a miss and the set that follows it the directory is read *)
(* without any lock.  Nothing ages out of the listings: an entry stays     *)
(* until it is evicted or some later change invalidates everything.        *)
(***************************************************************************)
EXTENDS PathVault, FiniteSets

CONSTANTS
  Keys,      \* the paths that are listed
  Fixed,     \* places that always exist
  Readers,   \* requests that read
  Comes,     \* Comes[r]: what a reader comes for: "tree", "search", "disk" (a bound)
  Writers,   \* requests that change the archive
  MaxEntries,  \* dirCacheMaxEntries
  Matching,  \* names that contain the needle
  Limit,     \* searchMaxResults
  None

ASSUME CacheAssumption ==
  /\ MaxEntries \in Nat \ {0} /\ Limit \in Nat \ {0}
  /\ Comes \in [Readers -> SUBSET {"tree", "search", "disk"}]
  /\ Readers \cap Writers = {} /\ None \notin Readers
  /\ Root \in Keys /\ Keys \subseteq Seq(UNION {ToSet(k) : k \in Keys})
  /\ Fixed \subseteq Places
  /\ \A p \in Fixed : IsDir(Fixed, Front(p))

VARIABLES
  here,     \* the places that exist
  entry,    \* c.m: for each key its cached nodes, or None
  lru,      \* c.lru: the keys, most recently used first
  usage,    \* diskUsageCache, or None when it is not valid
  walker,   \* the reader that holds diskUsageMu, or None
  pc,       \* where each request stands
  key,      \* the directory each reader works on
  buf,      \* the listing a reader has read and not yet stored, or the usage
  queue,    \* directories a search has still to visit (None: not a search)
  hits,     \* what a search has found
  missed,   \* readers an invalidation has overtaken since they read (history)
  late,     \* keys stored by such a reader (history)
  quiet,    \* "list", "usage": changed and not going to be announced (history)
  calm      \* searches that have met no change and no error (history)

archive == <<here, entry, lru>>
disk == <<usage, walker>>
search == <<queue, hits, calm>>
history == <<missed, late, quiet>>
vars == <<archive, disk, pc, key, buf, search, history>>

-----------------------------------------------------------------------------
(* Reading a directory.                                                    *)

Names(h, dir) == {Last(p) : p \in {q \in h : Front(q) = dir}}

(* A faulty listing that leaves out the names with a dot and asks the path *)
(* vault nothing.                                                          *)
ListUnchecked(h, rel) ==
  {[path |-> Append(rel, n), isDir |-> Kind[Append(SafePath(h, rel), n)] = "dir"]
   : n \in Names(h, SafePath(h, rel)) \ Hidden}

(* listDirNodes: the children without those that begin with a dot or that  *)
(* the path vault refuses.  A link is not a folder.                        *)
Listing(h, rel) ==
  LET dir == SafePath(h, rel)
  IN {[path |-> Append(rel, n), isDir |-> Kind[Append(dir, n)] = "dir"]
      : n \in {m \in Names(h, dir) \ Hidden : SafePath(h, Append(rel, m)) # Denied}}

ASSUME NoListing == \A h \in SUBSET Places, k \in Keys : Listing(h, k) # None

Listable(h, rel) == SafePath(h, rel) # Denied /\ IsDir(h, SafePath(h, rel))

(* What a listing has to be: the children of the place the system opens    *)
(* for rel that are visible, however they are reached.                     *)
Shown(rel) ==
  {[path |-> Append(rel, n), isDir |-> Kind[Append(Reaches(here, rel), n)] = "dir"]
   : n \in {m \in Names(here, Reaches(here, rel)) :
              LET real == Reaches(here, Append(rel, m))
              IN m \notin Hidden /\ real # Denied /\ ~ HasHidden(real)}}

-----------------------------------------------------------------------------
(* The cache.                                                              *)

ToFront(k) == <<k>> \o RemoveFirst(lru, k)

(* A faulty set that forgets to take the evicted key out of the map.       *)
SetForgetful(k, nodes) ==
  /\ lru' = SubSeq(ToFront(k), 1, IF Len(ToFront(k)) < MaxEntries THEN Len(ToFront(k))
                                  ELSE MaxEntries)
  /\ entry' = [entry EXCEPT ![k] = nodes]

Set(k, nodes) ==
  LET grown == ToFront(k)
      kept == IF Len(grown) > MaxEntries THEN Front(grown) ELSE grown
  IN /\ lru' = kept
     /\ entry' = [j \in Keys |-> IF j = k THEN nodes
                                 ELSE IF j \in ToSet(kept) THEN entry[j] ELSE None]

-----------------------------------------------------------------------------
(* Readers.                                                                *)

Goto(c, s) == pc' = [pc EXCEPT ![c] = s]

(* The reader answers and forgets what it worked on.                       *)
Return(r) ==
  /\ Goto(r, "idle")
  /\ key' = [key EXCEPT ![r] = None]
  /\ buf' = [buf EXCEPT ![r] = None]
  /\ queue' = [queue EXCEPT ![r] = None]
  /\ hits' = [hits EXCEPT ![r] = {}]
  /\ calm' = [calm EXCEPT ![r] = FALSE]

Hits(nodes) == {n.path : n \in {m \in nodes : Last(m.path) \in Matching}}

(* A faulty search that only enters folders whose name matches.            *)
MatchingFoldersIn(nodes) == {n.path : n \in {m \in nodes : m.isDir}} \cap Hits(nodes)

FoldersIn(nodes) == {n.path : n \in {m \in nodes : m.isDir}}

(* A search goes through the nodes of directory k: folders are visited     *)
(* later, and it stops at once when it has as many hits as it may.         *)
Visit(r, k, nodes) ==
  LET all == hits[r] \cup Hits(nodes)
  IN /\ key' = [key EXCEPT ![r] = None]
     /\ buf' = [buf EXCEPT ![r] = None]
     /\ UNCHANGED calm
     /\ IF Cardinality(all) < Limit
        THEN /\ hits' = [hits EXCEPT ![r] = all]
             /\ queue' = [queue EXCEPT ![r] = (@ \ {k}) \cup FoldersIn(nodes)]
             /\ Goto(r, "next")
        ELSE \E S \in SUBSET all :
               /\ hits[r] \subseteq S /\ Cardinality(S) = Limit
               /\ hits' = [hits EXCEPT ![r] = S]
               /\ queue' = [queue EXCEPT ![r] = {}]
               /\ Goto(r, "next")

(* The listing of key k has been found: a tree request answers with it.    *)
Use(r, k, nodes) == IF queue[r] = None THEN Return(r) ELSE Visit(r, k, nodes)

(* dirCache.get: a hit moves the key to the front.                         *)
Get(r, k) ==
  /\ IF entry[k] # None
     THEN /\ lru' = ToFront(k)
          /\ Use(r, k, entry[k])
     ELSE /\ key' = [key EXCEPT ![r] = k]
          /\ Goto(r, "read")
          /\ UNCHANGED <<lru, buf, search>>
  /\ UNCHANGED <<here, entry, disk, history>>

Tree(r, k) ==
  /\ pc[r] = "idle" /\ "tree" \in Comes[r]
  /\ SafePath(here, k) # Denied
  /\ Get(r, k)

Stale(h, k, nodes) == ~ (Listable(h, k) /\ nodes = Listing(h, k))

(* Whether no cached listing and no listing on its way into the cache is   *)
(* out of date.                                                            *)
Settled ==
  /\ \A k \in Keys : entry[k] # None => ~ Stale(here, k, entry[k])
  /\ \A r \in Readers : pc[r] = "store" => ~ Stale(here, key[r], buf[r])

BeginSearch(r) ==
  /\ pc[r] = "idle" /\ "search" \in Comes[r]
  /\ Goto(r, "next")
  /\ queue' = [queue EXCEPT ![r] = {Root}]
  /\ calm' = [calm EXCEPT ![r] = Settled]
  /\ UNCHANGED <<archive, disk, key, buf, hits, history>>

Search(r, k) == pc[r] = "next" /\ k \in queue[r] /\ Get(r, k)

EndSearch(r) ==
  /\ pc[r] = "next" /\ queue[r] = {}
  /\ Return(r)
  /\ UNCHANGED <<archive, disk, history>>

ReadDir(r) ==
  /\ pc[r] = "read" /\ Listable(here, key[r])
  /\ buf' = [buf EXCEPT ![r] = Listing(here, key[r])]
  /\ Goto(r, "store")
  /\ UNCHANGED <<archive, disk, key, search, history>>

(* A search leaves a directory out that it cannot read.                    *)
Skip(r) ==
  /\ Goto(r, "next")
  /\ key' = [key EXCEPT ![r] = None] /\ buf' = [buf EXCEPT ![r] = None]
  /\ queue' = [queue EXCEPT ![r] = @ \ {key[r]}]
  /\ calm' = [calm EXCEPT ![r] = FALSE]
  /\ UNCHANGED hits

(* The directory is gone, refused, or fails to be read for whatever reason:*)
(* an error for a tree request, one directory less for a search.           *)
ReadDirFails(r) ==
  /\ pc[r] = "read"
  /\ IF queue[r] = None THEN Return(r) ELSE Skip(r)
  /\ UNCHANGED <<archive, disk, history>>

Store(r) ==
  /\ pc[r] = "store"
  /\ Set(key[r], buf[r])
  /\ late' = IF r \in missed THEN late \cup {key[r]} ELSE late \ {key[r]}
  /\ missed' = missed \ {r}
  /\ Use(r, key[r], buf[r])
  /\ UNCHANGED <<here, disk, quiet>>

(* getDiskUsage: under diskUsageMu from the look at the cache to its       *)
(* renewal; the walk over the archive comes in between.                    *)
BeginMeasure(r) ==
  /\ pc[r] = "idle" /\ "disk" \in Comes[r]
  /\ walker = None /\ usage = None
  /\ walker' = r
  /\ Goto(r, "measure")
  /\ UNCHANGED <<archive, usage, key, buf, search, history>>

Measure(r) ==
  /\ pc[r] = "measure"
  /\ buf' = [buf EXCEPT ![r] = here]
  /\ Goto(r, "measured")
  /\ UNCHANGED <<archive, disk, key, search, history>>

EndMeasure(r) ==
  /\ pc[r] = "measured"
  /\ usage' = buf[r]
  /\ walker' = None
  /\ Return(r)
  /\ UNCHANGED <<archive, history>>

(* diskUsageCacheTTL has passed.                                           *)
UsageExpires ==
  /\ walker = None /\ usage # None
  /\ usage' = None
  /\ UNCHANGED <<archive, walker, pc, key, buf, search, history>>

-----------------------------------------------------------------------------
(* Writers: the archive changes first, the handler answers, and then       *)
(* invalidateListingCache runs.                                            *)

Toggle(p) ==
  /\ p \notin Fixed
  /\ IsDir(here, Front(p))
  /\ p \in here => \A q \in here : Front(q) # p
  /\ here' = (here \ {p}) \cup ({p} \ here)
  /\ calm' = [r \in Readers |-> FALSE]

Change(w, p) ==
  /\ pc[w] = "idle"
  /\ Toggle(p)
  /\ Goto(w, "changed")
  /\ UNCHANGED <<entry, lru, disk, key, buf, queue, hits, history>>

(* A change no handler announces: a partial file of an upload or a copy    *)
(* that failed, a folder made for an upload that is not complete, a chunk  *)
(* of an upload, the files of the sessions, the list of the trash and the  *)
(* activity log.                                                           *)
ChangeQuietly(p) ==
  /\ Toggle(p)
  /\ quiet' = {"list", "usage"}
  /\ UNCHANGED <<entry, lru, disk, pc, key, buf, queue, hits, missed, late>>

(* A faulty invalidation that empties the list and keeps the map.          *)
InvalidateList(w) ==
  /\ pc[w] = "changed"
  /\ lru' = << >>
  /\ missed' = {r \in Readers : pc[r] = "store"}
  /\ late' = {} /\ quiet' = quiet \ {"list"}
  /\ Goto(w, "invalidated")
  /\ UNCHANGED <<here, entry, disk, key, buf, search>>

Invalidate(w) ==
  /\ pc[w] = "changed"
  /\ entry' = [k \in Keys |-> None]
  /\ lru' = << >>
  /\ missed' = {r \in Readers : pc[r] = "store"}
  /\ late' = {} /\ quiet' = quiet \ {"list"}
  /\ Goto(w, "invalidated")
  /\ UNCHANGED <<here, disk, key, buf, search>>

(* A faulty invalidation that does not wait for a measurement to end.      *)
InvalidateUsageNow(w) ==
  /\ pc[w] = "invalidated"
  /\ usage' = None
  /\ quiet' = quiet \ {"usage"}
  /\ Goto(w, "idle")
  /\ UNCHANGED <<archive, walker, key, buf, search, missed, late>>

InvalidateUsage(w) ==
  /\ pc[w] = "invalidated" /\ walker = None
  /\ usage' = None
  /\ quiet' = quiet \ {"usage"}
  /\ Goto(w, "idle")
  /\ UNCHANGED <<archive, walker, key, buf, search, missed, late>>

-----------------------------------------------------------------------------
Init ==
  /\ here = Fixed
  /\ entry = [k \in Keys |-> None] /\ lru = << >>
  /\ usage = None /\ walker = None
  /\ pc = [c \in Readers \cup Writers |-> "idle"]
  /\ key = [r \in Readers |-> None] /\ buf = [r \in Readers |-> None]
  /\ queue = [r \in Readers |-> None] /\ hits = [r \in Readers |-> {}]
  /\ calm = [r \in Readers |-> FALSE]
  /\ missed = {} /\ late = {} /\ quiet = {}

Next ==
  \/ \E r \in Readers, k \in Keys : Tree(r, k)
  \/ \E r \in Readers : BeginSearch(r)
  \/ \E r \in Readers, k \in Keys : Search(r, k)
  \/ \E r \in Readers : EndSearch(r)
  \/ \E r \in Readers : ReadDir(r)
  \/ \E r \in Readers : ReadDirFails(r)
  \/ \E r \in Readers : Store(r)
  \/ \E r \in Readers : BeginMeasure(r)
  \/ \E r \in Readers : Measure(r)
  \/ \E r \in Readers : EndMeasure(r)
  \/ UsageExpires
  \/ \E w \in Writers, p \in Places : Change(w, p)
  \/ \E p \in Places : ChangeQuietly(p)
  \/ \E w \in Writers : Invalidate(w)
  \/ \E w \in Writers : InvalidateUsage(w)

Spec == Init /\ [][Next]_vars

-----------------------------------------------------------------------------
(* Properties.                                                             *)

(* Shapes; map and list of the cache hold the same keys, no key twice, and *)
(* never more than the cap (cache.go:11-15).                               *)
TypeOK ==
  /\ Fixed \subseteq here /\ here \subseteq Places
  /\ IsInjective(lru) /\ Len(lru) <= MaxEntries
  /\ ToSet(lru) = {k \in Keys : entry[k] # None}
  /\ pc \in [Readers \cup Writers -> {"idle", "next", "read", "store", "measure",
                                       "measured", "changed", "invalidated"}]
  /\ key \in [Readers -> Keys \cup {None}]
  /\ missed \subseteq Readers /\ late \subseteq Keys /\ quiet \subseteq {"list", "usage"}

(* A cached listing is what the directory holds, but for a change whose    *)
(* handler has not come to its invalidation, a change no handler           *)
(* announces, and a listing that an invalidation overtook between ReadDir  *)
(* and set (handlers.go:140-168).                                          *)
StaleIsExplained ==
  \A k \in Keys :
    entry[k] # None /\ Stale(here, k, entry[k]) =>
      k \in late \/ "list" \in quiet \/ \E w \in Writers : pc[w] = "changed"

(* The disk usage needs no such excuse: its mutex is held while it is      *)
(* measured, so an invalidation comes before the measurement or after it   *)
(* (disk.go:29-47).                                                        *)
UsageIsFresh ==
  usage \notin {None, here} =>
    "usage" \in quiet \/ \E w \in Writers : pc[w] \in {"changed", "invalidated"}

(* No cached node is hidden, and none leads the system that follows its    *)
(* links to a hidden place, out of the archive or nowhere, whatever has    *)
(* come to the archive since the listing was read (handlers.go:145-154).   *)
(* Links and what they lead to do not change.                              *)
NothingHiddenIsListed ==
  \A k \in Keys : entry[k] # None =>
    \A n \in entry[k] :
      LET real == Reaches(Places, Clean(n.path))
      IN ~ HasHidden(Clean(n.path)) /\ real # Denied /\ ~ HasHidden(real)

(* A search that met no change and no error finds every visible name that  *)
(* matches, or as many as it may (search.go:43-46): cached and fresh       *)
(* listings mix.                                                           *)
Found(r) == pc[r] = "next" /\ queue[r] = {}

Folders == {p \in here : Kind[p] = "dir" /\ ~ HasHidden(p)} \cup {Root}

AllHits == UNION {Hits(Shown(p)) : p \in Folders}

SearchFindsAll ==
  \A r \in Readers : Found(r) /\ calm[r] =>
    /\ hits[r] \subseteq AllHits
    /\ hits[r] = AllHits \/ Cardinality(hits[r]) = Limit

(* The path vault, for every request path of up to three names (see        *)
(* Guards).  It looks at nothing but the archive, so it is enough to ask   *)
(* in the states in which nothing else goes on.                            *)
RequestNames == NamesUsed \cup {".", ".."}

Quiescent == lru = << >> /\ usage = None /\ \A c \in DOMAIN pc : pc[c] = "idle"

VaultGuards ==
  Quiescent => \A path \in BoundedSeq(RequestNames, 3) : Guards(here, path)
=============================================================================
