---------------------------- MODULE ActivityLog ----------------------------
(***************************************************************************)
(* The activity log (activity.go): one line per event, appended in place,  *)
(* and then, still under activityMu, pruned: when there is something to    *)
(* drop, what is left replaces the file (AtomicFile).                      *)
(*                                                                         *)
(* Events are numbered as they are logged.  The result of the write that   *)
(* appends a line is ignored by the code: on a full disk a line is cut     *)
(* short, and the next one is glued to what there is of it.  A file that   *)
(* holds nothing but an empty line counts as empty here.                   *)
(***************************************************************************)
EXTENDS AtomicFile, Naturals, SequencesExt

CONSTANTS
  Loggers,    \* requests that log
  MaxEvents,  \* events that are logged (a bound)
  MaxLines,   \* activityMaxLines
  ListLimit,  \* activityListLimit
  Garbage     \* a line that is no JSON object

ASSUME LogAssumption ==
  /\ MaxEvents \in Nat /\ MaxLines \in Nat /\ ListLimit \in 1 .. MaxLines
  /\ Garbage \notin Nat /\ None \notin Loggers

VARIABLES
  holder,   \* the request that holds activityMu, or None
  phase,    \* what it does: "prune" or "replace" ("free": nobody)
  logged,   \* how many events there have been
  old,      \* events up to this one are older than activityDefaultRetention
  written,  \* events with a line of their own, completely written (history)
  synced    \* those among them on the disk since the last prune (history)

logVars == <<fileVars, holder, phase, logged, old, written, synced>>

Content == [lines : BoundedSeq(1 .. MaxEvents \cup {Garbage}, MaxEvents),
            open : BOOLEAN]   \* the last line has no newline

(* The log is one of the files that are replaced as a whole.               *)
ASSUME LogIsFile == Content \subseteq Values

Empty == [lines |-> << >>, open |-> FALSE]

(* How much of a line is written: all, all but the newline, a part of it,  *)
(* or nothing.                                                             *)
Cuts == {"whole", "unended", "part", "none"}

With(c, e, cut) ==
  IF cut = "none" THEN c
  ELSE [lines |-> IF c.open THEN Append(Front(c.lines), Garbage)
                  ELSE Append(c.lines, IF cut = "part" THEN Garbage ELSE e),
        open |-> cut # "whole"]

Release == holder' = None /\ phase' = "free"

AppendLine(c, cut) ==
  /\ holder = None /\ logged < MaxEvents
  /\ holder' = c /\ phase' = "prune"
  /\ logged' = logged + 1
  /\ path' = [path EXCEPT !.data = With(@, logged + 1, cut)]
  /\ written' = IF cut = "whole" /\ ~ path.data.open
                THEN written \cup {logged + 1} ELSE written
  /\ UNCHANGED <<was, tmp, step, want, old, synced>>

(* The file cannot be opened: the event is not logged.                     *)
AppendFails ==
  /\ holder = None /\ logged < MaxEvents
  /\ logged' = logged + 1
  /\ UNCHANGED <<fileVars, holder, phase, old, written, synced>>

LastOf(s, n) == IF Len(s) > n THEN SubSeq(s, Len(s) - n + 1, Len(s)) ELSE s

(* The lines of s that are in S, one after the other.                      *)
Only(s, S) ==
  LET upTo[n \in 0 .. Len(s)] ==
        IF n = 0 THEN << >>
        ELSE IF s[n] \in S THEN Append(upTo[n - 1], s[n]) ELSE upTo[n - 1]
  IN upTo[Len(s)]

Fresh == (old + 1) .. logged

(* A faulty prune that keeps the first lines.                              *)
KeptFirst ==
  LET fresh == Only(path.data.lines, Fresh)
  IN SubSeq(fresh, 1, IF Len(fresh) < MaxLines THEN Len(fresh) ELSE MaxLines)

(* pruneActivityLocked drops garbage, what is too old, and the first lines *)
(* when there are too many.                                                *)
Kept == LastOf(Only(path.data.lines, Fresh), MaxLines)

(* A faulty early return that keeps the mutex.                             *)
PruneNothingLocked ==
  /\ phase = "prune"
  /\ Len(Kept) = Len(path.data.lines)
  /\ phase' = "free"
  /\ UNCHANGED <<fileVars, holder, logged, old, written, synced>>

PruneNothing ==
  /\ phase = "prune"
  /\ Len(Kept) = Len(path.data.lines)
  /\ Release
  /\ UNCHANGED <<fileVars, logged, old, written, synced>>

(* The log cannot be read back.                                            *)
PruneFails ==
  /\ phase = "prune"
  /\ Release
  /\ UNCHANGED <<fileVars, logged, old, written, synced>>

Prune ==
  /\ phase = "prune"
  /\ Len(Kept) # Len(path.data.lines)
  /\ BeginWrite([lines |-> Kept, open |-> FALSE])
  /\ phase' = "replace"
  /\ UNCHANGED <<holder, logged, old, written, synced>>

Replace ==
  /\ phase = "replace"
  /\ Writing
  /\ synced' = IF was # {} /\ was' = {}
               THEN written \cap ToSet(path.data.lines) ELSE synced
  /\ UNCHANGED <<holder, phase, logged, old, written>>

EndReplace ==
  /\ phase = "replace"
  /\ EndWrite
  /\ Release
  /\ UNCHANGED <<logged, old, written, synced>>

(* The oldest event passes the retention time.                             *)
Age ==
  /\ old < logged
  /\ old' = old + 1
  /\ UNCHANGED <<fileVars, holder, phase, logged, written, synced>>

LogCrash ==
  /\ Crash
  /\ Release
  /\ UNCHANGED <<logged, old, written, synced>>

(* What was appended since the last prune may be lost.                     *)
LogPowerFails ==
  /\ \E f \in {path} \cup was : \E v \in {f.data, f.safe} : PowerFails(f, v)
  /\ Release
  /\ written' = synced
  /\ UNCHANGED <<logged, old, synced>>

LogInit ==
  /\ FileInit(Empty)
  /\ holder = None /\ phase = "free"
  /\ logged = 0 /\ old = 0 /\ written = {} /\ synced = {}

(* readActivityRecent: the last lines that can be read, the newest first.  *)
Recent == Reverse(LastOf(Only(path.data.lines, 1 .. logged), ListLimit))

-----------------------------------------------------------------------------
LogTypeOK ==
  /\ path.data \in Content /\ path.safe \in Content
  /\ tmp \in [data : Content \cup {Truncated}, safe : Content \cup {Truncated}] \cup {None}
  /\ holder \in Loggers \cup {None} /\ phase \in {"free", "prune", "replace"}
  /\ (holder = None) = (phase = "free")
  /\ step # "idle" => phase = "replace"
  /\ logged \in 0 .. MaxEvents /\ old \in 0 .. logged
  /\ synced \subseteq written /\ written \subseteq 1 .. logged

(* An event that got its line is in the list of recent ones until it is    *)
(* too old or the list is full of newer ones: neither a line that was cut  *)
(* short, nor a prune that fails or is interrupted costs any other event,  *)
(* and a power failure costs those since the last prune                    *)
(* (activity.go:87-120, src/README.md:128).                                *)
RecentIsComplete ==
  LET shown == Recent
  IN /\ \A i, j \in DOMAIN shown : i < j => shown[i] > shown[j]
     /\ \A e \in written :
          e > old => e \in ToSet(shown)
                     \/ (Len(shown) = ListLimit /\ \A k \in ToSet(shown) : k > e)
=============================================================================
