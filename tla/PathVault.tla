----------------------------- MODULE PathVault -----------------------------
(***************************************************************************)
(* How a request path becomes a place of the archive, path.go.             *)
(*                                                                         *)
(* A path is a sequence of names, a place is a path without links.  The    *)
(* file system is what exists (here) and what is there: folders, files,    *)
(* and symbolic links with the place each leads to.                        *)
(***************************************************************************)
EXTENDS Naturals, SequencesExt

CONSTANTS
  Places,   \* the places that may exist below the storage root
  Kind,     \* Kind[p]: "dir", "file" or "link"
  Target,   \* Target[p]: where the link at p leads (Outside the root, or a place)
  Outside,
  Hidden    \* names that begin with a dot

NamesUsed == UNION {ToSet(p) : p \in Places}

ASSUME PlacesAssumption ==
  /\ Places \subseteq Seq(NamesUsed) /\ << >> \notin Places
  /\ Kind \in [Places -> {"dir", "file", "link"}]
  /\ Target \in [{p \in Places : Kind[p] = "link"} -> Places \cup {Outside}]
  /\ Outside \notin Places

(* "." and ".." are never the name of a file.                              *)
ASSUME NamesAreNames == {".", ".."} \cap NamesUsed = {}

(* A place lies in folders, and a link leads to what is not a link again.  *)
ASSUME PlacesAreStraight ==
  /\ \A p \in Places : \A i \in 1 .. Len(p) - 1 :
       SubSeq(p, 1, i) \in Places => Kind[SubSeq(p, 1, i)] # "link"
  /\ \A p \in Places : Kind[p] = "link" /\ Target[p] \in Places => Kind[Target[p]] # "link"

Root == << >>
Denied == <<"denied">>

(* filepath.Clean("/" + path): "." goes, ".." takes its folder with it.    *)
AddName(done, name) ==
  CASE name = "." -> done
    [] name = ".." -> (IF done = Root THEN Root ELSE Front(done))
    [] OTHER -> Append(done, name)

Clean(path) ==
  LET upTo[n \in 0 .. Len(path)] ==
        IF n = 0 THEN Root ELSE AddName(upTo[n - 1], path[n])
  IN upTo[Len(path)]

HasHidden(path) == \E i \in DOMAIN path : path[i] \in Hidden

ASSUME DeniedAssumption == Denied \notin Places /\ ~ HasHidden(Denied)

IsDir(here, p) == p = Root \/ (p \in here /\ Kind[p] = "dir")

(* A faulty walk that leaves links to the operating system.                *)
TakeAsWritten(here, p) == [at |-> p, st |-> "ok"]

(* EvalSymlinks, withinRoot and rejectHiddenUnderRoot.                     *)
Follow(here, p) ==
  IF Target[p] \in here /\ ~ HasHidden(Target[p])
  THEN [at |-> Target[p], st |-> "ok"]
  ELSE [at |-> Root, st |-> "denied"]

(* One name of the walk of resolveUnderRoot.  Beyond what exists the path  *)
(* is taken as it is written.                                              *)
Enter(here, w, name) ==
  LET next == Append(w.at, name)
  IN IF w.st = "denied" THEN w
     ELSE IF w.st = "missing" THEN [w EXCEPT !.at = next]
     ELSE IF ~ IsDir(here, w.at) THEN [w EXCEPT !.st = "denied"]
     ELSE IF next \notin here THEN [at |-> next, st |-> "missing"]
     ELSE IF Kind[next] = "link" THEN Follow(here, next)
     ELSE [w EXCEPT !.at = next]

Walk(here, names) ==
  LET upTo[n \in 0 .. Len(names)] ==
        IF n = 0 THEN [at |-> Root, st |-> "ok"] ELSE Enter(here, upTo[n - 1], names[n])
  IN upTo[Len(names)]

(* safePath: hidden names are refused in the request, where a link leads,  *)
(* and in the result.                                                      *)
SafePath(here, path) ==
  LET names == Clean(path)
      w == Walk(here, names)
  IN IF HasHidden(names) \/ w.st = "denied" \/ HasHidden(w.at) THEN Denied
     ELSE w.at

-----------------------------------------------------------------------------
(* What it is compared with: where the operating system gets with a path   *)
(* that it follows through links, without any rule of the program, and     *)
(* what it passes on the way.                                              *)

Open(here, at, name) ==
  LET next == Append(at, name)
  IN IF at = Denied \/ ~ IsDir(here, at) \/ next \notin here THEN Denied
     ELSE IF Kind[next] # "link" THEN next
     ELSE IF Target[next] \in here THEN Target[next] ELSE Denied

Stations(here, path) ==
  LET upTo[n \in 0 .. Len(path)] ==
        IF n = 0 THEN Root ELSE Open(here, upTo[n - 1], path[n])
  IN upTo

Reaches(here, path) == Stations(here, path)[Len(path)]

PassesHidden(here, path) == \E i \in DOMAIN path : HasHidden(Stations(here, path)[i])

Through(here, place) == {SubSeq(place, 1, i) : i \in DOMAIN place} \cap here

(* The vault never answers with a hidden place or one that a link leads    *)
(* away from, it answers with the place the system would open, and it      *)
(* refuses no place that is reached in the open (path.go:49-54,            *)
(* src/README.md:279): a visible place that is only reached through a      *)
(* hidden folder is refused (path.go:145).                                 *)
Guards(here, path) ==
  LET safe == SafePath(here, path)
      real == Reaches(here, Clean(path))
  IN /\ safe # Denied =>
          /\ ~ HasHidden(safe)
          /\ \A p \in Through(here, safe) : Kind[p] # "link"
          /\ real # Denied => safe = real
     /\ /\ real # Denied /\ ~ HasHidden(Clean(path))
        /\ ~ PassesHidden(here, Clean(path))
        => safe = real
=============================================================================
