----------------------------- MODULE ShareQuota -----------------------------
(***************************************************************************)
(* What the share store of shares.go promises its administrator, without   *)
(* saying how: a token is created at most once, every transfer granted on  *)
(* a token takes one unit of the quota of that token, a unit comes back    *)
(* only when a drop upload failed, and a token that is closed is closed    *)
(* for good.  ShareStore implements this specification: its memory, its    *)
(* file shares.json and the restarts of the server are hidden behind it.   *)
(***************************************************************************)
EXTENDS Naturals, FiniteSets

CONSTANTS
  Tokens,      \* share tokens
  Requests,    \* public requests for a transfer
  Limited,     \* tokens with a quota: one-download links and drop boxes
  Refundable,  \* tokens whose failed transfers give their unit back: drop boxes
  Quota        \* the quota of each token of Limited

VARIABLES
  open,     \* tokens created and not closed for good
  fresh,    \* tokens not created yet
  holders   \* for each token, the requests that hold a unit of its quota

vars == <<open, fresh, holders>>

Init ==
  /\ open = {}
  /\ fresh = Tokens
  /\ holders = [t \in Tokens |-> {}]

(* Every step may also close tokens: expiry sweeps run inside other calls. *)
CloseSome == open' \in SUBSET open

Mint(t) ==
  /\ t \in fresh
  /\ fresh' = fresh \ {t}
  /\ open' \in {{t} \cup o : o \in SUBSET open}
  /\ UNCHANGED holders

(* A request is granted a transfer on an open token that has a unit left.  *)
Grant(t, r) ==
  /\ t \in open
  /\ \A u \in Tokens : r \notin holders[u]
  /\ t \in Limited => Cardinality(holders[t]) < Quota[t]
  /\ holders' = [holders EXCEPT ![t] = @ \cup {r}]
  /\ CloseSome
  /\ UNCHANGED fresh

Refund(t, r) ==
  /\ t \in Refundable
  /\ r \in holders[t]
  /\ holders' = [holders EXCEPT ![t] = @ \ {r}]
  /\ CloseSome
  /\ UNCHANGED fresh

Close == CloseSome /\ UNCHANGED <<fresh, holders>>

Next ==
  \/ \E t \in Tokens : Mint(t)
  \/ \E t \in Tokens, r \in Requests : Grant(t, r)
  \/ \E t \in Tokens, r \in Requests : Refund(t, r)
  \/ Close

Spec == Init /\ [][Next]_vars
=============================================================================
