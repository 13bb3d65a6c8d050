---------------------------- MODULE ShareWindow ----------------------------
(***************************************************************************)
(* The accepted shares a worker's hashrate is estimated from: how they are *)
(* trimmed in memory (crates/alamo/src/stats.rs), what is kept of the log  *)
(* they are restored from (crates/alamo-store/src/retention.rs), and what  *)
(* a start reads of it (crates/alamo-store/src/accounting.rs).             *)
(*                                                                         *)
(* A share is [id, worker, accepted, at], each of one unit of work; a log  *)
(* of them is in the order of (ts, id).                                    *)
(***************************************************************************)
EXTENDS Integers, Sequences, SequencesExt

CONSTANTS Window,       \* HASHRATE_WINDOW_SECS
          RestoreCap,   \* CAP: rows read at a start
          ShareAge, ShareMaxRows   \* share_secs and share_max_rows

ASSUME WindowAssumption ==
  /\ Window \in Nat \ {0} /\ RestoreCap \in Nat
  /\ ShareAge \in Nat /\ ShareAge >= Window /\ ShareMaxRows \in Nat

Newest(s, n) == IF Len(s) <= n THEN s ELSE SubSeq(s, Len(s) - n + 1, Len(s))
Oldest(s, n) == IF Len(s) <= n THEN s ELSE SubSeq(s, 1, n)

(* The elements of s that are in S, in their order.                        *)
Kept(s, S) ==
  LET kept[k \in 0..Len(s)] ==
        IF k = 0 THEN <<>>
        ELSE IF s[k] \in S THEN Append(kept[k - 1], s[k]) ELSE kept[k - 1]
  IN  kept[Len(s)]

AcceptedOf(s, w) == Kept(s, {share \in ToSet(s) : share.accepted /\ share.worker = w})

\* trim: from the front, as long as it is too old.  (Times do not go back.)
Trimmed(s, now) == Kept(s, {share \in ToSet(s) : now - share.at <= Window})

\* apply of a share: the window of its worker.
Applied(s, share, now) == Trimmed(IF share.accepted THEN Append(s, share) ELSE s, now)

\* trim_shares, its two deletions.
Aged(s, now) == Kept(s, {share \in ToSet(s) : share.at >= now - ShareAge})
Capped(s) == Newest(s, ShareMaxRows)

\* accepted_shares_since and restore: the window of w at a start.
AcceptedSince(s, since) == Kept(s, {share \in ToSet(s) : share.accepted /\ share.at >= since})
ReadFromStart(s, now) == Oldest(AcceptedSince(s, now - Window), RestoreCap)
ReadSince(s, now) == Newest(AcceptedSince(s, now - Window), RestoreCap)
Restored(s, w, now) == Trimmed(AcceptedOf(ReadSince(s, now), w), now)
=============================================================================
