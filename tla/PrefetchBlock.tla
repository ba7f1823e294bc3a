--------------------------- MODULE PrefetchBlock ---------------------------
(***************************************************************************)
(* What a prefetch block promises its consumer (spec section 4.1, the     *)
(* block package, which is not under src/): a block is claimed once, is   *)
(* written only while it is Downloading and never past its range, and     *)
(* ends in exactly one terminal state, Downloaded only with its whole     *)
(* range written.  A block that is Downloading is eventually notified.    *)
(*                                                                         *)
(* This is the abstract specification that the download path of           *)
(* DownloadTask implements.                                                *)
(***************************************************************************)
EXTENDS Naturals

CONSTANTS
  Blocks,  \* the blocks of the object
  Len      \* Len[b]: the length of block b's range, min(start+cap, size) - start

Terminal == {"Downloaded", "DownloadFailed"}

VARIABLES
  state,   \* state[b]: NotReady, Downloading or a terminal state
  filled   \* filled[b]: units written into block b

vars == <<state, filled>>

Init ==
  /\ state = [b \in Blocks |-> "NotReady"]
  /\ filled = [b \in Blocks |-> 0]

\* claim(): NotReady -> Downloading.
Claim(b) ==
  /\ state[b] = "NotReady"
  /\ state' = [state EXCEPT ![b] = "Downloading"]
  /\ UNCHANGED filled

\* write(): append while Downloading, never past the block's range.
Write(b) ==
  /\ state[b] = "Downloading"
  /\ filled[b] < Len[b]
  /\ filled' = [filled EXCEPT ![b] = @ + 1]
  /\ UNCHANGED state

\* notifyReady(s): Downloading -> s, where Downloaded needs the whole range.
NotifyReady(b, s) ==
  /\ state[b] = "Downloading"
  /\ s \in Terminal
  /\ s = "Downloaded" => filled[b] = Len[b]
  /\ state' = [state EXCEPT ![b] = s]
  /\ UNCHANGED filled

Next == \E b \in Blocks : Claim(b) \/ Write(b) \/ \E s \in Terminal : NotifyReady(b, s)

SafeSpec == Init /\ [][Next]_vars

\* The consumer of a Downloading block is never left waiting.
Spec == SafeSpec /\ \A b \in Blocks : WF_vars(\E s \in Terminal : NotifyReady(b, s))

=============================================================================
