---------------------------- MODULE IndexV8Register ----------------------------
(***************************************************************************)
(* What a commit of the V8 index promises its caller, without shards,      *)
(* files or awaits: manifest.json is one register which a commit replaces  *)
(* only if it holds the base the commit states, and a commit that fails    *)
(* takes its value back.  IndexV8Store implements this module.             *)
(***************************************************************************)
EXTENDS Naturals

CONSTANTS
    Values,        \* the snapshots
    Missing,       \* there is no manifest
    Unreadable,    \* bytes no version of the contract accepts
    AnyBase,       \* a commit that states no base
    PeerValues     \* what a Sync peer may put into the register

VARIABLES
    value,     \* the register
    shared,    \* values the peer put there and no commit published since
    request,   \* the commit at hand: its base, its new value, what it did to
               \* the register, and the value it would put back
    stage,     \* how far the commit is, or how the last one ended
    faults     \* how many more calls may fail

vars == <<value, shared, request, stage, faults>>

Pending   == {"asked", "looked", "confirmed"}
Ended     == {"idle", "committed", "failed", "crashed"}
Unbroken  == faults' = faults
Broken    == faults > 0 /\ faults' = faults - 1

Init ==
    /\ value \in Values \cup {Missing} /\ shared = {}
    /\ request = [base |-> Missing, new |-> Missing, did |-> "nothing", undo |-> Missing]
    /\ stage = "idle" /\ faults \in Nat

Ask(b, n) ==
    /\ stage \in Ended /\ stage' = "asked"
    /\ request' = [base |-> b, new |-> n, did |-> "nothing", undo |-> Missing]
    /\ UNCHANGED <<value, shared>> /\ Unbroken

\* The commit sees its base in the register, and will put that back.
Look ==
    /\ stage = "asked" /\ stage' = "looked"
    /\ request.base \in {AnyBase, value}
    /\ request' = [request EXCEPT !.undo = value]
    /\ UNCHANGED <<value, shared>> /\ Unbroken

\* Compare and swap.  Two commits do not compare: one that states no base, and
\* the very first, whose rename may race with the peer.  The call may fail
\* although the swap took place.
Swap ==
    /\ stage = "looked" /\ request.did = "nothing" /\ request.undo # request.new
    /\ request.base \in {AnyBase, Missing, value}
    /\ value' = request.new /\ shared' = shared \ {value'}
    /\ request' = [request EXCEPT !.did = "swapped"]
    /\ UNCHANGED stage /\ (Unbroken \/ Broken)

\* The new value is read back, ...
Confirm ==
    /\ stage = "looked" /\ stage' = "confirmed" /\ value = request.new
    /\ UNCHANGED <<value, shared, request>> /\ Unbroken

\* ... but the snapshot behind it cannot be loaded, or a call fails.
Doubt ==
    /\ stage \in {"looked", "confirmed"} /\ stage' = "looked"
    /\ UNCHANGED <<value, shared, request>> /\ (Unbroken \/ Broken)

\* What an ended commit would have put back concerns nobody any longer.
Forget == request' = [request EXCEPT !.undo = Missing]

Succeed ==
    /\ stage = "confirmed" /\ stage' = "committed"
    /\ Forget /\ UNCHANGED <<value, shared>> /\ Unbroken

\* A commit that fails leaves nothing it did: it puts back what it saw over
\* its own value or over unreadable bytes, and goes without that only if it
\* saw nothing there or the peer activated the same value.
TakesBack ==
    /\ stage = "looked" /\ value \in {request.new, Unreadable}
    /\ request.undo # Missing /\ value' = request.undo
LeavesAlone ==
    /\ request.did = "swapped" /\ value = request.new
          => request.undo = Missing \/ value \in shared
    /\ UNCHANGED value

Fail ==
    /\ stage \in {"asked", "looked"} /\ stage' = "failed"
    /\ TakesBack \/ LeavesAlone
    /\ Forget /\ UNCHANGED shared /\ Unbroken

\* A call that fails may keep a commit from taking back what it did, and so
\* may the end of the process.
Abandon ==
    /\ stage \in {"asked", "looked"} /\ stage' = "failed"
    /\ Forget /\ UNCHANGED <<value, shared>> /\ Broken

Crash ==
    /\ stage' = "crashed" /\ Forget /\ UNCHANGED <<value, shared>> /\ Broken

Peer(v) ==
    /\ value' = v /\ shared' = shared \cup ({v} \cap Values)
    /\ UNCHANGED <<request, stage>> /\ Unbroken

\* A cleanup has nothing to do with the register.
Cleanup ==
    /\ stage \in Ended /\ stage' \in {stage, "idle"}
    /\ UNCHANGED <<value, shared, request>> /\ (Unbroken \/ Broken)

Next ==
    \/ \E b \in Values \cup {Missing, AnyBase}, n \in Values : Ask(b, n)
    \/ Look \/ Swap \/ Confirm \/ Doubt \/ Succeed \/ Fail \/ Abandon
    \/ Crash \/ Cleanup \/ \E v \in PeerValues : Peer(v)

Spec == Init /\ [][Next]_vars
=============================================================================
