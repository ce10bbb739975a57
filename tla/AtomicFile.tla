----------------------------- MODULE AtomicFile -----------------------------
(***************************************************************************)
(* What PullKernel and PullPodInitrd promise: a single file, replaced as a *)
(* whole.  A call pins the version the tag names, and then either the file *)
(* becomes that version and the call reports success, or the file keeps    *)
(* what it held and the call ends in an error or in the caller's death.    *)
(* No third thing can be read from the file.                               *)
(***************************************************************************)

CONSTANTS
  Clients,      \* the calls that may be in progress
  Versions,     \* the artifacts a tag may name over time
  None          \* no file, no version

VARIABLES
  latest,       \* the version the tag names
  file,         \* the version the file holds, or None
  busy,         \* busy[c]: client c is inside a call
  got,          \* got[c]: the version c has pinned, or None
  outcome       \* outcome[c]: how c's last call ended

vars == <<latest, file, busy, got, outcome>>

Init ==
  /\ latest \in Versions
  /\ file \in Versions \cup {None}
  /\ busy = [c \in Clients |-> FALSE]
  /\ got = [c \in Clients |-> None]
  /\ outcome = [c \in Clients |-> "none"]

Upload ==
  /\ latest' \in Versions
  /\ UNCHANGED <<file, busy, got, outcome>>

Begin(c) ==
  /\ ~busy[c]
  /\ busy' = [busy EXCEPT ![c] = TRUE]
  /\ outcome' = [outcome EXCEPT ![c] = "none"]
  /\ UNCHANGED <<latest, file, got>>

Pin(c) ==
  /\ busy[c] /\ got[c] = None
  /\ got' = [got EXCEPT ![c] = latest]
  /\ UNCHANGED <<latest, file, busy, outcome>>

End(c, how) ==
  /\ busy[c]
  /\ busy' = [busy EXCEPT ![c] = FALSE]
  /\ got' = [got EXCEPT ![c] = None]
  /\ outcome' = [outcome EXCEPT ![c] = how]
  /\ UNCHANGED latest

Publish(c) ==
  /\ got[c] # None
  /\ file' = got[c]
  /\ End(c, "ok")

Abort(c) ==
  /\ \E how \in {"err", "crash"} : End(c, how)
  /\ UNCHANGED file

Next ==
  \/ Upload
  \/ \E c \in Clients : Begin(c) \/ Pin(c) \/ Publish(c) \/ Abort(c)

Spec == Init /\ [][Next]_vars
=============================================================================
