----------------------------- MODULE AtomicFile -----------------------------
(***************************************************************************)
(* What atomic_write promises of the file: a write either puts its whole   *)
(* content in place and says so, or leaves the file alone.  A writer that  *)
(* dies before it answers may have done either.                            *)
(***************************************************************************)
CONSTANTS Writers, Contents

VARIABLES content, \* what the file holds
          calls    \* writer -> idle, writing some data, or the outcome

fileVars == <<content, calls>>

Sets(w, call) == calls' = [calls EXCEPT ![w] = call]

Begin(w, data) == calls[w].at = "idle" /\ Sets(w, [at |-> "writing", data |-> data]) /\ UNCHANGED content

Put(w) == calls[w].at = "writing" /\ content' = calls[w].data /\ Sets(w, [at |-> "put"])

PutSame(w) == calls[w].at = "idle" /\ Sets(w, [at |-> "done", outcome |-> "same"]) /\ UNCHANGED content

Succeed(w) == calls[w].at = "put" /\ Sets(w, [at |-> "done", outcome |-> "written"]) /\ UNCHANGED content

Fail(w) == calls[w].at = "writing" /\ Sets(w, [at |-> "done", outcome |-> "failed"]) /\ UNCHANGED content

Leave(w) == Sets(w, [at |-> "idle"]) /\ UNCHANGED content

FileNext ==
  \E w \in Writers : \/ \E data \in Contents : Begin(w, data)
                     \/ Put(w) \/ PutSame(w) \/ Succeed(w) \/ Fail(w) \/ Leave(w)

FileSpec == calls = [w \in Writers |-> [at |-> "idle"]] /\ [][FileNext]_fileVars
=============================================================================
