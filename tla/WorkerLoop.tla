---------------------------- MODULE WorkerLoop ----------------------------
(***************************************************************************)
(* The worker goroutine's main loop (internal/syncer/worker.go, Run and    *)
(* flush; resolve.go, loadCertificates and PollCertificates): when a       *)
(* reconcile run starts, and what it has seen of Docker and of NPM's       *)
(* certificates.  The run itself is module Reconciler; here it takes its   *)
(* snapshot in one step and succeeds or fails in another.                  *)
(*                                                                         *)
(* Docker and the certificate list are numbered by their versions.  The    *)
(* two tickers have a period in the code; here they may tick at any time,  *)
(* and as in Go a tick is lost when the one before it is not taken yet.    *)
(***************************************************************************)
EXTENDS Integers

CONSTANTS
  Resync,       \* RESYNC_INTERVAL is not 0
  CertPoll,     \* CERTIFICATE_POLL is not 0
  MaxCerts, MaxFaults  \* bounds of the model

VARIABLES
  docker,     \* Docker's version
  certs,      \* the version of NPM's certificate list
  faults,     \* calls that may still fail
  batches,    \* batches in the channel the worker reads
  cancelled,  \* the context is done
  wk          \* the worker's loop

world == <<docker, certs, faults>>
vars == <<world, batches, cancelled, wk>>

\* tried: Docker's version when a snapshot was last asked for
\* seen: the version of the snapshot in use
\* hash: the certificate list the worker knows (certHash)
\* done, hosts: the versions NPM was last brought in line with completely
NewWorker == [phase |-> "start", tried |-> 0, seen |-> 0, hash |-> 0, done |-> 0,
              hosts |-> 0, resync |-> FALSE, poll |-> FALSE]

\* Calls fail by chance, and for sure once the context they run in is done.
Fails(final) ==
  \/ cancelled /\ ~final /\ UNCHANGED faults
  \/ faults > 0 /\ faults' = faults - 1
Works == UNCHANGED faults

\* The snapshot, and then the certificate list: when it cannot be read, the
\* last known one is used.
TakeSnapshot(final, next) ==
  \/ /\ Works
     /\ wk' = [wk EXCEPT !.phase = next, !.tried = docker, !.seen = docker,
                         !.hash = certs]
  \/ /\ Fails(final)
     /\ wk' = [wk EXCEPT !.phase = next, !.tried = docker, !.seen = docker]
NoSnapshot(final, next) ==
  /\ Fails(final)
  /\ wk' = [wk EXCEPT !.phase = next, !.tried = docker]

\* A run, from the initial one on.
Snapshot ==
  /\ wk.phase = "start"
  /\ TakeSnapshot(FALSE, "apply") \/ NoSnapshot(FALSE, "select")
  /\ UNCHANGED batches

\* What the run found is applied, or part of it fails.
Finish(final, next) ==
  \/ Works /\ wk' = [wk EXCEPT !.phase = next, !.done = wk.seen, !.hosts = wk.hash]
  \/ Fails(final) /\ wk' = [wk EXCEPT !.phase = next]
\* (slip: what arrived during the run counts as done with it)
ApplyAndDrain ==
  /\ wk.phase = "apply"
  /\ Finish(FALSE, "select")
  /\ batches' = 0
Apply ==
  /\ wk.phase = "apply"
  /\ Finish(FALSE, "select")
  /\ UNCHANGED batches

TakeBatch ==
  /\ wk.phase = "select" /\ batches > 0
  /\ batches' = batches - 1
  /\ wk' = [wk EXCEPT !.phase = "start"]
  /\ UNCHANGED faults

\* (slip: the resync checks the server version and nothing else)
RecheckOnly ==
  /\ wk.phase = "select" /\ wk.resync
  /\ wk' = [wk EXCEPT !.resync = FALSE]
  /\ UNCHANGED <<faults, batches>>
TakeResync ==
  /\ wk.phase = "select" /\ wk.resync
  /\ wk' = [wk EXCEPT !.phase = "start", !.resync = FALSE]
  /\ UNCHANGED <<faults, batches>>

\* PollCertificates: only a changed list starts a run, and from now on it
\* counts as known.
PollCertificates ==
  /\ wk.phase = "select" /\ wk.poll
  /\ \/ /\ Fails(FALSE)
        /\ wk' = [wk EXCEPT !.poll = FALSE]
     \/ /\ Works /\ wk.hash = certs
        /\ wk' = [wk EXCEPT !.poll = FALSE]
     \/ /\ Works /\ wk.hash # certs
        /\ wk' = [wk EXCEPT !.phase = "start", !.poll = FALSE, !.hash = certs]
  /\ UNCHANGED batches

\* (slip: the loop just ends)
JustStop ==
  /\ wk.phase = "select" /\ cancelled
  /\ wk' = [wk EXCEPT !.phase = "done"]
  /\ UNCHANGED <<faults, batches>>
\* The context is done: one last run, with a context of its own.
BeginFlush ==
  /\ wk.phase = "select" /\ cancelled
  /\ wk' = [wk EXCEPT !.phase = "flush"]
  /\ UNCHANGED <<faults, batches>>

Flush ==
  /\ wk.phase = "flush"
  /\ TakeSnapshot(TRUE, "last") \/ NoSnapshot(TRUE, "done")
  /\ UNCHANGED batches

LastApply ==
  /\ wk.phase = "last"
  /\ Finish(TRUE, "done")
  /\ UNCHANGED batches

Step ==
  /\ \/ Snapshot \/ Apply \/ TakeBatch \/ TakeResync \/ PollCertificates
     \/ BeginFlush \/ Flush \/ LastApply
  /\ UNCHANGED <<docker, certs, cancelled>>

\* The tickers start with the loop.
Looping == wk.phase \notin {"flush", "last", "done"} /\ wk.tried > 0
ResyncTicks ==
  /\ Resync /\ Looping /\ ~wk.resync
  /\ wk' = [wk EXCEPT !.resync = TRUE]
  /\ UNCHANGED <<world, batches, cancelled>>
PollTicks ==
  /\ CertPoll /\ Looping /\ ~wk.poll
  /\ wk' = [wk EXCEPT !.poll = TRUE]
  /\ UNCHANGED <<world, batches, cancelled>>

\* Somebody issues or imports a certificate in the NPM UI.
CertificateChanges ==
  /\ certs <= MaxCerts
  /\ certs' = certs + 1
  /\ UNCHANGED <<docker, faults, batches, cancelled, wk>>

=============================================================================
