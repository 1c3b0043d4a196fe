---------------------------- MODULE DurableCodex ----------------------------
(***************************************************************************)
(* The files of one provider start key, and the detached worker process    *)
(* that runs Codex for it: DurableTaskManagerCodexExecutor and             *)
(* task_manager_codex_worker, as operators on the state of a key.          *)
(*                                                                         *)
(* Every file is published by one rename.  The worker outlives the server  *)
(* that spawned it, Codex outlives a worker that is killed: each has a     *)
(* session of its own.                                                     *)
(***************************************************************************)
EXTENDS Naturals

Provider ==
    [waiting: Nat,                            \* spawned workers that did not try the lock yet
     claim: {"none", "lock", "file"},         \* worker-claim.lock, worker-claim.json
     worker: {"none", "alive", "ended"},      \* the process that got the lock
     codex: {"none", "running", "ended"},
     launches: Nat,                           \* how often Codex was started
     terminal: {"none", "succeeded", "failed"}]  \* terminal.json

NewProvider ==
    [waiting |-> 0, claim |-> "none", worker |-> "none",
     codex |-> "none", launches |-> 0, terminal |-> "none"]

-----------------------------------------------------------------------------
(* The server's side: start_or_locate and observe *)

\* _ensure_worker looks for the claim or the terminal result, not for the lock.
NeedsWorker(p) == p.terminal = "none" /\ p.claim # "file"

\* start_or_locate up to the wait: a repeated request finds its own files.
Locate(p) == IF NeedsWorker(p) THEN [p EXCEPT !.waiting = @ + 1] ELSE p

\* The answers os.kill(pid, 0) can give.  The pid of an exited worker answers
\* while it is a zombie of the server that spawned it, or when it is reused.
PidAnswers(p) == IF p.worker = "alive" THEN {TRUE} ELSE BOOLEAN

-----------------------------------------------------------------------------
(* The worker's side: run *)

\* a claim that does not insist on creating the lock file
ClaimWithoutLock(p) == [p EXCEPT !.waiting = @ - 1, !.claim = "lock", !.worker = "alive", !.codex = "none"]

\* _claim, first half: O_EXCL decides; the loser exits with no effect.
Claim(p) ==
    IF p.claim = "none"
    THEN [p EXCEPT !.waiting = @ - 1, !.claim = "lock", !.worker = "alive"]
    ELSE [p EXCEPT !.waiting = @ - 1]

Working(p) == p.worker = "alive"

PublishClaim(p) == [p EXCEPT !.claim = "file"]

CanLaunch(p) == Working(p) /\ p.claim = "file" /\ p.codex = "none"

Launch(p) == [p EXCEPT !.codex = "running", !.launches = @ + 1]

\* The launch envelope is refused or Codex does not start.
LaunchFails(p) == [p EXCEPT !.terminal = "failed", !.worker = "ended"]

CodexEnds(p) == [p EXCEPT !.codex = "ended"]

\* The exit status and the event log tell the result; the worker exits.
PublishTerminal(p, result) == [p EXCEPT !.terminal = result, !.worker = "ended"]

\* The limit is exceeded: Codex is killed and the attempt failed.
TimesOut(p) == [p EXCEPT !.codex = "ended", !.terminal = "failed", !.worker = "ended"]

\* A worker is killed; Codex goes on without it.
WorkerDies(p) == [p EXCEPT !.worker = "ended"]

\* The worker was lost before its result: nobody will publish one any more.
Lost(p) == p.claim # "none" /\ p.worker = "ended" /\ p.terminal = "none"
=============================================================================
