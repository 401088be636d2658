# Solmara Lab: TLA+ models and proofs

Solmara Lab is a demonstration country: ministries' registers served by Relays,
eligibility claims served by Evidence cells, a portal and a home site in front of
them, and a body of Python programs that generate, publish, provision, rotate and
verify what those services run on. The services themselves are pinned external
binaries. What this repository implements, and what can go wrong in it in ways a
unit test hardly reaches, is chiefly the second part: programs that change volumes
a running service reads, in several steps, and that are killed, repeated or run
twice. That part is modelled here first.

`PROJECT.json` lists components, runs, mutants, the map from definitions to source
lines, findings, hazards and theorems. This file explains them.

## 1. Inventory

| Component (source) | State it keeps | Operations | Hard behaviour | What makes it correct |
|---|---|---|---|---|
| Hosted provisioner (`scripts/provision-hosted-runtime.py`) | secret, extract and runtime output volumes of a cell; rollback runtimes | `provision --target X`, `publish-extract`, `init-audit` | killed between two file operations; two containers at once; same-second and set-back clocks; composing publications with later provisions | the gateway can be restarted at any moment; extracts are immutable; the binding moves forward in one step; superseded bindings can be restored; refusals come before writes |
| Relay runtime stager (`scripts/local-relay-runtime-stager.py`) | a Relay's volume: package, runtime.yaml, two staging names, a lock file | one run per container start | overlapping runs; killed half way; a checkout that changed | the Relay sees runtime and package of one release, whole, in one step, for good |
| Relay source publisher (`scripts/local-relay-source-publisher.py`) | the SQLite source of a Relay; a backup of its MoSD control row | `ensure-seeded`, `begin-proof`, `set-proof-state`, `restore-proof` | each verb in a container that may die; containers that overlap | the original row is never lost; a seeded source is not seeded over |
| Live lifecycle proof (`scripts/live-lifecycle-proof.py`) | through the publisher, the MoSD row; the SRO extracts, the SRO runtime.yaml and what the SRO gateway serves | `run_proof` | failure of any operation before or after its effect; nested `finally`; a killed run | a failing run restores what it captured; a passing one leaves the stack as deployed |
| Extract publisher library (`generator/solmara_lab/publisher.py`) | extract files | publish without replacing, validate | used by the three programs above | a published name is never written again |
| Local recipes: `just generate`, `just prepare-runtime`, `just prepare` (`gen-secrets.py`, `build-cells.py`, `project-runtime-secrets.py`, `check-signer-public-keys.py`, `publish-runtime-extracts.py`) | operator keys; the cells with public keys and `runtime.yaml`; all authorities' extracts of a checkout | make keys once, rebuild the cells, compare keys, publish and rebind every authority | killed between any two steps, between two cells or authorities; recipes repeated in another order; a clock set back | what was prepared is ready for every gateway; a refusal has a cause that is not the kill |
| Hosted Transit signer (`scripts/hosted-transit-signer.py`) and the proxy it becomes (`scripts/local-transit-proxy.py`) | a Unix socket path that outlives containers; key inputs and a staged copy in the container; the key in memory | start, take over a stale socket, consume the inputs, exec, bind, serve, stop | two signers on one path; killed between any two steps; a socket bound but not yet listened on; failures after the key was staged | a live signer's socket is not taken away; a stale one is; a key in use is nowhere but in memory |
| Local Transit supervisor (`scripts/local-transit-signers.py`) | pid files, socket paths | up, down | proxies that died, commands that were killed, pids that are used again, proxies that fail while others were started | after `up` every provider is served; a failed `up` leaves nothing behind; no proxy is forgotten |
| Scenario runner, federator and Evidence client (`scenario-runner/`, `scenarios/`) | access-token cache, JWKS cache | request steps on server threads | concurrent misses; slow or silent issuers; key rotation; answers meant for another request | no token that is about to expire and no outdated key is used; what is shown belongs to the request; every request ends, with a response or without one, and holds up no other for good |
| Portal (`portal/src`) | sessions with a lifetime; a bounded feed of traces per session; the stream's cursor; the browser's mirror | sign in and out, evaluate, stream, reconnect | awaits between reading the session and pushing the trace; a feed dropped under its stream; replays; ids that begin anew with the server | a page shows its session's traces, each once, in order, and in the end all of them |
| Portal sign-in (`portal/src/lib/server/esignet.ts`) | cookies | authorization-code exchange | none shared | linear |
| Fixture generator, metadata publisher, home site, asset and image manifests, checks and smoke tests | none that outlives a run | one-shot programs, read-only checks, stateless pages | none | deterministic output |
| Relay, Evidence, Mint, eSignet, walt.id | external | external | external | only their use of the volumes is modelled |

How they interact. Compose starts a Relay after its stager and its source
publisher have ended well, and an Evidence gateway on a volume that the
provisioner, or the local binder, has filled. All coordination goes through
files: of the programs that prepare and provision, none sends messages to another. A gateway
opens the extract its `runtime.yaml` names when it starts, and keeps it open; that
is the reason why a binding can be changed under a running gateway and why an
extract must never change under one. The lifecycle proof drives the publisher
through `docker compose run`, and checks the gateways over HTTP. On a checkout, the
recipes make the keys that the local proxies load and that the gateways verify
against, and the extracts that the gateways open. The Evidence client is the one part
that talks to the running services: to Mint for a token, to each authority's gateway
for an assertion, and for its keys.

## 2. Plan

Done in this order, the most important behaviour first:

1. `HostedProvision`, implementing `ExtractLedger`; all its safety proved, the bound
   extract's completeness and the immutability of extracts for any number of writers.
2. `RelayStager`, implementing `StagedRelease`; all its safety proved.
3. `SourcePublisher`, implementing `RowSession`; proved for one container at a time.
4. `LifecycleProof`, which EXTENDS `SourcePublisher` and composes it with the run; all
   its safety proved.
5. `TransitSocket`: signers and their proxies on one socket path; all that is checked
   of it proved.
6. `ProofStream`: portal sessions, feeds with lifetime and limit, the streams' cursors
   and the pages' mirrors; all its safety proved.
7. `LocalRuntime`: the local recipes over several cells and authorities, with kills and
   repetition; type correctness and all that is checked of it proved.
8. `TransitSupervisor`: the local supervisor, its pid files and proxies. It EXTENDS
   `LocalRuntime` and composes both; all that is checked of it proved.
9. `EvidenceClient`: token and key caches used by several threads; all its safety
   proved.

Next, extending the model: Relay, Mint and portal targets of the provisioner, and its
secret inventory, as a module `HostedTargets` that has several cells' outputs and one
inventory.

What is checked of safety is proved; what the extension adds is to be proved with it.

## 3. Modules

| Module | Role |
|---|---|
| `ExtractLedger` | abstract: what the provisioner promises about one cell's extracts |
| `HostedProvision` | the provisioner's commands on one direct cell, file operation by file operation |
| `HostedProvision_proofs` | its theorems |
| `StagedRelease` | abstract: what a stager promises to its Relay |
| `RelayStager` | the stager's runs, with lock, recovery and kills |
| `RelayStager_proofs` | its theorems |
| `RowSession` | abstract: a session on the row a proof changes |
| `SourcePublisher` | the publisher's four verbs in containers |
| `SourcePublisher_proofs` | its theorems |
| `LifecycleProof` | `run_proof`, with the publisher underneath |
| `LifecycleProof_proofs` | its theorems, on those of the publisher |
| `TransitSocket` | hosted signers and the proxies they become, on one socket path |
| `TransitSocket_proofs` | its theorems |
| `ProofStream` | the portal's sessions, feeds and streams, and the pages of one browser |
| `ProofStream_proofs` | its theorems |
| `LocalRuntime` | `generate`, `prepare-runtime` and `prepare` on a checkout |
| `TransitSupervisor` | `signers-up` and `signers-down` with the proxies, beside `LocalRuntime` |
| `LocalStack_proofs` | the theorems of `LocalRuntime`, and those of `TransitSupervisor` on them |
| `EvidenceClient` | requests on threads, with their token and their keys |
| `EvidenceClient_proofs` | its theorems |
| `MC*` | instances for TLC (`MCLocalStack` has `TransitSupervisor` with `LocalRuntime`) |

An operator ending a family of alternatives and commented `Mutant:` is a plausible
bug of the definition that follows it; nothing uses it in the specification. For
each property `PROJECT.json` names the mutant under which TLC finds it violated.

### HostedProvision

One direct Evidence cell. `secrets`, `extracts`, `bundle`, `runtime`, `rollback` and
`strayTemp` are the three outputs; a file is `absent`, `partial` (created),
`complete` (written, still mode 0400 from the create under umask 077) or `sealed`
(0444). An extract is named for the second it was published in, as the code names
the file, and its content depends on that second and on the release of the assets.
`pc` and `job` are the commands in progress: each action is one file operation or
one check of the code, so that a kill (`Kill`) or another writer can come between
any two. `Refuse` is a `ProvisionError`; a refused command's job stays on record
until the writer starts another.

Kept from the code: which outputs are looked at by which check (`ExtractsAccepted`,
`RuntimeAccepted`, `SecretsAccepted` are `_check_install_tree` with their `preserve`
functions and the legacy modes of `_check_secret_install_tree`), that all checks
precede all writes, that `_install_tree` passes over files that exist and verifies
afterwards, that `runtime.yaml` sorts last, that directories are opened to 0755 and
frozen at the end, that the binding is replaced with `os.replace`. Abstracted: file
contents beyond what comparisons distinguish (bundle, secrets and runtime apart
from the binding are the same for every release, so that only the extract tells
releases apart), the pre-check as one atomic step, a full disk (which is `Kill`
without the stray temporary file). `everBound` is a ghost variable.

### RelayStager

The volume's four names, each nothing, torn or whole, of a release; the lock; the
runs. `Start` reads and validates the whole checkout before the volume is touched,
`Acquire` is `flock`, `Recover` to `DropPackage` are `_recover`, `Compare` the early
success or refusal, `MakePackage` to `Verify` the staging. Removing and writing a
tree are two steps each: torn, then gone or whole. `Abort` is a kill or a failed
write: the descriptor closes, the files stay. Two branches of the code are not
reachable in the model, and are left out: the unlinking of a runtime without a
package, and staging over a half-staged runtime, both excluded by the proved
invariant `RuntimeHasPackage`.

### SourcePublisher

The control row (`absent` before seeding, `original` or `changed`), the backup file,
and up to all of `Containers` in a verb. SQLite transactions are atomic; the link of
the seed and of the backup does not replace. A container holds in `held` what it read.
`Overlap` says whether a container may start while another runs. `result` is the exit
code of a container until the next one is launched: a container's exit code goes to the
command that started it, and with `--rm` the container itself is gone.

### LifecycleProof

One action per operation of `run_proof` and `prove_replacement_refusals`. An
operation succeeds, or raises before or after its effect (`Try`), or only looks
(`Check`); `Raise` goes to the innermost `finally`. Calls of the publisher launch one
of its containers and wait for it to end; the call may be reported as failed
whatever the container did. The SRO side is abstracted to the set of extracts, the
one that runtime.yaml names, and the one the gateway serves; an extract is identified
by the run that published it and by its kind. Bringing the stack up again (`Up`)
may happen whenever no run is active. `Kill` stops a run, not its container; the next
run starts when that container has ended.

### TransitSocket

The socket file at the path is its inode and whether its mode is the final 0600 (the
code compares device, inode, owner and mode). `Signers` are containers, each with a
process at step `pc`, with the two key inputs and staged copies of the key. Every
action is one look at the path, one change to it, or one step on the key: `Verify` to
`Exec` are `exec_signer`, `Load` to `Stat` the construction of `TransitServer`, `Stop`
to `CloseUnlink` its close. `Bind` and `Listen` are apart, as they are two system calls
in the socket server's constructor; an inode that is neither bound nor linked may be
given out again. `End` is every exit: `refused` (an error before the key was staged
or after it was loaded), `failed` (the staged copy was discarded), `spoilt` (it was
not), `stopped`, `killed`. `Create` is a container with its inputs, `Restart` what the
daemon does with the container as it is. Abstracted: the checks of owners, modes
and of the key pair as whether both inputs are there, and the proxy's answers to requests,
which are stateless. `overlap`, chosen in `Init`, says whether a container may start or
stop while another one is starting or stopping.

### ProofStream

The tabs of one browser share its cookie; each has a page with an event source
(`conn`), the stream that the server keeps for it (`sid`, `lastSent`) and a mirror.
`recent` and `feeds` are the map of `SessionScopedProofFeedStore`, in the order of last
use. `ForSession` is every access to it: feeds nobody has used for half an hour go (any
feed without an open stream may have reached that age, and with it those that were used
before it: `Abandoned`), the one asked for becomes the latest, and over the limit the
oldest goes. `Flush` is a tick of a stream's timer
together with what the page does with the frames, which arrive in order or are lost with
the connection; the next connection sends all of the feed. `Evaluate` and `Answer` are
the route before and after its `await`, with a trace numbered by the live provider once
the answers are there. Signing in leaves the page, so that a page's mirror starts empty
in `Load` and `SignIn` and nowhere else. `Restart` loses the server's memory, while
pages and the cookie stay. `done`, `seen`, `evicted` and `restarts` are there to say
what happened. Left out: the mock provider, the trace of the sign-in, the rail, the
heartbeat, accesses of two feeds within the same millisecond, a clock that is set back, and streams of broken
connections that the server has not noticed yet, which keep a feed in use for longer.

### LocalRuntime

One operator runs a recipe, kills it anywhere, deletes a signing key, or runs another
recipe. `recipe`, `step` and `todo` are where it is; `KeepKey` to `WriteKey` are
`create_once` over the signing keys, in the two steps in which a file is created and
written, `RemoveCell` and `RemoveRoot` the `rm -rf` of `just generate`, `CopyCell` to
`BuildFails` the loop of `build-cells.py`, `Project` the other secrets, `Check` the
comparison of public keys with which `prepare-runtime` starts, `Plan` to `RebindDone` the extract
binder: bindings and targets of all authorities are read and validated before any file
is written, then all extracts are published, then all bindings replaced. The n-th key
of a cell is `n` (`made` is a ghost of how many there were), so that `KeysMatch` can say
that a cell was built with the key that signs. An extract is its publication time; a
run's time is any, since a clock may be set back and `--published-at` be given.

Kept from the code: a torn key is kept for ever, and the build stops at it; an extract that is bound and valid is kept, one that is
missing or stale is replaced, one that is of the future is refused. Abstracted: the
contents of extracts and of secrets other than signing keys, TLS files and `.env`, the
Relay sources and the Relay packages that the recipes also write, and what
`bundle-check` says. Not modelled of what a kill may leave: an HMAC key that is torn,
kept, and projected as it is; a key that is whole but not yet of mode 0600, which the proxy refuses; a
temporary file and a writable directory beside `runtime.yaml`; a `generate` that was killed after
the check could pass but before the other secrets were projected, which
`prepare-runtime` does not notice (which is why `PreparedIsReady` promises `projected` of
`prepare` only).

### TransitSupervisor

`proxy` is what each process does, and for which provider, `socket` who has bound each
provider's path, `pidfile` what the supervisor wrote. `Run` starts a command, `KeepProxy`
to `UpDone` are `start`, `NothingToStop` to `StopDone` are `stop`, with which a failing `up`
undoes what it started. `stop` looks a proxy up (`FindProxy`) and signals it afterwards: one
that has ended meanwhile is signalled without effect as long as its parent has not waited for it
(`TerminateLate`; the parent of all that `up` stops is `up` itself), and is gone otherwise: then
`os.kill` raises, and `down` ends with the providers it has left as they are, their pid files
included (`TerminateRaises`). `Load` to `Close` are the proxy, at the grain at which the
supervisor and other proxies can tell its steps apart; `Die` is a kill, a crash or a
reboot of a proxy, `Interrupt` the kill of a command, or any other exception that ends it; the
proxies run in sessions of their own. A free pid may be any proxy's next, so that a pid file can name another provider's
proxy (`Owned` looks only at whether the process is a proxy, as `owned_process` does).
`NotReady` may come at any time at which nobody accepts a connection, `Awaited` at any
time at all: both stand for time limits. `disturbed` and `cut` are ghosts: whether a
proxy lost its path since the command began, and whether a command was ever killed.

Left out: a pid that is given to a process that is no proxy (it is as if there were
none), errors of the alias directory, something other than a proxy's socket at the
path, and the return of `server_close` for a path that was replaced. Providers are
taken in the order of the cells. What the code does not promise, no property says: an
abandoned socket refuses every later `up` until somebody removes it, also one that a
`SIGTERM` before the proxy's handler was installed leaves; a killed `up` can leave a
proxy that no pid file names.

### EvidenceClient

A request has a thread at `pc`; `Plan` is which authorities it needs. `TakeToken` to
`MintGarbles` are `evidence_access_token` with its lock held during the exchange,
`AuthorityAsserts` to `AuthorityGarbles` the authority's answers, `UseCachedKeys` to
`KeysFail` `_authority_jwks`, where the fetch is outside the cache's lock,
`Verify` what `normalized_evidence_result` compares, `Conclude` and `Aggregate` what the
callers make of it: the federator stops at a failure, the runner asks all authorities
and shows the first failure. `MintIssues` and `PublishesKeys` fix what an answer says
when it is sent, so that it may be old when it arrives. `Rotate` is an authority that
changes its key at once.

Not every request is answered. Where the code catches an exception, the request goes on with a
failure: no token (`MintFails`), a refusal (`AuthorityRefuses`), an invalid assertion (`KeysFail`).
Where it does not, the exception leaves the handler and ends the thread, and the client
gets no response (`Dropped`): Mint's answer is taken apart outside of the `try`
(`common.py:257-258`), so that one that is no object, or whose `expires_in` is no number, ends the
request (`MintGarbles`); `error.read()` of an authority's refusal runs within the handler of the
`HTTPError` (`common.py:133`), whose sibling does not catch what it raises, and the farmer scenario
shows a discovery as it is, also one whose shape the projection does not expect
(`AuthorityGarbles`). The `with` of the lock releases it on the way. A response that is made but
cannot be written, since its client has gone, is not told from one that arrives.

Abstracted: one clock for all, which is never set back (the code reads `time.time()` for the token
and `time.monotonic()` for the keys), and which `Tick` moves only when every exchange is within its
time limit and no thread has work that waits for nobody; a socket timeout is taken for the whole
exchange, though it limits each read on its own; an assertion's nonce, purpose, subject, requirement and validity are "made for
this exchange"; a token that expires while an authority is asked is seen as a refusal.
Not modelled: a token given by the environment, the runner's own call of the federator, which gives up
after eight seconds (`child_benefit.py:80`), friendly projections.

## 4. Runs

| Run | Instance | What it shows |
|---|---|---|
| `single` | one writer, two releases, three seconds, commands start in distinct seconds | see below |
| `concurrent` | two writers, one release, two seconds, no restriction on seconds | `BoundExtractComplete`, `ExtractsImmutable` under every interleaving |
| `orphan` | one writer, one release | violation: finding 1 |
| `overlap` | two writers, one release, three seconds | violation: finding 2 |
| `stager` | two stagers, two releases | the stager's safety, and that no run waits forever |
| `publisher` | two containers that overlap | seeding and backups survive overlap |
| `lifecycle` | two runs, one container at a time | recovery and restoration |
| `signer` | two signers, two inodes; `overlap` chosen in `Init` | under every interleaving `TypeOK`, `KeyConfined`; one at a time `ServingReachable`, `FreshSignerStarts` |
| `proof_stream` | two tabs, two sessions, one feed, three traces, one restart | what pages show, and that they catch up |
| `local_stack` | two cells with extracts, one key made twice, three publication times; three pids | what was prepared is ready, failures have causes, no proxy is forgotten |
| `evidence_client` | two requests, two authorities, one rotation | what is shown is the request's own, by recent keys, in time |
| `signer_listener` | the same as `signer` | violation: finding 3 |

**single.** `GatewayRestartable`: once `runtime.yaml` is sealed, the gateway can start,
whatever was killed. `RollbackReady`: every superseded binding has a whole rollback
runtime and its extract. `RefusalsExplained`: without kills, a command is refused only
for a clock behind the bound publication, other rows, a missing runtime or a
publication that is not newer; in particular provision composes with earlier
publications. `PreflightDecides`: a provision that is refused has written nothing.
`ImplementsLedger`: the binding moves only forward and only onto available extracts.
Three seconds let a cell be provisioned, published to and published to again, with
a superseded and a twice superseded binding; two releases are enough for an extract
that differs from what is staged. All states of one writer are reached.

**concurrent.** Two writers suffice for every race the code has: a property of
`BoundInv` relates two writers at most, and the theorem covers any number.
`DistinctSeconds = FALSE` adds a retry in the second of the killed command.

**stager.** A third run adds nothing to the lock; two releases are needed for the
refusal of a second one. **publisher.** Two containers are what it takes for one to
overtake another between its check and its write. **lifecycle.** The second run is
the one that meets what a killed first run left; `MaxRuns = 2`.

**signer.** Two signers are what it takes for one to take another's
socket, and the theorems cover any number; two inodes let one be given out again while
the other is bound. Without overlap a second signer may be started, be refused, fail or be
killed beside one that serves, and a socket of an earlier deployment may be there. All
steps of the error handler for a path that is taken need `overlap`, as does finding 3.
`ServingReachable` and `FreshSignerStarts` say `~overlap` themselves.

**proof_stream.** `SteadyMirror`: a page that has had one session's stream only shows
traces of that session, each once, across reconnection, expiry, dropped feeds, restarts
and what other tabs do; and in order, as long as its feed was not dropped for the limit. When it
was, under an open stream, and two evaluations are answered before the stream's next
tick, the stream's cursor stands behind the first of them: the page shows the second,
and gets the first from the next connection, after it. (A feed that was abandoned has
no open stream, and so no cursor into it.) The proof needed the distinction, and two traces were
too few for a run to see it. `NothingSkipped`: what a stream takes for sent
is on its page, unless its feed was dropped for the limit. `MirrorOnlyGrows`: before
the server is restarted no trace gives way to another; afterwards one may, since ids
begin anew and a page that stays can get the stream of a session signed in to in
another tab. `CatchesUp` is under Fairness. One feed for two sessions has the limit reached
by the second session; a limit of 100 differs in how long that takes. Two tabs let a
session be signed in to while a page of the former one stays. Three traces are one that
is dropped, one that is passed over and one that is shown.

**local_stack.** `BoundExtractsWhole`: a `runtime.yaml` that names an extract of its own
names one that is published. `PreparedIsReady`: when `prepare` or `prepare-runtime` ends well, every
gateway finds its extract, of an age it accepts, and its cell has the public key of
the key that signs, whatever recipe was killed where before. `FailuresHaveCauses`: a
recipe fails for a torn or deleted key, for cells that were not built with the present
keys, or for a bound extract that is of the future, never for what a killed run has left
half done. `UpServes`, `FailedUpStops` and `NoneForgotten` are about the supervisor: a
command that ends well has every provider served by the process its pid file names; one
that fails stops what it started; and between commands every proxy is in the pid file of
its provider, unless a command was ever killed; also after a `down` that ended in the middle, because
a proxy died under its hands. Two cells are what it takes for a run to die between two; two keys of
one cell for a cell that was built with the former one; three times for an extract that
is stale, valid and of the future. Three pids let a third process take a free pid while
the two providers' are known, and a process linger beside its provider's next one.

**evidence_client.** `TokenWaitBounded`: a request waits for the lock and for Mint no
longer than one time limit for each request. `TokenAlive`: it begins with a token that is
good for more than what the exchange with Mint can take off the margin. `KeysRecent`: cached
keys were the authority's within the cache period and a fetch's time limit, also when of two fetches the
older one was stored last. `ShownIsOurs`: what is accepted was made for this very exchange
and signed with a key as recent, and a result is shown as whole only if every
authority's assertion was accepted. `RequestsEnd`: the thread of every request ends, also when that of
another one was ended by an exception while it held the lock; see Fairness. Two requests make up every race on the
token's lock and the keys' cache; the second may also ask for definitions.

Deadlock is checked in all of them but `evidence_client`, where every request ends, and
the clock stops at `MaxTime`.

### Bounds and assumptions, by name

- `MaxTime`, `MaxRuns`: the clock and the number of lifecycle runs.
- `MaxSessions`, `MaxTraces`, `MaxRestarts` of `ProofStream`: how many sessions, answered
  evaluations and restarts there are. `Limit` is the code's limit on feeds, made small.
- `LastAfterDrop`, the CONSTRAINT of `proof_stream`: a state in which all three evaluations
  were answered is gone on from only if a feed was dropped for the limit, the server was not
  restarted, and no other answer is awaited. Anything else shows with two; the inductive
  invariant was checked, and holds, without the constraint, as do the theorems.
- `DistinctSeconds`: in `single` no command starts in a second in which a killed one
  had started. Without it `GatewayRestartable` is false: a publication killed before
  its `chmod` and repeated within the same second binds a file of mode 0400. The theorems
  on one writer that follow from `GatewayInv` name it as a hypothesis, as they do `OneWriter`.
- `overlap` of `TransitSocket`: whether a container may start or stop while another one
  is starting or stopping. `ServingReachable` and `FreshSignerStarts` are claimed without
  it only: with it, finding 3 takes a serving signer's path.
- `MaxKeys`, `MaxTime` of `LocalRuntime`: how many signing keys a cell has had, and the
  last publication time. `MaxAge` is `MAX_EXTRACT_AGE_SECONDS`, made small.
- `Apart`, the CONSTRAINT of `local_stack`: once the supervisor was used, only states are gone on from in
  which the cells were not built and no extract published. The supervisor reads nothing
  of the recipes but key files, and the recipes nothing of the supervisor; the product
  of all their states (more than four million) shows nothing more about either. The
  recipes' states are all reached without a supervisor, the supervisor's all beside keys that are absent, torn
  and whole. The action properties are checked on every step that is taken from a state within it.
- `Pids` of `TransitSupervisor`: how many proxies there can be at a time.
- `MaxTime`, `MaxRotations` of `EvidenceClient`, and its times, which keep the order of
  the code's: a time limit of 8 s is shorter than the margin of 10 s, that is shorter than a token's
  lifetime. One tick for a time limit is enough for an answer to be old when it
  arrives, three ticks for a key to be rotated, fetched before and stored after, and to go out
  of the cache.
- `Overlap = FALSE` of `SourcePublisher` in `lifecycle`, and the theorems' hypothesis `~Overlap`: `docker compose run` returns
  when its container has ended. Overlapping containers can lose the original row
  (a straggling `set-proof-state` commits after `restore-proof`); `publisher` checks
  what survives overlap.

### Fairness

Three modules state liveness. In the others an operator decides what to run next.

- `RelayStager` (`RunsEnd`: no run that waits for the lock waits forever). Weak fairness
  of a run's steps: a container that is not killed goes on, and its steps are local file
  operations. Strong fairness of `Acquire`: the kernel grants `flock` to its waiters in
  turn. Nothing makes a run start, and a run may be killed at any time.
- `ProofStream` (`CatchesUp`: an open stream comes to have all of its feed on the page,
  again and again, unless it ends or the feed is dropped for the limit). Weak fairness of
  `Flush`, which `setInterval` calls every 250 ms while the stream is open.
- `EvidenceClient` (`RequestsEnd`: the thread of a request that has begun comes to an end). Weak fairness of
  each thread's `Work`: a thread that holds the lock, or has an answer or a time limit that
  has passed, goes on. Every call of `http_json` has a timeout, so that an exchange ends
  although nobody answers. Nothing is assumed of Mint or of the authorities.

## 5. Findings

1. `orphan`. The test `test_orphan_direct_extract_recovers_after_pre_runtime_crash`
   says that an extract left by a crash before the runtime is recovered. It is when
   the crash came after the extract was whole and sealed. The installer creates an
   extract under its final name and then writes it, so that a kill in between leaves
   a file that every later provision refuses.
2. `overlap`. The hosted deployment document says that a non-newer publication fails
   closed. Each of two overlapping publications compares the binding it reads with
   the one it started from, and replaces it later without a lock; the older
   publication may end up bound over the newer one.

3. `signer_listener`. The hosted deployment document says that a signer refuses to start
   on a socket that accepts a connection rather than removing another process's
   listener. A signer tests this by connecting, and unlinks the path later. Between
   the bind and the listen of another one the test is refused like a stale socket's, the
   identity is the same afterwards, and the path that is then unlinked is one on which
   the other signer listens. It goes on serving where nobody can reach it.

One more disagreement has no run, since no state is needed to see it: the citizen
scenario says "Read the Evidence definitions." (`scenarios/citizen.py:20`), but passes the
authority's response to `normalized_evidence_result` (`citizen.py:42`,
`pension_survivor.py:51`), which looks for an assertion and always raises
`assertion_verification_failed`; the farmer scenario shows the response as it is
(`farmer_voucher.py:54`). `EvidenceClient` has both (`AuthorityDiscovers`). And the
repository's README says that `just generate` publishes databases and extracts, which is
what `prepare-runtime` does.

## 6. Theorems

All theorems hold for every value of the constants under the named `ASSUME`s. Only the
bound on waiting assumes a set to be finite (`RequestsAssumption`: there are finitely many
requests). tlapm checks every step. Three hypotheses occur, each where
the code needs it: `OneWriter` (`\A v, w \in Writers : v = w`: the provisioner takes no
lock, and is run by one operator), `DistinctSeconds` and `~Overlap` (section 4). Finding 2
and the runs `concurrent` and `publisher` are about what happens without them. TLC found
each inductive invariant to hold of all reachable states, on the instances of section 4
unless said otherwise, before it was proved.

- `HostedProvision_proofs`, for any number of writers. `TypeCorrect`; `BoundInvHolds`, from
  which `BoundExtractIsComplete` and `ExtractsAreImmutable` follow. `BoundExtractComplete`
  is not inductive: a writer that is about to create or replace `runtime.yaml` must have its
  extract whole already, and no other writer may be taking an extract back to partial.
  `Progress` says how far the extract of a writer at each step is, `WritersApart` that no two
  writers write the same extract (each got there by creating the file); together with the
  type invariant they are inductive. The proof has one step per action.
- `HostedProvision_proofs`, for one writer. `GatewayInvHolds` (with `OneWriter`,
  `DistinctSeconds`): beside `BoundInv`, `Underway` says what a command at each of its steps
  has behind it, `Installed` what a sealed `runtime.yaml` stands for, `UnsealedExplained` that an extract which
  is whole but not sealed belongs to the command in progress or to the second of a killed one;
  that is where distinct seconds are needed. `GatewayStaysRestartable`, `RollbacksStayReady`
  and `ProvisionerImplementsLedger` follow: a step of the ledger is the `chmod` of an extract
  or the replacement of the binding, all others stutter. `ClearedInvHolds` (with `OneWriter`)
  carries what the checks ahead of an installation have found to the steps that rely on it;
  `PreflightHolds` follows. `RefusalsStayExplained` (with `OneWriter`) adds `AtRest`: as long as no command was killed,
  there is nothing partial between two commands, so that `ProvisionCheck` accepts the outputs.
- `RelayStager_proofs`. `StagerInvHolds`: the strengthening is `Prepared`, what the
  lock holder finds at each of its steps. `SuccessStays` is its last conjunct: a staged
  runtime is final because `Compare` refuses and recovery only removes a package
  without a runtime. `StagerRevealsOnce`: with the same invariant, only `ReplaceRuntime`
  changes what the Relay sees, from nothing to a whole release. `FailuresStayExplained`:
  while no run was cut short, nothing is torn but what the lock holder is writing (`Tidy`), so
  that only `Compare` refuses; and what it refuses for stays.
- `SourcePublisher_proofs`. `PublisherTypes`, `BackupsAreKept` and `SeedingKeepsContent`
  hold however containers overlap. `PublisherInvHolds` (with `~Overlap`): at most one
  container is at work, and it holds the original row where it is going to write one.
  `PublisherImplementsSession` (with
  `~Overlap`) maps the verbs' steps to the session's, by the invariant.
- `LifecycleProof_proofs`, on those. `RunUsesPublisher`: a run, seen at the source, is a
  behaviour of the publisher, so that its theorems hold in the composition
  (`RunsImplementSession` is one). `RunInvHolds` (with `~Overlap`, for any number of runs):
  `ExtractsKnown` says which extracts there can be at each step, `Whereabouts` where the run and its
  containers are, `RowKept` what the steps behind a run have brought about at the row,
  `PutRight` what its cleanup has restored so far. `BoundExtractIsKept`, `FailuresRestore`, `PassesLeaveDeployed`
  and `RunsKeepTheRow` follow. The proof found that a run must not read the exit code of a container of an earlier run, which
  `Launch` therefore forgets. TLC checked `RunInv` with two containers and two runs.
- `TransitSocket_proofs`. `TypesKept`, which contains that no inode is bound twice, and
  `KeysAreConfined` (strengthening: `KeyInv`, which follows the inputs and the copies
  through every step) hold however signers overlap. `ServingIsReachable` and
  `FreshSignersStart` rest on `Alone`: without overlap one process at most is on its way,
  what it has seen at the path is still so, and once it has found the path free or
  stale no other one serves.
- `LocalStack_proofs`, of the recipes, for any cells and authorities, in any order and number.
  `RuntimeTypesKept`; `BoundExtractIsWhole`, `PreparedStaysReady` and
  `FailuresAreExplained` from `RuntimeInvHolds`. None of them is inductive. `Sound`
  is what holds after any kill: extracts are there as a whole or not at all, a public
  key is in a cell that is there. `Built`, `Settled` and `Planned` say what a recipe at each of its
  steps has done already, for the cells or authorities that are not in what it has left
  (`RemainingNext` is the lemma on lists this needs); they are true of an ended recipe, which is why
  a kill keeps them.
- `LocalStack_proofs`, of the supervisor and on those, for any providers and pids. `StackRunsRecipes`:
  beside the supervisor the recipes behave as they do alone; `StackKeepsRecipes` takes their theorems over.
  `SupervisorInvHolds`: `SocketsOwned` (a socket is abandoned, or that of a proxy of its provider),
  `ProxiesKnown` (unless a command was killed, a proxy that is not closing is on record, or
  is the one the command has just started; and none that has not bound yet is there for a `down`,
  which may end early), `AtTurn`, `StopClears` and `UpReaches`, which say what a command has
  brought about for the providers it has behind it. `ProxiesAreNotForgotten`, `FailedUpsStop` and `UpsServe` follow.
- `EvidenceClient_proofs`, for any requests, authorities, plans and time limits with
  `Timeout < Margin < Lifetime`. `TypesKept` has `Located` with it, which says how many
  authorities a request has left at each step. `TokensLast` rests on `TokenSound`: by its
  holder's reckoning a token lasts at most a time limit longer than at Mint, since an exchange
  that is under way began no longer ago. `WaitsAreBounded` rests on `WaitSound`: a request
  has waited no longer than one time limit for each request that is past the token by now
  (`Past`), and for the present exchange; none of them comes back, and the one that waits is not
  among them. `KeysAreRecent` rests on `KeysSound`, which follows a key
  from the moment an authority publishes it, through an answer that is late, into the cache:
  a rotation that it misses came after the fetch began. `WhatIsShownIsOurs` combines
  both, by `Conclusion`, the lemma on what the end of an exchange does to a request, and
  `Endings`, that a verdict "accepted" only comes of an assertion made for it.

- `ProofStream_proofs`, for any tabs, limit and bounds. `StreamInvHolds`, from which
  `ProofStreamNothingSkipped`, `ProofStreamSteadyMirror`, `ProofStreamMirrorOnlyGrows` and
  `ProofStreamTypeOK` follow. None of the three properties is inductive: that a page stays in order needs
  `PagesOrdered` (what a page lacks of its session's feed is later than all it shows), that
  no trace of a session takes another's place needs `Numbered` (the ids and the order of a
  session's traces are the same distance apart, since a session that can still be answered does not survive
  a restart), and that a stream's cursor means anything needs `StreamsKept`. `Kinds` reduces the
  steps to four: a stream sends (`Sends`, for `Flush` and `Opens`), an answer makes a trace
  (`Makes`), something ends or is loaded (`Leaves`), and `Restart`; `Stored` is what any access
  leaves of the feeds. What a page makes of a sequence of traces (`AllAppliedFacts`,
  `AllAppliedKeeps`, `AllAppliedGrows`, `AllAppliedOrdered`) is by induction on the traces applied so far,
  which `Inductive` derives from the fact that every set of numbers has a least one
  (`WFMin` of the library, which takes no operator).

Every safety property that a passing run checks is proved. Only model-checked: liveness under
fairness (`RunsEnd`, `CatchesUp`, `RequestsEnd`), which is beyond the proof system. The type
predicates of `LifecycleProof`, `ProofStream`, `LocalRuntime`, `TransitSupervisor` and
`EvidenceClient` document their variables and are not among the runs' properties; they are
proved too.

## 7. Not modelled

Each component's note in `PROJECT.json` says why. In short: programs without state
that outlives a run (generators, builders, manifests, checks, static publishing),
external products, user interface; and, planned, the other targets of the provisioner.
What is left out of a modelled component is said with its module.
Hazards that no property covers name none, and carry a note there; so do those that are covered
in part. Those in
the modelled components, which are properties of the code as it is: after a kill a
provision may be refused until somebody removes a partial extract, a rollback of
mode 0400, a temporary runtime or restores a directory's mode; a torn staging tree
fails every later stager run; a publication that is repeated within the second of one that was
killed before its chmod binds an extract the gateway cannot read; publisher containers that overlap
can lose the original row; a proof feed that was dropped under an open stream can pass over traces,
and a page takes another run's trace for one it has; a lifecycle run killed after it bound the changed
extract makes the next run take that binding for the original.
