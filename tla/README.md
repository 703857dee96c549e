# A verification project for Sentinel

Sentinel stands between an agent and the tools it asks for. An agent (the
*diner*) places an order; the *cashier* decides it by a fixed policy; an
accepted order becomes a signed *ticket*; a *chef* carries it out in a sandbox
and puts a draft into the *serving window*; and every outcome is recorded as a
hash-chained, signed *receipt*. Operators change policies and the menu through
a console with separation of duties. Users of the personal ("consumer") mode
say for each capability whether it is allowed, asked about or blocked.

This directory holds TLA+ modules translated from that code, TLC instances of
them, and proofs for TLAPS. `PROJECT.json` maps every definition to the source
lines it stands for.

    tlc -workers 2 -config MC_Gateway.cfg MC_OrderPath.tla
    tlapm OrderPathProofs.tla

## 1. The system's parts

Paths are below `src/sentinel_slice/`.

| part | state it keeps | operations | what makes it correct | here |
|---|---|---|---|---|
| Cashier, decision (`cashier/engine.py`, `policy.py`) | none | `evaluate_order`: replay, menu, role, pause, scope, rate, in this order | the first check that fails names the verdict; nothing outside menu, grant and scope is accepted | `OrderPolicy` |
| Cashier, store (`cashier/store.py`) | seen nonces, accept times per (principal, capability), in memory | `nonce_seen`, `rate_count`, `record_accept` | a nonce passes once; no window ever holds more accepts than the limit | `OrderPath` |
| Order path (`loop.py`, `gateway.py`, `mcp_gateway.py`) | the order in progress | `place`: decide, mint, run, receipt; malformed intake | one receipt for each outcome; execution only behind every gate; each order ends | `OrderPath`, `OrderLifecycle` |
| Personal gate (`consumer/loop.py`, `approval.py`) | the settings in memory | allow, ask (once / always / deny), block | a blocked capability never runs; "ask" never goes on without an answer | `OrderPath` |
| Settings (`consumer/preferences.py`, `permissions.py`, `app/model.py`) | a JSON file and one copy per running program | load, choose, save | choices stick, blocks bind, nothing is allowed that the user did not allow | `PersonalSettings` |
| Chef runner and window (`chef/runner.py`, `window/serving.py`) | a workspace per run, an output file per order id | `run_chef` | success needs exit 0 and a draft of this order; every way out tries to remove the workspace | `OrderPath` |
| Sandbox backends (`chef/*sandbox.py`, `appcontainer.py`) | ACL grants, VM disks, processes | `run` | the exit status tells the truth; a grant lasts as long as its run, and no longer | `ChefSandbox` |
| Receipt ledger (`ledger/receipts.py`, `spine/`) | a sqlite table | `append` | rows form one chain | `ReceiptChain` |
| Verifiers (`verify_ledger.py`, `verify_policy_history.py`) | none | walk of the rows | an accepted file is a prefix of what was appended; the first bad row is named | `ReceiptChain` |
| Inspector (`inspector.py`), activity screen (`console/service.py`) | none | the same walk again; the day's report | agrees with the verifier; tells what became of the orders | `ReceiptChain`, `InspectorReport` |
| Console (`console/service.py`, `server.py`) | the registry of roles | publish, approve, roll back, curate | a sensitive grant has two people behind it | `PolicyConsole` |
| Policy history (`authoring/policy_store.py`) | a sqlite chain, `active.json` | append, read active, materialize | `active.json` is the active version, never a proposal | `PolicyConsole`; its chain is `ReceiptChain` |
| Menu (`menu/catalog.py`, `builder.py`) | capability files | create, enable, disable, delete | a file is what was last asked for, or says that it is torn; a torn one lets nothing pass the second admin | `PolicyConsole` |
| Signed requests (`console/signed_auth.py`) | none: no request is remembered | verify a signature within a window of time | a request takes effect for its signer only | roles and repetition only |
| App home (`apphome.py`, `keygen.py`, `init_app.py`), first run (`app/firstrun.py`), installer (`installer.py`) | a key pair, the sandbox marker, grants on an installed runtime | init, keygen, install, open, uninstall; a gateway reads key and marker | receipts of the home keep verifying; the marker stands for grants; an app that opens finds a usable home | `AppHome` |
| Connect screen (`app/connect.py`, `app/model.py`) | another program's configuration file | connect, disconnect | it changes its own entry and nothing else | `HostConfig` |
| Drill, attestor, web page, diner | files of their own | see section 8 | | not modelled |

How they meet: a gateway process calls cashier, gate, runner and ledger in
turn, in one thread. Different processes meet only in files: several gateways
in the one ledger, gateways and the app and the permissions editor in the
settings file, the console in the policy history and its own capability files,
set-up programs and gateways in the home, the app and an MCP host in the host's
configuration. None of these files is locked, and all but the two sqlite tables
are rewritten in place.
The runner and the backend meet in the workspace and the serving window, and
the file system is all the chef returns besides its exit status.

What is hard to test, and so what the properties are about: the process dying
or a call raising between any two steps of an order; the clock moving between
the decision and its record; memory (nonces, rates, settings) that a restart
forgets; a commit that raises and leaves its row to the next one; an id that is
used again; files that are written in two steps, or cannot be read; two
processes that read, then write, the same file; an admin's request repeated
after other requests have changed what it means. `PROJECT.json` lists these
hazards with their lines.

## 2. The modules

    OrderPolicy <- OrderPath <- MC_OrderPath          (instances)
                            <- OrderPathProofs       (theorems)
                               <- OrderReceiptProofs (theorems)
    InspectorReport <- OrderPath                     (its report over the ledger)
    OrderLifecycle  <==  OrderPath                   (refinement)
    ReceiptChain     <- MC_ReceiptChain,  ReceiptChainProofs
    PolicyConsole    <- MC_PolicyConsole, PolicyConsoleProofs
    PersonalSettings <- PersonalSettingsProofs
    ChefSandbox      <- ChefSandboxProofs
    AppHome          <- MC_AppHome,       AppHomeProofs
    HostConfig       <- HostConfigProofs

Operators named `...` under a comment "Faulty:" are not part of the model.
Each is a plausible bug in the definition after it; putting it in place of
that definition breaks one property, which shows that the property depends on
the code.

**OrderPolicy** is `evaluate_order` as an operator. A resource is a record of
what the scope rule asks of it: its owner, whether it is free of control
characters, and whether its local part is one safe path component.

**OrderPath** is one gateway process through several lives. `pc` is the line
at which the order in progress stands: `rejecting` and `accepted` after
`process_order`, `gate` and `asking` in `ConsumerLoop.place`, `spawn`,
`running`, `exited0`, `exited1` in `run_chef`, `receipted` between the commit
of its receipt and the return of `place`. `placed` keeps each order with
its verdict and how its call ended (`returned`, `raised`, `crashed`); `spent`
and `history` are the cashier's store; `prefs` and `prefsFile` the settings in
memory and on disk; `window` the output file of each order id; `workspaces`
the directories that exist, `undeleted` those whose `rmtree` failed, which
`ignore_errors` keeps to itself. The receipts are `session`, as the connection
of the process has them, and `ledger`, the part of them that is committed:
`Ledger.append` inserts and commits without a rollback anywhere, so a commit
that raises (`CommitRaises`) leaves its row on the connection, for the next
commit (`Commit`) to take along or for the end of the process to drop.
`minted`, `allowed` and
`executed` remember what happened to an order, for the properties.
Constants choose the mode: `Consumer` is `ConsumerLoop` against
`SentinelLoop`, `UniqueIds` is the MCP gateway, which makes its ids, against
`gateway.py`, whose caller does.
`Settle` is the append of a receipt: it is committed, or it raises through
`place`. `Return` is what follows a commit; the process may die before it.
`Raise` is any other exception that leaves `place`: a ledger whose head cannot
be read, an approver without a terminal, a sandbox that is not there. A program that embeds the
loop may catch it and go on. `sentinel-mcp` does not and ends, which is
`Raise` followed by `Restart`; `gateway.main`, which serves one order for each
process, is `Restart` after every order.
The ledger is a sequence here, since the process is its only writer.

**OrderLifecycle** is what `OrderPath` promises of every order and hides
everything else: placed, then refused or granted, then run, then fulfilled or
failed, or lost. `doubt` holds the orders whose settlement is not certain yet:
it becomes certain with a later settlement or is lost with a crash.
`OrderPath!StageOf` is the refinement mapping: it reads an order's stage from
the rows of `session` and from the progress of the open order; in doubt are
those whose row is not in `ledger`.

**InspectorReport** is `build_report` as operators over the rows of a ledger:
the rules for each reason code, the findings with the receipts they list, and
the line of each principal. `OrderPath` applies it to its own ledger at every
moment. The walk over the chain with which the report begins is in
`ReceiptChain`; rows from before v0.2 and the count of mock attestations are
left out.

**ReceiptChain** is the table under receipts and policy history. An append is
two steps, the read of the head and the insert, as in `Ledger.append` and
`PolicyStore.append_version`. `Serialized` says that one append runs at a
time: true of the console, whose server is single-threaded for this reason,
and of a ledger with one gateway. `copy` is the file an auditor holds;
`ChangeRow`, `RemoveRow` and `AddRow` alter it with all hashes that can be
computed and all signatures that exist; a row may also become `Unreadable`, no
JSON, or `Bare`, JSON but no object. `RowVerdict` is the verifier's check
of one row, `InspectorRowVerdict` the inspector's, `ConsoleActivity` what the
activity screen makes of a file.

**PolicyConsole** has one step for each request, as the server handles one at
a time, and two more for each file that a request rewrites: `active.json`
after a version was appended, a capability file when it is created or switched
(`saving`). The first empties the file, the second writes it; either may fail,
and the server may be restarted in between, which leaves the file `Torn`.
`versions` is the history as the server's connection has it, and `saved` how
many of its versions are committed: an append whose commit raises leaves its
version to every later request (`CommitRaises`), to the next commit, or to a
restart that drops it. A
torn capability file makes `load_catalog` raise, so that nothing is published
until it is deleted. Every request may come at any time and more than once, so
a repeated or delayed signed request is covered. Roles may change whenever the
server restarts, as the registry is read at its start. `versions[i].sensitive`,
the grants that the operators had declared to need a second admin when version
`i` was appended, and `wanted`, what they last made of each capability, are not
stored by the code; they are there for the properties.

**PersonalSettings** has any number of gateways, apps and editors over one
settings file. A save opens the file, which empties it, and writes the text; a
write over a text that another program put there in the meantime may leave the
tail of a longer text, which no program can parse. `wish` is the last saved
choice for each capability, `ever` all choices, `shared` whether two programs
were ever up together.

**ChefSandbox** is several gateways on one machine, each with a backend, each
starting one run after another. `plain` stands for every backend that starts
the chef, waits and passes on its exit status: the subprocess, the container,
Apple's VM, seccomp with Landlock, Seatbelt. `appcontainer` grants the one
package SID access to workspace, fixtures and window, launches, waits 60
seconds, and revokes in a `finally`; the fixtures belong to all gateways, so
one run's revoke takes another's grant. `microvm` runs the chef on a disk of
its own and copies the output from there. The chef is a process beside them:
it reads, opens its output, flushes some of it, closes it, or fails at any of
these points. `granted` and `revoked` are how far the two loops over the
directories have come; `acl` is what the file system says. `leaked` and
`overlapped` are there for the properties. The kernel's page cache is external:
a VM that is stopped without a sync has any earlier state of the file on its
disk. `OrderPath` sees a run as an exit status and what is left in the window
(`SandboxExits`); `ReportIsOutput` says which of these pairs each backend can
produce.

**AppHome** is a home and everything that sets it up: `sentinel-init` with and
without `--force` and `--sandbox`, `sentinel-keygen`, the installer, which
makes the runtime and then calls `init`, and the app, which looks at the home
once (`CheckReadiness`) and then calls `init` or the sandbox set-up or both.
Each is a `Run` that stands at a location; runs are interleaved freely, since
nothing keeps two of them apart, and each may die at any location. A key file
is absent, `Torn` between its two steps, or holds a key; `held` is the pair a
run has generated. A gateway reads the private key and the marker once, and
signs with what it read (`signer`, `contained`); `signedBy` is whose signatures
the home's ledger carries. `ChefRuns` is what its chefs need: the public key
file of the home, which `chef_main.py` checks the ticket with, and the grants.
`mishaps` remembers what a property has to except.

**HostConfig** is the configuration file of an MCP host, the host itself
(external: its user adds and removes servers) and any number of app windows.
A toggle is the two reads of the code, one that decides between connect and
disconnect and one whose copy is changed and written back, and the two steps
of the rewrite. `ReadConfig` is what `read_config` may return: what is in the
file, or nothing, for a file that cannot be opened just now, or cannot be
parsed, from the start or since. `wanted` and `linked` are what the user made
of the file, `ever` all that was in it by the user's doing, `blind` whether the
app went on from a read that did not tell the file.

Left out everywhere: wording, formats, logging, the content of drafts beyond
what determines it, and the bytes of hashes and signatures.

## 3. The runs

| run | question | bounds |
|---|---|---|
| `gateway` | Do replay detection, rate limit, policy and receipts hold when callers choose ids and nonces? | 3 calls, each an order of 6 kinds that repeat ids and nonces or (once) a malformed intake, 2 lives, clock 0..2 with a window of 2, limit 1, commits that raise |
| `confirm` | Does the personal gate hold, does the ledger say what happened, does each order end, and is the path an `OrderLifecycle`? | 2 orders, every setting of 2 capabilities, a backend that may exit 0 without output, commits that raise, 2 removals that fail, 2 lives, fairness |
| `chain` | Does the live chain verify, and what does an accepted or rejected copy tell the auditor? | 2 writers, 3 rows, 2 contents, a copy altered in one place by any plausible row, one that is no JSON or no object included |
| `console` | Do duties stay separated, and do `active.json` and the menu follow what was asked for? | 2 admins with any roles, 3 versions, 4 policy lists, 1 sensitive and 1 plain built-in capability, 1 custom one, commits that raise, failed and cut-off writes of both kinds of file |
| `settings` | Do choices stick, blocks bind, and is nothing invented? | a gateway, an app, an editor, 2 capabilities, any initial file, 2 choices |
| `sandbox` | Does the report match the output, do grants last as long as their run and no longer, and does a run end whose chef hangs? | 2 gateways with any two of the 3 kinds of backend, any number of runs, failures and crashes |
| `home` | Do receipts keep verifying, does the marker tell the truth, does a gateway serve and is a home usable, whatever was interrupted? | 3 set-up runs of any kind, 2 at a time, 3 key pairs, any number of gateways one after another, of orders and of uninstallations |
| `host` | Is nothing clobbered in the host's file? | 2 windows, a host with 2 edits, 2 other servers, any number of toggles and of failed reads, a file that may be absent or no JSON at the start |

Why these bounds are enough for the interesting cases. Three orders are an
order, its repetition and one between or after them, on either side of the
restart; with a limit of 1, a window of 2 and a clock to 2 an accept falls
inside, on and outside the edge of the window of an earlier one. The
properties of `confirm` concern one order and what an earlier one left behind
(a setting, a window file, a workspace), hence two. Three rows have a first,
an inner and a last one; two contents tell a changed row from the original.
Three versions are a proposal, its approval and a rollback or a second
approval. Any initial settings file stands for a longer past of choices, so
two more make each order of choose, save and overwrite. Three set-up runs are
one that is interrupted, one that overlaps it and one that comes after both to
repair or to open; each needs at most one of the three key pairs. Two windows
and a host give every pair of writers, and two edits a host file that changes
before and after a toggle. A row that a failed commit left behind is taken
along by the receipt of the next order or of an intake, or lost with the one
restart, so two orders and an intake are enough for it. `gateway` has no
removals that fail (`MaxUndeleted` is 0): nothing it checks is about
workspaces, and `confirm` has one for each of its orders. The bounds on orders,
restarts, malformed intakes, removals that fail, ticks, rows, alterations,
versions, choices, set-up runs and edits are guards named `Max...`; the theorems of section 5
hold for all their values.

`CHECK_DEADLOCK FALSE` is set where the system may stop: a gateway without
further callers or past its bounds, a table without appends, a settings
file that was emptied by a crash, after which no program starts, and a home
after the last of its set-up runs. `console`, `sandbox` and `host` are checked
for deadlock. `home` permutes set-up runs and keys: they are alike, and no
liveness is checked there. `sandbox` needs no bound but its two
gateways: two runs that overlap show what one does to the other, and a run
that follows another shows what it finds.

What the passing runs show:

- *ReplayExactly*: in one life an order is refused as a replay exactly when
  its nonce was seen before, also on an order that was refused or lost.
- *RateWindow*, *SlotPerTicket*: the count is read before the ticket is minted
  and the accept recorded after it; still no window that ends in an accept
  holds more accepts than the policy grants, and each place in it belongs to a
  ticket, also when user or chef turn the order down afterwards.
- *ReceiptedInTurn*, *ReceiptMatchesRun*: every call that returned has its
  receipt, none has two, they stand in the order of the calls, and each agrees
  with what was minted, allowed and run. A call that raised or died may have
  one as well: its row was taken along by a later commit, or the process died
  between commit and return.
- *ExecutionGoverned*, *BlockedNeverRuns*: no chef without every gate.
- *ReportTellsOrders*: the inspector's findings and counts are what became of
  the orders that have a receipt, for every reason and every principal; all
  whose call returned are among them. What was lost with an exception or a
  crash is in no finding.
- *DraftStands*, *WorkspaceGone*: with ids of its own the window holds the
  very draft each fulfilled receipt names, and only a death, or a removal that
  failed, leaves a workspace.
- *OrderEnds*, *ImplementsLifecycle*: liveness and refinement.
- *LiveChainVerifies*, *VerifiedIsPrefix*, *NamesFirstBroken*,
  *InspectorAgrees*: the chain and its readers. A missing tail of the newest
  rows is not detected, and the property says so. Inspector and verifier stop
  at the same row, though the inspector may raise there and not name it.
- *SeparationOfDuties*: through rollbacks, repeated requests, changed roles,
  failed commits and torn capability files. *FileFollowsHistory*: `active.json`
  is the active version, and never what was only proposed or could still drop
  out of the history. *MenuAsWanted*: a capability never
  falls back to an earlier state.
- *SavedChoiceStands*, *BlockHolds*: while programs use the settings in turn.
  *NothingInvented*, *GateStaysShut*: however many run together.
- *ReportIsOutput*: whatever fails, times out or is revoked meanwhile, every
  backend but the VM says success only over a whole draft; the VM says success
  over any output and failure over none.
- *GrantsLast*, *NoGrantLeft*: a chef in a container keeps its access until it
  ends if AppContainer runs do not overlap; the fixtures stay granted after
  the last run only if a gateway died or an icacls failed.
- *RunEnds*: AppContainer and the VM end their run although the chef hangs.
- *LedgerVerifies*: without `--force`, and unless two programs generate keys at
  the same time, no sequence of set-ups, crashes, uninstallations and
  gateways leaves a receipt the home's public key does not verify.
- *MarkerAfterGrants*: no marker without grants, whatever fails, until somebody
  uninstalls. *GatewayServes*: beside a home at rest to which nothing went
  wrong, a gateway's chefs accept its tickets and can start.
- *HomeAtRest*: only a crash in a harmful place or two generations at once part
  the key files; an app that has opened finds what it needs, also after
  set-ups that failed half way. `Harmful` names these places: a run that
  dies alone in the middle of the marker does no harm, as the next opening
  sees an unreadable marker and sets up again.
- *FileAsLeft*: while the writers take turns and the app can read the file, the
  host's servers and the switch are as their users left them, also after
  rewrites that were cut off. Whatever overlaps, fails or dies, the servers in
  the file are ones its user once had there, together, or none at all after a
  read that failed.

## 4. Where code and documents disagree

Four runs check a statement of the documents, or of a comment, that the code
does not keep; `PROJECT.json` quotes them.

- `receipted`: an exception in a backend, an approver or the ledger leaves an
  accepted order without a receipt, although `run_chef` "never raises". (A
  commit that raises may leave it one later, with the next commit.)
- `vm_success`: a VM that is stopped while its chef writes is a success over
  the part of the draft that is on its disk.
- `two_gateways`: two gateways on one ledger fork the chain, and the verifier
  rejects it from then on. The console's server names this race and avoids
  it; the gateways share a ledger without such care.
- `reinstalled`: uninstalling withdraws the grants and keeps the home with its
  marker. After the next installation neither `init`, which finds a key and
  returns, nor the app, which finds a marker, restores them, and every chef is
  started in a container that may not execute the runtime.

Limits of the system that have no run:

- The console writes `active.json` to `console/active_policies`, while
  `build_default` loads the policies shipped with the package once, when the
  process starts: no publish or pause reaches a gateway (`docs/THESIS.md` says
  a pause binds the very next order).
- Menu of a gateway and menu of the console are different directories once the
  home is initialized: a gateway loads `capabilities_custom` of the home, the
  console writes the one in the package.
- The second-admin gate looks at the menu when a policy is published. A policy
  that names a capability which is disabled, or does not exist yet, is
  published at once, and nobody is asked when that capability appears;
  *SeparationOfDuties* is about what was declared at the time of the publish.
- A row of the ledger that is no JSON makes the activity screen show an empty
  ledger with a valid chain (`console/service.py:243`); *InspectorAgrees*
  excepts this case.
- A row that is JSON but no object is `json_parse` for the verifier. The
  inspector, which is to walk the chain "exactly like the standalone verifier"
  (`inspector.py:137`), raises `AttributeError` at `row.items()`, past its
  `except (TypeError, ValueError)`, and so do its callers, the activity screen
  among them: nobody is told that the ledger is sound, and nobody which row is
  not. A list or a text that holds the names of all ten keys makes the verifier
  raise as well; that one row is not in the model.
- `Ledger.append` and `PolicyStore.append_version` do not roll back. After a
  commit that raised, the row is on the connection: an order that was answered
  with an exception is receipted with the next one, and a policy that was
  answered with an error counts for the server and is saved by the next
  append, or is lost by a restart. A receipt may also belong to a call that
  died after its commit. *ReceiptedInTurn* says what is left of one receipt
  for each outcome.
- `run_chef` says that the workspace "is destroyed on EVERY path"
  (`chef/runner.py:69`); its `rmtree` ignores errors, so a file in use leaves
  the directory, and what the backend put there, without a word. *WorkspaceGone*
  excepts the removals that failed.
- A program that saves its whole copy of the settings undoes what another one
  has saved since; *SavedChoiceStands* is about programs in turn.
- A home whose set-up died between the two key files is never repaired: there
  is a private key file, so `init` and the app take it for initialized. Two
  first openings at once may mix two pairs, with the same result. *HomeAtRest*
  excepts both.
- `init` without `--sandbox` says "re-run with --sandbox" (`init_app.py:97`);
  run again it finds a key and returns 1 before it gets there. Only the app,
  or `--force`, which replaces the key, sets the sandbox up afterwards.
- A gateway that runs while `--force` replaces the keys goes on signing with
  the old one; its chefs read the new public key and refuse, and its receipts
  no longer verify. *GatewayServes* and *LedgerVerifies* except `--force`.
- A marker that was torn by a crash reads as none: a gateway started then runs
  its chefs in a plain subprocess, without a word.
- The Connect screen takes a host file that it cannot open or parse for an
  empty one and writes it back with sentinel alone (`app/connect.py:105`; a
  test pins it, `tests/test_app_connect.py:114-124`), although the module is to
  work "without clobbering any other MCP servers" and `connect` "Preserves
  every other mcpServers entry". *FileAsLeft* excepts an app that went on from
  such a read (`blind`), and for the exact contents also overlapping rewrites,
  where a later one undoes an earlier.
- The drill floods with at most `FLOOD_CAP` + 1 orders after a control order
  that counts against the same limit: a limit of `FLOOD_CAP` + 1 passes,
  although `curriculum/drill.py:67` says a limit above the cap fails.
- A block that is saved while a gateway runs does not bind that gateway; this
  is why *BlockHolds* needs the programs to take turns.
- Nonces and accept times are in memory, as `store.py` says: a nonce is good
  again after a restart. *ReplayExactly* and *RateWindow* are about one life.
- The draft of an order is found by its order id alone. With an id that its
  caller reused, a backend that reported success without output would be
  receipted over the earlier order's draft; no backend here does so, since a
  chef that exits 0 has written.
- Two AppContainer gateways on one kitchen: the first to finish revokes the
  other's access to the fixtures, whose chef then fails. *GrantsLast* is
  therefore about runs that do not overlap.
- A grant on the fixtures that a crash left behind stays until a later run
  revokes it: `teardown` removes only the grants on the Python runtime.

## 5. What is proved

All theorems hold for every value of the constants that satisfies the
module's assumption, so for any number of orders, rows, versions, programs.
`OrderPath` assumes that orders are well typed, that capabilities to confirm
are on the menu, and a window of at least one tick; that the clock does not
run backwards is in the model itself. The chain takes sha256 as free of
collisions (`Hash` is injective) and signatures as unforgeable (the set of
signatures in `PlausibleRows`).

- **OrderPathProofs.** `TypeCorrect`. `ReplayExact` needs to know that `spent`
  is the set of nonces of the orders placed in this life. `Governed` carries
  the verdict of the order along its path: minted orders were accepted, an
  order at `spawn` or after it has been minted and, in consumer mode, allowed;
  an accepted order is admissible by the definition of `Evaluate`.
  `RateLimited` is the least obvious one: the count is read at `Receive`, the
  accept recorded at `MintTicket`, and the clock may have moved. The invariant
  says that between the two steps nothing enters the history of the key, that
  the recorded times are sorted and not after the clock, and that the count at
  the present clock is still below the limit, since time only takes accepts
  out of the window.
- **OrderReceiptProofs**, about what an order leaves behind. Two invariants say
  where an order stands: only the current one is open and it belongs to this
  life of the process (`OpenInv`), and `pc` tells whether it has its ticket and
  was run (`ProgressInv`). With them `StepShapes` sorts the steps into five:
  an order is placed, a true receipt of it is appended, its call ends, an
  intake is refused, or the order moves on; what follows is argued on these
  shapes instead of on every action.
  - `ReceiptsInTurn`, `ReceiptsTellTheRun` (`RowsInv`): the invariant is about
    the rows of `session`, of which `ledger` is a prefix, since what a commit
    takes along was inserted before. Every row is of an intake or a true
    account (`Account`) of its order; the rows stand in the order of their
    orders, as a row is inserted for the current order only and at most once,
    whether its commit raises or not; and whoever is at `receipted` or has
    returned finds its row among the committed. "True" stays true: what
    happened to a closed order never changes (`ClosedStays`).
  - `ReportIsTrue`: the rules of the report map each reason to one code and
    no two refusals of the policy to the same one (`CodesOfReasons`), so what a
    finding lists is decided by the reasons of the receipts, and the committed
    receipts are in bijection with the orders that have one (`AsManyReceipts`),
    which gives the counts. Its hypothesis is that no principal is named
    `gateway:unadmitted`. `gateway.py:55` calls that name "deliberately not a
    real principal"; the code takes any string for a principal, so this is
    up to whoever names them. Only the line of that one principal depends on
    it: it would count intakes with orders.
  - `SlotsAreTickets`: an accept is recorded in the step that mints the ticket,
    and a restart clears both: the history, and the tickets of this life.
  - `BlockHolds` (`BlockInv`): no capability of an order that was allowed is
    blocked, in memory or in the file, and an order that asks is for one that
    is not blocked; neither answer nor failed save can then block or unblock.
  - `FulfilledDraftStands` (`WindowInv`): ids are not shared, the output of an
    id that no order bears is absent, and at `exited0` the window is empty or
    holds the draft of the current order. Its hypotheses are those of the
    property: the gateway makes its ids (`mcp_gateway.py`), and a backend whose
    exit status is 0 leaves no torn output (`HonestExits`), which
    `ChefSandboxProofs!ReportsHonestly` proves for all backends but the VM.
  - `WorkspacesRemoved`: every way out of `running` and of the locations after
    it goes through `RemoveWorkspace`, except the death of the process; what
    stays is that, or in `undeleted`.
  - `RefinesLifecycle`: the initial state maps to `Start`, and each of the five
    shapes to one action of `OrderLifecycle` or a stutter (`StepRefines`).
    A step changes the stage of the current order and of no other
    (`OthersStay`), unless sqlite or the end of the process drops the rows that
    were not committed: then the orders in doubt are lost, and only they
    (`OthersRolledBack`).
- **ReceiptChainProofs.** `SerializedChainVerifies` (assuming `Serialized`):
  at most one append is in progress and the head it has read is the hash of
  the last row. `TamperEvident`: each signature in a copy was made for the
  hash of an appended row, that hash holds the contents of all rows up to it,
  and a verified copy is therefore equal to the ledger row by row.
  `FirstBrokenNamed`: rows before the one named pass all the checks and are
  thus rows of the ledger; the named one differs from the row at its place.
  The other two theorems do without `Serialized`. `InspectorIsVerifier`: the
  inspector skips the test for the core keys, but a row that lacks one has no
  signature that fits it, since all signed contents have them (`SignedInv`);
  with rows that are JSON the two therefore fail the same rows (`SameRowsFail`),
  the ones that are no object included, at which the inspector raises.
  `AcceptedWasAppended` says what tamper evidence is left when several gateways
  append side by side and the chain forks: an accepted copy is one branch, its
  rows were all appended and none before the row it follows. `LineageInv`: each
  row, and each append in progress, names the hash of an earlier row, and a
  hash has one row (`HashHasOneRow`).
- **PolicyConsoleProofs.** `DutiesSeparated`: an active version is appended by
  a publish or a rollback, which are active only if nothing in them is
  sensitive at that moment, or by an approval, which copies a pending version
  and has another admin; a restart drops the newest versions only, so the
  proposal behind an approval stays as long as the approval does.
  `FileIsActive` (`FileInv`): while a write is in progress every version is
  committed and the last active one is the one it is about; unless a write was
  missed, every active version is committed, so a restart drops none of them. `MenuStands`: a capability file
  is only emptied by the request that is about to write it.
- **PersonalSettingsProofs.** `ChoicesAreTheUsers` and from it `GateShut` hold
  for any programs side by side. `SettingsStand` and `BlocksHold` share an
  invariant for as long as the programs have taken turns: only one runs, the
  file is the saved wishes or unreadable, and the running copy differs from
  them only where a choice is not saved yet. That a gateway never has such a
  choice for a blocked capability is the part *BlockHolds* needs.
- **ChefSandboxProofs.** `GrantsAreTakenBack`, `GrantsHold` and
  `ReportsHonestly` rest on how far a run has come (`GrantingInv`): nothing is
  revoked before its end, all three directories are granted when the chef is
  launched, and a chef is up only while its run waits for it. `GrantsHold`
  adds that without overlap there is one AppContainer run, and that nobody but
  it takes a directory of its list away; `ReportsHonestly` that a chef which
  exited 0 has written the draft, and that no chef writes once its run has
  reported.

- **AppHomeProofs.** `ReceiptsVerify` (`SignedInv`): a run that is about to
  write a private key found none, or an unfinished one, so nothing was signed
  yet; the key that has signed is the one in the file, and a public key file
  with a key holds that very one. `KeyInv` gives that only one run is between
  its key writes, unless two generations overlapped. `MarkerTrue` (`MarkInv`):
  whoever is at the marker has come from the grants. `RestIsWhole` combines
  five invariants: the files are a pair except between the writes of a run
  (`PairInv`), who is past the key has seen one (`FileInv`), who relies on the
  marker has a marker or a run that is about to write it (`RelyInv`; this is
  where a death at the marker beside another run has to be excepted), and
  `OpenInv`, `MarkInv`. `GatewayServesAtRest` follows from the same parts.
- **HostConfigProofs.** `NothingClobbered` has two halves. `FileInv`: as long as
  nothing overlapped and every read told the file, at most one writer is
  between its two steps, and all others are idle; at any other time the file is
  as it was left, and every copy is the file with one change. `EverInv`: in any
  case the servers of the file, and of every copy an app is about to write,
  are ones the user once had (or none, after a failed read), since an app
  copies the servers it read and the host those its user asks for.

Every strengthening has the form `Inv /\ [Next]_vars => Inv'`, with one step
for each action.

## 6. What is only model-checked

Liveness: `OrderEnds`, `RunEnds` and the fairness in `ImplementsLifecycle`, whose
safety part is `RefinesLifecycle`. ENABLED and fairness are beyond the prover.
Every invariant of a passing run is a theorem.

## 7. Fairness

`FairSpec` has weak fairness of `Proceed`, the steps with which a process
carries on with its order: the interpreter keeps running, the user answers the
question that `place` waits for, and the sandbox returns. AppContainer (60
seconds) and the VM (180 seconds) ensure that with a timeout, which *RunEnds*
checks; `ChefSandbox!FairSpec` is fair to each gateway and assumes nothing of
the chef. The other backends wait for the chef for as long as it takes, so
there `OrderEnds` rests on `chef_main.py` itself: one reading of its input and
of one file, a transform and one write, without a loop that waits; a container
runtime that never answers would stop the gateway. Nothing is fair about
`Receive` (no one must place an order), `RejectMalformed`, `Tick`, `Raise` or
`Restart`.

## 8. What is not modelled, and why

- What confines a chef: seccomp and Landlock rules, the Seatbelt profile,
  container flags, job limits. They are arguments to an operating system whose
  semantics is not in this repository. Of `setup` and `teardown` of the grants
  on the Python runtime `AppHome` has the effect.
- In `ReceiptChain` a commit that raised is an insert that comes late, or none:
  for the chain of one process the pending row is the head, as a committed one
  is, and for other processes the file is locked meanwhile. `OrderPath` and
  `PolicyConsole` have the pending rows.
- The MCP handshake, the tool list and command lines: no state that an order
  depends on.
- The form that renders a policy, the builder's form and its templates, the web
  page, the GUI shell, the detection of hosts, shortcuts and registry entries
  of the installer, the attestor's mock quote: presentation or I/O without a
  protocol.
- The drill is one fixed sequence of orders over a ledger, a store and a
  backend of its own, each decided by `OrderPolicy`: nothing runs beside it.
  What it expects of a policy is the limit named in section 4.
- The window of time in which a signature is good (`signed_auth.verify`) is a
  comparison of two clocks. What follows from it, that a request may be
  delayed and repeated, is in `PolicyConsole` without the bound on the delay.
- The keys directory of a checkout, which a gateway uses without a home.

## 9. Plan

Done in this order: `OrderPolicy`, `OrderPath` with `OrderLifecycle`,
`ReceiptChain`, `PolicyConsole`, `PersonalSettings`, `ChefSandbox`,
`InspectorReport`, `AppHome`, `HostConfig`, the capability files of
`PolicyConsole`, and their proofs. Still worth modelling: the window of signed
requests against a registry that changes; `OrderPath` over `ChefSandbox`, with
`SandboxExits` as the pairs a backend produces in place of a constant; the
drill over `OrderPath`.

Proofs to add: abstract specifications of the console (two people behind a
sensitive grant) and of the home (a pair that never changes once it has
signed), each implemented by its module, as `OrderLifecycle` is by `OrderPath`.
