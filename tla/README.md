# A verification development for zhi

zhi manages the configuration of a deployment: plugins describe the values, a
store keeps them, a user edits them in a terminal, a browser or through an MCP
client, and zhi renders files from them and runs the command that brings the
deployment into line. Plugins and workspaces are shared through registries, a
marketplace and a mirror. This directory holds TLA+ modules translated from zhi's Go
source, the TLC configurations that check them on small instances, and proofs
that TLAPS checks for instances of every size.

Sections: [the files](#the-files), [inventory](#inventory), [plan](#plan), [the
modules](#the-modules), [runs](#runs), [proofs](#proofs), [what disagrees with the
documentation](#what-disagrees-with-the-documentation), [what is not
modelled](#what-is-not-modelled).

## The files

| file | what it is |
|---|---|
| `X.tla` | a component: constants and their assumptions, state, one action per operation, specification, properties |
| `XProofs.tla` | the theorems about X and their proofs (`PoliciesProofs`: about `VaultPolicies`; `PluginProofs`: about `PluginLifecycle`, `Tui`, `Mirror` and `Marketplace`; `ComponentsProofs` also about `Launching`, `Wire` and `ConfigPlugins`; `ExportRollbackProofs` also about `Drift`, `Diffs` and `Numbers`; `EditingProofs` also about `Publishing`, `RegistryLogins`, `Servers` and `WebSession`) |
| `MCX.tla` | the values TLC gives the constants, and the composition where a run looks at several modules |
| `X_run.cfg` | one question asked of X |
| `ComponentLedger.tla`, `ComponentsRefinement.tla` | what Components promises, and how it keeps it |
| `PROJECT.json` | components, runs, hazards, theorems, and the source lines each definition stands for |

Some runs look at several systems that have nothing to do with each other in one
state space: a behaviour is one of them, chosen at the start, while the others stand
still. Their properties are conjunctions of the properties of the modules, which
are stated, with comments, where the component is.

| module | the systems of its behaviours |
|---|---|
| `MCLaunching` | Components, Launching, Wire, ConfigPlugins |
| `MCPublishing` | Editing, Publishing (over Trust), RegistryLogins |
| `MCWeb` | Editing, Servers, WebSession |
| `MCOutputs` | ExportRollback, Drift, and the inputs of Diffs and Numbers |
| `MCTui` | PluginLifecycle, Tui |
| `MCSharing` | Mirror, Marketplace |

In a module, a comment "Mutant of F" marks a faulty version of F. No
specification uses it; it is there to show that a property notices that fault.

## Inventory

Each part with its state, its operations, what makes it hard and when it is correct.

**Component manager** (`internal/core/component.go`, `internal/cli/component.go`,
`internal/cli/helpers.go`; module `Components`). *State*: the definitions of `zhi.yaml` (names,
mandatory, dependencies), a set of enabled components per process, and
`.zhi/components.json`. *Operations*: defaults, load, enable with dependencies,
disable, disable with dependents, validate, save. *Hard*: every command is a
process that reads the file at its start and rewrites it at its end; nothing locks
it, the rewrite truncates first, and the definitions can change between two
commands. *Correct when*: mandatory components are always on, no enabled component
misses a dependency, and no command breaks what worked.

**Editing** (`internal/core/engine.go`, `internal/ui/driver.go`,
`internal/cli/set.go`, the frontends; `Editing`). *State*: the store, the config plugin's
own values, the controller's cached tree and its dirty paths. *Operations*: load,
set, validate, save, and the requests that frontends build from them. *Hard*:
several clients share a session, requests are several locked calls, values pass
through transforms both ways, saves fail half way, other processes write the same
store. *Correct when*: an edit that was accepted is kept until it is stored, a
rejected one is stored only where its check was not answered or was overtaken, and nobody changes what nobody asked to change.

**Config plugins** (`pkg/zhiplugin/config`, `pkg/providers/config/structuredfile`;
`ConfigPlugins`). *State*: what each plugin has read from its files and what it was
told, the tree with its lock. *Operations*: load a directory, list, get and set under
a prefix, validate. *Hard*: prefixes that lie in each other, callers that set while
others load, validators that look into the tree they are part of. *Correct when*:
mounted plugins act as one, the last file wins, and nobody waits for ever.

**Apply** (`internal/core/apply.go`, `internal/ui/driver.go`, `internal/ui/adapter.go`,
`internal/cli/apply.go`, `internal/ui/tui/apply_view.go`; `Apply`). *State*: processes and
their pipes, two scanners, a bounded channel, the goroutine that waits, the watcher
that kills, the reader. *Hard*: everything is concurrent and bounded, children
outlive their parents, cancellation comes at any time. *Correct when*: no line is
lost, nothing is sent on a closed channel, pre-checks do not overlap, and what can
end ends.

**Export, rollback and drift** (`internal/core/export.go`, `rollback.go`, `drift.go`,
`diff.go` and their callers; `ExportRollback`, `Drift`, `Diffs`). *State*: the output
files, `.zhi-rollback` with its backups and manifest, what a watch reported last.
*Operations*: export everything with a snapshot, export one template without, roll
back, check once, watch. *Hard*: a snapshot is many files, any step fails or is the
last of its process; a check reads the files one by one while others write them.
*Correct when*: a rollback that reports success has restored what was there before
the last export, "in sync" means in sync, and a diff leads from one text to the other.

**Numeric conversion** (`internal/core/numeric.go`; `Numbers`). Widths, signs and
mantissas; correct when a conversion that succeeds loses nothing.

**Stores** (`pkg/providers/store/vault`, `jsonfile`, `pkg/zhiplugin/store/compose.go`;
`Stores`). *State*: one secret with its versions per path in Vault, one file for a
JSON store, a primary with mirrors. *Operations*: read, write with check-and-set,
delete, roll back, destroy a version. *Hard*: Vault is written path by path, a file by
read, change and rename, mirrors after the primary and in no order between writers;
requests fail with or without their effect. *Correct when*: a version means a value, a
mirror follows its primary, and a write replaces nothing its writer has not seen.

**Sessions** (`internal/core/session.go`, the login and the token of
`pkg/providers/store/vault/vault.go`, `internal/ui/driver.go`,
`webui/auth_handlers.go`; `Sessions`). *State*: the session manager's status and expiry; the
token of the store's client, the goroutine that renews it and the channel that stops
it. *Operations*: login with credentials, with a token, through a browser; status,
logout, auth errors; renewal. *Hard*: session and token change one after the other
under different locks, errors come late, renewal goes on in the background, time
passes. *Correct when*: an open session belongs to the token in use, one goroutine
renews and in time, and the session ends when the token does.

**Vault manager** (`pkg/providers/store/vaultmanager`, the access calls of the Vault
store; `VaultPolicies`). *State*: policies and roles in one Vault, known by their names
only; the child's token. *Operations*: login, reconciliation and credentials on a read,
grant and revoke. *Hard*: several workspaces share the names, every call is several
requests. *Correct when*: each application has the policy its labels ask for, nobody
takes away another's policy, roles lose nothing by whoever has read them well, and what was
granted is what the policy says.

**Terminal UI** (`internal/ui/tui`; `Tui`). *State*: the active view, what each view
shows and waits for, the calls under way. *Hard*: an answer goes to the view that is
active when it arrives. *Correct when*: a screen that waits is waiting for something
and no key takes anybody off what is running.

**Web UI, HTTP API, MCP bridge** (`pkg/providers/ui`, `pkg/mcpbridge`; `Servers`,
`WebSession`). *State*: requests and the calls they have still to make, the bridge's
mutex, the cookie and the token in every page. *Correct when*: the bridge lets one call
in at a time, requests and servers end, a page that is reloaded works.

**Registry and launch** (`internal/core/registry.go`, `discovery.go`,
`pkg/zhiplugin/launch`, `internal/cli/root.go`; `Launching`). *State*: the files found,
the plugins that run, what is cached and what is to be cleaned up. *Correct when*:
everybody uses the plugin that was meant and whatever was launched can be closed.

**Plugin interfaces over gRPC** (`pkg/zhiplugin/*/grpc_*.go`; `Wire`). *Correct when*: a
caller is told what the implementation answered, and every call ends.

**Plugin lifecycle** (`pkg/sharing/client`, `metadata`, `update`, `internal/cli/plugin*.go`;
`PluginLifecycle`). *State*: binary, backups, metadata, audit digest. *Hard*: file by file,
any step fails. *Correct when*: no command loses a plugin, and the metadata describe the
binary that is there.

**Publishing, workspaces, lock files, logins** (`pkg/sharing/client/push.go`, `lockfile`,
`registry`, `verify`; `Publishing`, `Trust`, `RegistryLogins`). *Correct when*: what was
published is there, what is installed is what the reference stands for and allowed.

**OCI mirror** (`cmd/zhi-mirror`; `Mirror`). *State*: blobs, tags with a time, the policy,
bundles. *Hard*: handlers and sync race, upstream changes or is gone. *Correct when*: a
tag names a manifest that is there and was current when it was stored, and what a
client gets has the digest it was asked for by, as far as the upstream keeps to digests.

**Marketplace** (`cmd/zhi-marketplace`; `Marketplace`). *State*: publishers, artifacts,
versions, ratings in memory and in a file. *Hard*: a flush fails after the change.
*Correct when*: counters equal what they count and what was answered stays.

### How the parts interact

- A run of the binary builds one engine: `zhi.yaml` gives it plugins and a
  component manager; `.zhi/components.json` its switches (`Launching`, then
  `Components`).
- A frontend calls the controller, the controller locks itself and calls the
  engine, the engine calls the config, transform and store plugins, each of which
  may be a process behind gRPC (`Servers` and `Tui` make the calls, `Editing` says what
  they do, `Wire` carries them, `ConfigPlugins` and `Stores` are at their end). Two
  engines meet only in the store and in files.
- Export reads the engine's tree and the component manager's filter; apply runs an
  export first when it is asked to, then starts processes.
- The session manager calls the store's login; the Vault store renews its token
  without telling it; an auth error of any store call comes back to it. The vault
  manager wraps a Vault store and gives it its token.
- Publishing, mirror, marketplace and plugin lifecycle share the OCI client and the
  artifact policies, and nothing of the rest.

## Plan

Done, in this order: `Components` with its ledger, `Editing`, `Apply`,
`ExportRollback`, `Sessions`, each with its proofs; `PluginLifecycle` and `Stores` with
theirs; `Mirror`, `Marketplace`; `Tui`, `Servers`, `WebSession`; `VaultPolicies`;
`Launching`, `Wire`; `Drift`, `Diffs`, `Numbers`; `Publishing`, `Trust`,
`RegistryLogins`; `ConfigPlugins`; the refinement of the ledger, what mirrors and
writes of stores promise, what is rejected and what a writer leaves alone in Editing,
policies in Vault, the verdict of a drift check, the screens of the terminal UI, the
plugins a command launches, what the mirror and the marketplace keep, what is published
and installed, what reaches the controller from a browser, what plugins answer,
and the diffs and conversions as theorems.

Left: nothing that the provers reach. What stays with TLC, and why, ends the section on
the proofs.

## The modules

### Components

Source: `internal/core/component.go` and the commands around it.

| module | code |
|---|---|
| `yaml`, `Workspaces`, `WellFormed` | the versions of `zhi.yaml`; what `NewComponentManager` accepts |
| `Default`, `Loaded`, `LoadState` | `NewComponentManager`, the overlay in `withEngine`, `LoadState` |
| `Pulled`, `Enabled` | `enableTransitive`, `enableWithReport` |
| `MayDisable`, `MayCascade`, `Fallen` | `Disable`, `DisableCascade`, `disableCascadeRecursive` |
| `Broken` | `ValidateDependencies` |
| `Start`, `ReadFile` | the two halves of `withEngine` |
| `CommandEnable`, `CommandDisable`, `CommandDisableForce` | `zhi component enable`, `disable`, `disable --force` |
| `Truncate`, `Write` | `saveComponentState`: `os.WriteFile` opens with `O_TRUNC`, then writes |
| `SessionEnable`, `SessionDisable`, `SessionSaveTree` | the controller's `EnableComponent`, `DisableComponent`, `SaveTree` |
| `Stop` | an error return, the end of a session, a crash |
| `EditYaml` | someone edits `zhi.yaml` |

The recursive walks of the code are stated as least closed sets, `d \in w.names`
such that every set that holds the start and is closed under the walk's step holds
`d`. That is what the walks compute, it needs no recursion, and TLAPS can reason
about it. The walks stop at components that are already in the state asked for
(`enableTransitive` at one that is on, `disableCascadeRecursive` at one that is
off), and the closures keep that: it is what `EnableCompletes` is about.

A save that overlaps another one may leave a mix of both texts in the file:
`WrittenOver` says when that is JSON and when not. A file that does not parse is
treated as one that is not there, as `withEngine` does.

**The abstract specification.** `ComponentLedger` has one variable, the set of
components that are on, and whole commands as steps. `ComponentsRefinement` maps
Components to it: the ledger's set is what the next process would load, and a
command takes effect in the instant its save truncates the file (`Recorded`). A
command that dies in its save is the ledger's `Forget`. It holds of an unchanged
`zhi.yaml` and of commands that do not overlap (`SerialSpec`), whatever editing
sessions and reading commands do beside them; when two commands overlap, a save loses
what the other one wrote, which no lock in the code prevents.

### Editing

Source: `internal/core/engine.go`, `internal/ui/driver.go`, `internal/cli/set.go`
and the frontends' handlers.

| module | code |
|---|---|
| `store` | what `PutValues` stored last; a read that is redacted gives no value (`Readable`) |
| `config` | what the session's config plugin was told by `SetValue` |
| `tree`, `dirty` | the controller's `tree` and `dirtyPaths` |
| `Overlaid`, `Displayed`, `Loaded` | `Engine.LoadTree`, the `BeforeDisplay` transforms, `loadTreeLocked` |
| `Load`, `Save`, `SaveFails` | `LoadTree` and `SaveTree` of the controller |
| `Open`, `Direct` | how a request starts: the web form and inline validation load first; the TUI sets a value of the tree it shows; `PUT /api/tree/values` and `set_value` set a path |
| `Tell`, `Set` | `SetValue`: the plugin is told before the lock, the tree and the dirty set change under it |
| `Judge`, `Rejected` | the form validates, takes an error of `Validate` for approval, and sets back what was rejected |
| `TellFails`, `TransformFails`, `Faults` | a `SetValue` of the form or of its way back that fails, with or without its effect; a transform that fails half way through a save; which of these may happen |
| `Exit` | the session ends and another one starts |
| `CommandRead`, `CommandWrite`, `CommandFails` | `zhi set` |

Three history variables serve properties only: `pending`, the value of the last
`SetValue` of a path since the last save; `stale`, the writers whose read is
older than the store's last write; and `slipped`, the paths of values that no answered
check kept out: nobody asked for one, or `Validate` failed, or setting back did, or
another request saved or took up the value on trial.

Transforms are arbitrary functions on values, one per path and direction. A value
is a value and whether it still has the label of a write-only path, because that is
what a save writes back and what decides whether the next read is redacted.

Reading and writing the store is one step; a write that fails may have written any
of the sets of paths in `PartialWrites`: any subset for Vault, none or all for a JSON
file (see Stores).

### Apply

Source: `internal/core/apply.go` and its readers.

| module | code |
|---|---|
| `given` | which case the run looks at: what its processes are like, the frontend, how many pre-checks and lines |
| `stage`, `pc`, `result` | the goroutine of the controller's `Apply`: `RunPreChecks`, then `Apply`, then the close and the result |
| `Label`, `Start`, `StartFails`, `Collect`, `Close`, `Publish` | its steps; `Collect` is `<-done` twice and `cmd.Wait` |
| `scanner`, `Scan`, `Send`, `AfterComplaint`, `Drain`, `Eof` | `streamPipe`, once per stream |
| `channel`, `closed` | the output channel |
| `proc`, `pipe`, `junk`, `Write`, `Written`, `Spawn`, `Exit` | processes and pipes (external: the kernel as `os/exec` uses it); `junk` is what a line longer than the scanner's buffer leaves |
| `ctx`, `watch`, `Cancel`, `Terminate`, `Kill` | the context, `cmd.Cancel` (SIGTERM to the group), `cmd.WaitDelay` (SIGKILL to the shell) |
| `Range`, `RangeEnds`, `Last` | the loops of the CLI and of the adapter of web, HTTP and MCP |
| `SelectLine`, `SelectClose`, `SelectTimer`, `SelectResult`, `Deliver` | the TUI's `readOutput` and `UpdateApply` |

Lines are counted by stream and not told apart: the scanner and the channel keep
the order of one stream, so what can go wrong is a number. `due` is a history
variable, the lines that were written before anything too long for the scanner.

The timeout is one of the reasons of `Cancel`. In the code it covers the command
and not the pre-checks; a `Cancel` at any time covers both. The CLI gives the
pre-checks a channel of their own; modelled is the one channel of the controller,
of which the CLI's is a part.

**Fairness.** Goroutines run when they can
(`Runner`, `Watcher`, `Frontend`, each `Scanner`: the Go scheduler); the kernel
completes a write when the pipe has room and lets a process exit that does not run
for ever. Weak fairness is enough, since a step once possible stays so until it is
taken. Nobody has to cancel, write, spawn or start anything, and the select of the
TUI is weakly fair as a whole: which branch it takes stays open.

### ExportRollback

Source: `internal/core/rollback.go`, `internal/core/export.go` and their callers.

| module | code |
|---|---|
| `disk` | the output files; an export replaces one by a rename, a rollback truncates and writes it |
| `backup`, `manifest` | what is in `.zhi-rollback` |
| `Begin` | `ExportAll` (`"all"`) or `Export` (`"bare"`) and the paths it is going to write |
| `RemoveOne`, `Removed`, `Cleared` | `os.RemoveAll`, entry by entry, and `MkdirAll` |
| `ListNew`, `CopyOpen`, `CopyWrite`, `ManifestOpen`, `ManifestWrite` | `SaveRollbackSnapshot` and `copyFile` |
| `SnapshotFails` | any error of it: the export goes on |
| `WriteOutput`, `Finish` | `writeExportFile`, for each template |
| `RollbackBegin`, `RemoveNew`, `RestoreOpen`, `RestoreWrite`, `Restored`, `RollbackEnds` | `Rollback` |
| `Stop` | an error of a template or a file, or a crash, at any step |
| `Edit` | whoever else writes or removes the files, between commands |

History variables: `origin`, the files when the manifest was written; `before` and
`wrote`, the files before the last export and those it wrote. An export counts as the
last one from its manifest on or, without a snapshot, from the first file it writes.

One command runs at a time. Nothing in zhi sees to that: two exports at once remove
each other's backups. What then happens depends on which directory entry an open
file belongs to, which the module does not have.

### Sessions

Source: `internal/core/session.go`, `pkg/providers/store/vault/vault.go`,
`pkg/providers/ui/webui/auth_handlers.go`, `internal/ui/driver.go`.

| module | code |
|---|---|
| `session` | the session of `SessionManager`; `of`, the token of the login it comes from, is history |
| `token` | the token of the store's `vaultClient` |
| `loops`, `stopRenew` | the renewal goroutines and whose stop channel the store holds; `keeps`, the token a goroutine renews, and `ok`, that no renewal failed, are history but for the answer on its way |
| `login` | a login on its way through store and session manager |
| `request` | the load or save that holds the controller's lock |
| `vault`, `now` | Vault's tokens and the clock (external) |
| `Exchange`, `KeepToken` | the login methods that exchange credentials, the OIDC callback; `processAuthResponse` |
| `PasteToken`, `Lookup`, `DropToken` | `loginToken`: the token is set, looked up, and cleared when the lookup fails |
| `StartRenewal`, `Restarted` | `startRenewal` |
| `Renew`, `Renewed`, `LoopStops` | its goroutine: a request, its answer, the stop channel |
| `OpenSession`, `NewSession` | `Login` and `LoginInteractiveCallback` after the store has returned |
| `Status`, `Logout`, `HandleAuthError` | the same of the session manager |
| `Request`, `Answer` | `requireAuth` or no gate, then a store call under the controller's lock; `mapError` |

A select with both branches ready takes either, so a goroutine that was stopped may
renew once more. It renews whatever token the client has by then, which is why the
goroutine that a second login replaces can extend the second login's token.

Vault grants tokens with a lease, extends a lease on request up to `MaxLease`, and
refuses a dead token. A refusal with status 403 is `ErrAccessDenied` in zhi and no auth
error, so it expires no session; 401 is one. Time is in half seconds, `Lag` bounds how
long an answer or a timer that is due waits for zhi to act on it. The code
rounds an expiry down to a whole second (RFC 3339), which is left out.

### ConfigPlugins

Source: `pkg/zhiplugin/config/config.go` and `compose.go`,
`pkg/providers/config/structuredfile`, `internal/core/engine.go`.

| module | code |
|---|---|
| `Entries`, `Leaves`, `LoadDir`, `Loads`, `Loaded` | `parseFile`, `flatten`, `loadDir` (later files override), `compileValidation` |
| `Mountable`, `Child`, `ListChild`, `AllListed` | `MergedPlugin` and its calls: the first prefix that fits |
| `LoadTree`, `GetPath` | `Engine.LoadTree`: list, then get path by path |
| `SetValue`, `Announce`, `TreeSet` | a plugin is told, then the tree under its lock |
| `ValidateTree`, `NextPath`, `CopyPath`, `JudgePath` | `Engine.Validate` over copies of the tree, as `zhi validate` and gRPC do |
| `HoldTree`, `JudgeHeld`, `LetTreeGo`, `UnsafeReader` | `Tree.Validate`, which holds the read lock and hands its validators a reader that takes none |

`told` is what one plugin in the place of all would hold. That nobody is stuck
(`NobodyStuck`, a part of `CallsEnd`) is a statement about the lock: a waiting writer keeps new readers out, as
in Go's `RWMutex`, so a validator that took the lock again would wait for ever, as it does
with `LockedReader` in the place of `UnsafeReader`.

### Stores

Source: `pkg/providers/store/vault/vault.go`, `pkg/providers/store/jsonfile/jsonfile.go`,
`pkg/zhiplugin/store/compose.go`.

| module | code |
|---|---|
| `kind`, `held` | each store is a Vault or a JSON file; a secret is the values of its versions, the newest, and which are destroyed |
| `seen` | what a client has read, with the version it puts next |
| `job` | the call a client is in, at each store it goes to |
| `Begin`, `PutValues`, `DeleteValues`, `DeleteTree`, `RollbackValue` | the mirrored store's calls: the primary's job first |
| `Active`, `After`, `Settled`, `Missed`, `Ends` | `mirrorAction`: all mirrors at once when the primary is done, their errors logged only |
| `PutPath`, `CASConflict`, `Store1`, `DeletePath`, `RollbackRead`, `RollbackWrite`, `ListTree`, `DeleteVersion` | Vault, path by path |
| `FileRead`, `Changed`, `FileWrite`, `FileRemove` | the JSON file: read, change the copy, rename |
| `Fails`, `Crash` | a request that fails, with or without its effect; a client that dies |

History: `reborn`, the paths deleted since a client read them (a version number that
comes again), and `parted`, the paths of a store that something has happened to which
may set it apart: a failed call, a death, two calls that overlapped, a call that went to
one store only.

### Sharing: Mirror, Marketplace, PluginLifecycle, Publishing, RegistryLogins

**Mirror** (`cmd/zhi-mirror`). `AskTag`, `CheckTag`, `Respond`, `FetchFails`, `Receive`,
`StoreTag` and `Serve` are `HandleManifest` from the request to the answer, with the
fetch from upstream between; `AskDigest`, `ServeFetched` and `NotFound` are `HandleBlob`;
`Sync` is one rule of the scheduler; `Search` and `Listed` the marketplace pages and
their cache; `StartExport`..`FinishExport` and `StartImport`..`EndImport` the air-gap bundle,
file by file; `Damage` what may happen to a bundle on its way; `Publish` moves a tag
upstream; `Restart` ends the server at any time. A tag has, as history, when upstream
said so. `Tree` is the least closed set with the tag's manifest; a tree that is too deep
is an export that fails. An import works on the copy that it has unpacked (`import.of`), so
an export that writes the bundle anew does not touch it. The mirror compares no content with
the digest it was asked by (`oci.go:134`, `:192`) and takes the digest of a tag from a header of the
answer (`oci.go:270`): `SentAs` is an upstream that mixes them up, `misnamed` the digests that this
happened to. `Filtered` leaves an answer that does not parse as search results as it came
(`marketplace.go:170`).

**Marketplace** (`cmd/zhi-marketplace`). Every request that changes the data changes them
in memory and then flushes them (`Write`, `Flush`), which may fail; `Crash` and `Stop`
end the server with and without a last flush, `Start` reads the file. `heard` is what
clients were told is stored. Handlers are one step because artifacts and publishers are
never removed.

**PluginLifecycle** (`internal/cli/plugin*.go`, `pkg/sharing/client`, `metadata`, `update`).
`binary`, `backup`, `meta` are the three kinds of files; `cmd` is the command under way,
which goes through `Backup`, `RemoveBackup`, `Put`, `Move`, `Fetch`, `CheckInstalled`,
`Place`, `Truncate` and `Save`, or `Restore`, `Open` and `Copy`, `RemoveBinary` and
`Forget`; `Die` ends it anywhere. `AuditAccepts` is what the launch says of a binary.

**Publishing** (`pkg/sharing/client`, `lockfile`, `verify`, `internal/cli/workspace.go`). Publishers:
`Publish`, `CopyContent`, `TagRoot`, `PushTag`, `SignArtifact`, `PublishFails`. The machine:
`Install`, `WorkspaceInstall` or `Setup`, then `Resolve`, `ResolveRoot`, `ResolvePlatform`,
`AlreadyInstalled`, `CopyAndInstall`, `PullFails`, `ExtractBundle` and `CommandDone`; `Lock`
writes the lock file, and a setup takes its plugins in any order (`Orders`). `EffectivePlatform` is
`--platform`: an install is for what it says, a setup for the machine's own; `noted` is the platform the
metadata name, `platform` the binary's. `Trust` is the policy's decision. Tags move between resolving and
copying; `moved` is the plugins to which that happened.

**RegistryLogins** (`pkg/sharing/registry`). Processes read `~/.zhi/config.yaml`, change their
copy and write it back in place; they may die while they write.

### VaultPolicies

Source: `pkg/providers/store/vaultmanager`, the access calls of `vault.go`.

| module | code |
|---|---|
| `policy`, `role` | the policies and AppRole roles in the Vault |
| `PolicyName`, `ChildPolicy`, `UserPolicy`, `Covers` | whose a policy is, by its name: a sequence of words; `Covers` is the search by prefix |
| `Login`, `OnChildPolicy`, `PutChildPolicy`, `ChildLogin`, `TokenEnds` | the store's login and the child's policy and token |
| `GetValues`, `Refresh` | a read through the manager, which refreshes first |
| `List`, `Request`, `WritePolicy`, `Stale`, `DeletePolicy`, `PoliciesDone` | `ReconcilePolicies`: list, write the wanted, delete the listed others |
| `Accepted` | Vault refuses an empty policy, which is what an application without labels gets |
| `ReadRole`, `WriteRole`, `Generate` | `EnsureAppRoles`, which takes a role that cannot be read for a missing one; `GenerateCredentials` |
| `GrantAccess`, `RevokeAccess`, `ReadAccess`, `WriteAccess`, `Parsed`, `Merged`, `Without`, `Doc` | read a user's policy, change it, write it |
| `Save`, `Restart`, `Operator` | labels that change, other applications in the configuration, an operator at work in the Vault |

`ledger` is what was granted and not revoked; `clean` says that no such call failed or
overlapped another; `unsure` has the managers about to write a role whose read of it failed or
was followed by an operator's change. A stale policy whose deletion fails is logged, and the
refresh succeeds; here it counts as failed, so that the properties say nothing of it.

### Launching and Wire

**Launching** (`internal/core/registry.go`, `discovery.go`, `internal/cli/root.go`). `Look`
goes through one directory after the other and adds what has not been seen (`In`, `Add`);
`Load`, `Resolve`, `Resolving`, `Got`, `Fails`, `Ready` are `withEngine` and `NewEngine`, one reference after the other;
`UseBuiltin`, `RefuseOptions`, `LaunchExternal`, `Start`, `NotLaunched`, `Registered`, `Launched` get
a plugin under the registry's mutex; `Open` and `Return` are the frontend; `Interrupt`,
`Cancel`, `Exit` end the command, `Close`, `Kill`, `Closed` its plugins, in a goroutine of
its own.

**Wire** (`pkg/zhiplugin/*/grpc_*.go`, `ui/controller_*.go`). A call is asked (`Ask`), handled
(`Begin`, `Work`) and answered (`Reply`, `Return`); an apply streams its lines (`PrintLine`,
`RecvLine`) and then its result (`SendResult`, `Result`, `RecvEnd`, `Broken`). `ToStatus` and
`FromStatus` take an error over the wire. `Serve`, `Dial` and `FrontendEnds` are the server
of the controller that zhi offers while a UI plugin runs. Words and flags are copied one by
one and left out.

### Frontends: Tui, Servers, WebSession

**Tui** (`internal/ui/tui`). One loop: `Key` and `Message` are its two kinds of steps, each
handled by the active view. `calls` is the bag of what runs and has not answered. What
the controller does is left open: a call ends well, badly or with a demand for a login.

**Servers** (`pkg/providers/ui`, `pkg/mcpbridge`). A request is the sequence of controller
calls its handler makes (`WebHandlers`, `Scripts`, `BridgeHandlers`), and gives up at the
first that fails but for those in `Tolerated`. `Enter` and `Leave` are the bridge's mutex;
`Hang` is an apply whose output stays open (Apply); `Stop`, `MayEnd`, `Ended` and `Down` are the
four ways a server ends.

**WebSession** (`webui/middleware.go`, `auth_handlers.go`). A browser with tabs that share a
cookie; `Get`, `Post`, `Arrive` are the browser (external), `ServeGet` and `ServePost` the
server with its token (`Valid`, `Allowed`, `SetsCookie`), the check for a session and the
redirects; `Restart` draws a new secret.

### Drift, Diffs, Numbers

**Drift** (`internal/cli/drift.go`, `internal/core/drift.go`). `Begin` takes the tree, `RenderOne`
or `RenderEach` a template, `Compare` each of its files, `Skip` those that print;
`Checked`, `Note`, `Report` and `HookEnds` are what comes of it, once or in a watch;
`SetTree`, `StoreFails`, `EditTemplate`, `EditFile` and `Export` are the others.

**Diffs** (`internal/core/diff.go`). `LcsMatrix`, `Backtrack`, `Edits`, `Hunks`, with recursive functions and folds for
the loops (`Turn` is one turn of the walk back, `Joined` what an edit does to the groups, `From` and
`To` are the ends of a hunk); checked against applying the diff to the old text (`Patched`). **Numbers**
(`internal/core/numeric.go`). `ToInt`, `ToUint`, `ToInt64`, `ToFloat64` with the widths of
Go's types as parameters; checked against equality of the numbers.
The widths, the lines, their number and the context are constants of `MCOutputs`.

**Fairness.** Apply: see there. Drift: the ticker fires, a check goes on, a hook ends.
Servers: a call that was let in returns unless it hangs, a server goes down when it may,
and a request that waits for the bridge's mutex gets it in the end, strongly fair since
the mutex comes and goes (Go hands a mutex to whoever has waited for a millisecond).
WebSession: a request that has arrived is answered. Wire: implementations return, readers
read, and gRPC notices that a connection is lost. Nobody has to send a request, set a
value or cancel.

## Runs

| run | instance | what it shows |
|---|---|---|
| `Components_edited` | Components: 3 components, 2 processes, 3 versions of `zhi.yaml`. Launching: 2 directories, 7 files in any subset, 6 workspaces, 3 frontends. Wire: 1 call of every method, 4 chains, 3 lines. ConfigPlugins: 4 mount lists, 4 directories, 2 callers with 2 calls | mandatory components on (`MandatoryOn`), no switch breaks more than was broken (`NeverBreaksMore`); what runs was meant and can be closed (`PluginsAccountedFor`); answers are the implementation's, mounted plugins act as one (`AnswersTrue`); calls end, and nobody waits for a lock for ever (`CallsEnd`) |
| `Components_ledger` | 4 components, 2 processes, commands one at a time, one `zhi.yaml` | no crash leaves a dependency off (`DependenciesOn`); Components implements `ComponentLedger` (`ImplementsLedger`) |
| `Editing_clients` | Editing: 1 path, 3 values, 2 clients, 1 `zhi set`; saves, transforms, `SetValue` and `Validate` may fail. Publishing: 2 publishers, 4 builds, 2 platforms, 2 pushes, 3 commands. RegistryLogins: 2 processes, 2 registries, 2 users, 4 logins | an accepted edit is kept (`EditsSurvive`), a save stores all (`SavePersistsEdits`); a rejected value is stored only where it slipped (`BlockingNeverStored`); what was published is served, logins last (`PublishersServed`); what is installed was meant and allowed, a lock brings back its digests (`InstallsTrue`) |
| `Editing_beside` | Editing: 2 paths, 3 values, 1 web client, 1 `zhi set --validate`. Servers: 2 requests at once. WebSession: 2 tabs, 1 restart, 1 change of session | current writers change what they were asked to (`FreshWritersOnlySet`); one call at a time, pages that were reloaded work (`FrontendsConsistent`); requests, servers and redirects end (`FrontendsSettle`) |
| `Apply_run` | a shell and a child, 7 cases, pipe and channel of one line, batches of two | `AllOutputShown`, `ChecksDoNotMix`, `RunsEnd`, `CancelEnds` |
| `ExportRollback_undo` | ExportRollback: 2 files, 2 contents, exports with snapshots. Drift: 2 changes. Diffs: texts of at most 5 lines. Numbers: 5 bits, 3 of mantissa | a rollback is exact (`RollbackRestores`) and undoes the last export (`RollbackUndoesLastExport`); a check's verdict is true (`VerdictTrue`), drift is noticed (`DriftIsNoticed`); diffs and conversions are right (`AlgorithmsRight`) |
| `Sessions_tui` | 1 login at a time, 2 tokens, 2 goroutines, leases of 0 and 2 s, at most 4 s, 2.5 s | one goroutine renews (`OneRenewal`) and in time (`StaysAlive`), an open session belongs to the token in use (`SessionHasToken`) and ends with its lease (`SessionWithinLease`) |
| `PluginLifecycle_files` | PluginLifecycle: 2 types, 2 versions. Tui: 2 calls, 2 applies, 6 sets of labels, 3 of login methods | no binary is lost (`NothingLost`), metadata fit it (`Described`); screens wait for what is under way (`ScreensConsistent`), keys do no harm (`KeysDoNoHarm`) |
| `Sharing_servers` | Mirror: 6 mixes of activities, 2 workers, 1 tag, 2 manifests that share a layer, a time to live of 1. Marketplace: 1 publisher, 2 artifacts, 5 writes | what is served is what was asked for, kept, listed and counted right (`SharingConsistent`), answers are fresh (`FreshAnswers`) |
| `Stores_mirrored` | 2 clients, 2 paths, 2 values, a primary and a mirror, each a Vault or a file, 3 versions, 3 calls | a version means a value (`VersionMeansValue`), mirrors follow (`MirrorsFollow`), writes are mindful (`WritesMindOthers`) |
| `Policies_shared` | 2 managers, 1 granter, 2 applications, 3 ways to name the workspaces, 2 calls | policies follow the labels (`PoliciesInPlace`), access is what was granted (`AccessAsGranted`), roles lose nothing by a manager that could read them (`RolesKeepPolicies`) |
| `Policies_own` | 1 manager | violated: an application reaches the values labelled for it (`AppsReachTheirValues`) |

**Bounds, and why they are enough.**

- *Components.* Three in a chain are the least with a dependency of a dependency, a
  mandatory one in the middle and one above it; the fourth stands alone, so that
  saves differ in a component nothing depends on. Two processes are what one file
  needs for a lost update or a mixed write. Three versions of `zhi.yaml` have each
  kind of change: a component appears, becomes mandatory, gains a dependency.
  Nothing else is bounded: processes start and end for ever.
- *Launching, Wire, ConfigPlugins.* The files have each layout discovery knows, and a name
  in two directories; the workspaces a built-in, an external plugin, one reference twice,
  two transforms of one plugin, options for a built-in. One call at a time on the wire,
  since calls share nothing but the connection. The mount lists are two
  points beside each other, one inside the other in either order, and one of two that no
  path can start with; the directories have a file that overrides another, with a value
  below a value or a validator that does not compile in what is overridden, one that does
  not load, and no files.
- *Editing.* Two paths, since what matters is the one that is edited and one beside
  it; the run with two clients has one, the interleavings being about one path. Three
  values: the default, one it is transformed to, and one that validation rejects. The
  transforms are not the identity and turn back what they did, as the example plugin
  of the repository does. With two clients everything in `Faults` may fail; beside a `zhi set` only
  transforms do: `FreshWritersOnlySet` is about what is stored, and a form's unanswered check or
  failing way back leaves a value in the tree that a later save, which nobody asked to set it, stores. Sets, loads and saves are not limited in number.
- *Publishing, RegistryLogins.* Two publishers race for a tag while a machine resolves it;
  two pushes and three commands hold an install, a lock and an install from the lock, with
  a push between any two; the lock of the run has one plugin, the theorem's any number. Installs are
  for the machine's platform or, by `--platform`, for another one. The builds are two of one plugin, one of another and a
  workspace. Four logins let two processes each lose one of the other's.
- *Servers, WebSession.* Two requests are one that holds the mutex and one that waits.
  Two tabs share a cookie; one restart and one change of the session make each page stale
  once.
- *Apply.* Pipe and channel hold one line, the least for everything to be full at
  once, and no more lines than needed to fill both behind one that is too long.
  Batches of two, so that a batch can be pending and not full. One pre-check: what
  is between a check and the command is what is between two checks. One child: with
  the shell there is a process zhi waits for and one it does not know. The seven
  cases (`Mixed`) are: short runs, with and without pre-check, for either frontend;
  a child that left the group and ignores SIGTERM; a daemon with its output
  redirected; a shell and child, or a shell alone, that never exit.
- *ExportRollback.* Two files, so that a snapshot or a restore can be half done and an
  export can be about one and not the other; two contents, old and new. Exports,
  rollbacks and edits are not limited in number.
- *Drift, Diffs, Numbers.* A template of one file, one that iterates over a child that may
  be there or not, one that prints; two changes are one that a check meets half way and
  one that undoes it. Diffs: all pairs of texts of up to five lines over two lines, with one line
  of context where the code's callers ask for three, so that two hunks fit. Numbers: all
  values of a width of five bits.
- *Sessions.* Two tokens are a session's and the one that replaces it, or the one
  from the environment; the second goroutine is what a renewal has to be told apart
  from. Each token is granted once and each goroutine started once, which bounds the
  exchanges, not the pasted tokens, requests and logouts. Five half seconds hold a
  lease, its renewal and the end of the first lease; leases of none and two seconds,
  the shortest with a renewal before its end, with one extension left. `Lag` is 0: TLC
  looks at orders and not at delays, the theorems hold for any `Lag`.
- *PluginLifecycle, Tui.* Two types of one name share metadata; two versions are an old and a
  new one, named so that their order as words is not their order as versions (`0.9`, `0.10`).
  Commands are not limited in number. Two calls let a second answer arrive before the
  first, two applies let one start beside another.
- *Mirror, Marketplace.* Two workers race for a tag; a tag that moves once has two manifests. A
  time to live of 1 in a clock of 3 can pass twice. Mirror's activities are looked at
  in six mixes of two or three, one with an upstream that mixes up digests;
  one blob of a bundle may be damaged; since all at once are too many states and each mix has
  those that share state; the theorem has no mixes to choose. Five writes hold a publisher, an artifact, two versions or a rating
  with a vote.
- *Stores.* Two clients overlap, two paths are one that a call has written and one it has not;
  three versions are one read, one written over it and one more. One mirror: mirrors do
  not know of each other.
- *VaultPolicies.* Two managers in one Vault, two applications so that one can be removed,
  two calls so that a refresh follows another, overlaps it in one workspace, or meets an operator.

Deadlock is checked in `Components_ledger`, `ExportRollback_undo` and
`Sessions_tui`. In the other runs a system comes to a rightful end: an apply is over, a
process has exited, the calls that `MaxCalls` allows are made.

## Proofs

The theorems hold for any sets of components, processes, versions, paths, values,
clients, stores, names and cases, and any capacities, under the assumptions named in the
modules. TLC evaluates the assumptions in every run.

| theorem | statement |
|---|---|
| `ComponentsProofs!TypeCorrect` | `Spec => []TypeOK` |
| `ComponentsProofs!MandatoryStaysOn` | `Spec => []MandatoryOn` |
| `ComponentsProofs!NoNewBreakage` | `Spec => NeverBreaksMore` |
| `ComponentsProofs!DependenciesStayOn` | `FixedSpec => []DependenciesOn` |
| `ComponentsProofs!CommandsKeepTheLedger` | for one version of `zhi.yaml`, `SerialSpec => ImplementsLedger` |
| `ComponentsProofs!LaunchedAccountedFor` | `LaunchingSpec => []PluginsAccountedFor` |
| `ComponentsProofs!AnswersAreTrue` | `LaunchingSpec => []AnswersTrue` |
| `EditingProofs!TypeCorrect` | `Spec => []TypeOK` |
| `EditingProofs!EditsAreKept` | if no frontend sets without loading and `AfterSave` is idempotent, `Spec => []EditsSurvive` |
| `EditingProofs!SavesAreComplete` | under the same conditions, `Spec => SavePersistsEdits` |
| `EditingProofs!RejectedNeverStored` | if no path is write-only and transforms and defaults block nothing, `Spec => []BlockingNeverStored` |
| `EditingProofs!FreshWritersMindOthers` | if no path is write-only and display undoes save, `Spec => FreshWritersOnlySet` |
| `EditingProofs!PublishersAreServed` | `PublishingSpec => []PublishersServed` |
| `EditingProofs!InstallsAreTrue` | `PublishingSpec => []InstallsTrue` |
| `EditingProofs!FrontendsKeepOrder` | `WebSpec => []FrontendsConsistent` |
| `EditingProofs!ReloadIsTaken` | `WebSpec => Browser!ReloadHelps` |
| `ApplyProofs!TypeCorrect` | `Spec => []TypeOK` |
| `ApplyProofs!NoSendOnClosed` | `Spec => []NothingAfterClose` |
| `ApplyProofs!OutputIsComplete` | `Spec => []AllOutputShown` |
| `ApplyProofs!ChecksSeparate` | `Spec => ChecksDoNotMix` |
| `ExportRollbackProofs!TypeCorrect` | `Spec => []TypeOK` |
| `ExportRollbackProofs!RollbackIsExact` | `Spec => RollbackRestores` |
| `ExportRollbackProofs!RollbackUndoes` | if every export takes a snapshot and removals do not fail, `Spec => RollbackUndoesLastExport` |
| `ExportRollbackProofs!DriftVerdict` | `OutputsSpec => []VerdictTrue` |
| `ExportRollbackProofs!AlgorithmsAreRight` | `OutputsSpec => []AlgorithmsRight` |
| `SessionsProofs!TypeCorrect` | `Spec => []TypeOK` |
| `SessionsProofs!RenewalIsOne` | `Spec => []OneRenewal` |
| `SessionsProofs!RenewalInTime` | `Spec => []StaysAlive` |
| `SessionsProofs!OneLoginOneToken` | if logins come one at a time, `Spec => []SessionHasToken` |
| `SessionsProofs!SessionEndsWithLease` | if logins come one at a time, `Spec => []SessionWithinLease` |
| `PluginProofs!TypeCorrect` | `Spec => []TypeOK` |
| `PluginProofs!PulledWhole` | `Spec => []WholeBinaries` |
| `PluginProofs!NeverLost` | `Spec => []NothingLost` |
| `PluginProofs!DescriptionFits` | `Spec => []Described` |
| `PluginProofs!ScreensHold` | `TuiSpec => []ScreensConsistent` |
| `PluginProofs!KeysAreHarmless` | `TuiSpec => KeysDoNoHarm` |
| `PluginProofs!SharingSafe` | `ServersSpec => []SharingConsistent` |
| `PluginProofs!FreshIsRecent` | `ServersSpec => []FreshAnswers` |
| `StoresProofs!TypeCorrect` | `Spec => []TypeOK` |
| `StoresProofs!VersionsMeanValues` | `Spec => []VersionMeansValue` |
| `StoresProofs!MirrorsKeepUp` | `Spec => []MirrorsFollow` |
| `StoresProofs!WritesAreMindful` | `Spec => WritesMindOthers` |
| `PoliciesProofs!TypeCorrect` | `Spec => []TypeOK` |
| `PoliciesProofs!PoliciesStayInPlace` | if names are apart, `Spec => []PoliciesInPlace` |
| `PoliciesProofs!AccessIsKept` | `Spec => []AccessAsGranted` |
| `PoliciesProofs!RolesArePreserved` | `Spec => RolesKeepPolicies` |

**Components.** *Assumed*: `WorkspacesAssumption` (every version of `zhi.yaml` is
one `NewComponentManager` accepts), `FileAssumption` (the contents of the file are
told apart). *Argument*: lemmas on the operators first. `EnabledSound`,
`DefaultSound`, `DisableSound` and `CascadeSound` say of each operation that it
stays within the definitions, keeps mandatory components and breaks nothing; each
follows from the closure by giving it the right closed set. `MandatoryOn` is
inductive together with types. `DependenciesOn` is not: a file whose switches
are closed loads to closed switches only if it was saved under the same names and
holds the mandatory components. `FixedInv` adds that every process has the one
version's definitions and that what is saved, or about to be, is closed, complete
and holds the mandatory components. *The refinement* needs in addition that the closures
of Components, which stop at what is already on or off, are on closed switches those of
the ledger, which do not stop (`EnabledIsTurnOn`, `FallenIsTurnOffAll`), and `SerialInv`: what the
one command loaded is what the ledger has, what it is about to save is one move from
there, and while it saves the ledger has moved already. Then each step moves the ledger's
set or leaves it (`RecordedMoves`). It is for one version of `zhi.yaml`, since an edit of
definitions is no move of a ledger, and for commands that do not overlap, since a save that
overlaps another one undoes it.

**Launching.** *Assumed*: `LaunchAssumption` (`zhi.yaml` refers to config plugins, transforms and
stores, `zhi edit` to a frontend; a process is none of the two values for "no plugin" and "compiled
in"). Any directories, files in them and references, and the same directory more than once.
*Argument*: `LaunchInv` says that what is known of a type and name is the first among the
directories looked through (`FilesTrue`), that before a reference is resolved the ones before
it are, and no frontend runs before it is opened (`StagesTrue`), that what is cached is what
is to be closed (`CacheTrue`), that a launch is of
what is not there yet (`LaunchTrue`), and that what is used is what is cached until the
plugins are closed (`UsedTrue`). A plugin never runs twice because the name of what is
launched is none that is cached, and what is to be closed has each name once.

**Wire, ConfigPlugins.** *Assumed*: `WireAssumption` (errors that are wrapped are of the kinds a
store tells apart), `TreesAssumption` (mount points and the paths in files are sequences of
words, the paths that are set are of well-formed segments, values are among those there are).
Any number of calls, chains of any errors, any mount points, directories of any number of files,
any callers. *Argument for the calls*: `WiresInv` says where each call stands: what was
meant and what is on its way or seen agree (`CallInv`), the lines that were printed are those in the
stream and those shown (`Lines`), and a chain of errors keeps its kind over the wire
(`OverKeepsKind`). *For the trees*: first the paths. A path below a mount point is the point and
a path of its own (`BelowSplits`), and lies below one point only, since of two prefixes of a path one is a
prefix of the other (`PrefixesNest`, `UnderOne`), which is where `Mountable` is needed. Then the files:
that the last one wins holds however many there are (`LoadDirTakesLast`). This is an induction, and it is had
without an operator as parameter: a set of numbers that is not empty has a least one (`LeastNumber`,
from the well-foundedness of finite subsets), so there is no first number of files for which it
fails. `TreesInv` has, besides, what the plugins have been told (`ToldTrue`), that a load has
visited what it no longer has to visit (`LoadTrue`), and that a copy which is being taken is part of the tree, or the
tree was changed beside it (`JudgeTrue`). A set changes no judgement under way that is undisturbed and,
since a rule comes with the plugin, none of `Tree.Validate` before the tree is written (`SetKeepsRules`), which
the lock puts off until it is over.

**Editing.** *Assumed*: `EditingAssumption`; in addition, hypotheses of the theorems.
For the two about edits, nobody sets before loading: `SetValue` without a tree
marks a path dirty whose value no tree has, and the next load takes the store's
(see the next section). And storing what is already in stored form
changes nothing, because a failed save leaves the tree in stored form. *Argument*:
`EditsInv` says that a pending value is that of a dirty path and is in the tree, as
set or as stored, and that a client in the middle of a request has a tree.

`RejectedNeverStored` is for any number of requests at once, of any kind, and whatever fails, with
transforms and defaults that make no blocking value; no validation stands between those and
the store. *Argument*: `RejectInv` says that a blocking value is in the tree, in the plugin or in
what a command is about to write only at a path in `slipped`, or while a request that set it
has still to judge it or to put it back, and that such a request holds a value to put back that
blocks nothing, or its path has slipped.

`FreshWritersMindOthers` has the hypotheses that nothing is write-only (a redacted value is
replaced by its default, see the next section), that saving twice is saving once, and that
saving what is shown gives back what is stored. *Argument*: `FreshInv` says what each session and command
would write over each path it was not asked to change if it saved now, and that this is
what the store has, unless someone has written since.

**Publishing, RegistryLogins.** *Assumed*: `PublishingAssumption` (finitely many builds, whose
versions are tags; a workspace needs plugins; `None` is nothing that is written down).
*Argument*: `RegistryInv` follows each publish: the tags that are left are the last of those it was
told, and each of the others leads to its artifact or was put elsewhere by somebody else
(`PublishKept`); a tag of a name leads to an artifact of that name that is there (`TagsKept`).
`MachineInv` is about the machine: a note names an artifact that is there, with the name of the
plugin, and the policy lets it in and the binary is for the platform that was wanted, if there is a choice
(`NoteKept`); and so an entry of the lock file (`EntryKept`). A command that has resolved a reference has done so under the policy
(`AheadKept`). A setup takes each plugin by the digest in the lock, and each of the lock is what
the lock says or is still to come (`SetupKept`); what a workspace needs is there or is still to come
(`SpaceKept`). A setup is always for the machine's platform. What makes it hold between the steps is that the registry only grows, publishers do
not touch the machine, and a command under way has the machine for itself. `LoginsInv`: while nothing
was disturbed, what the one command has in memory is what the file says.

**Servers, WebSession.** *Assumed*: `WebAssumption` (finitely many tabs; nobody is no request).
*Argument*: `OneCallAtATime` is inductive with the shape of a request (`ServingInv`). `BrowserInv`
says what is under way: an answer has a token of the server that runs, and sets it unless the
cookie is of that server already (`MessageKept`); a page has a token that was the cookie (`TabKept`); what
is alone knows the cookie, or brings it (`AloneKept`), which is all that `ReloadIsTaken` needs. That no
more tokens are made than the bound allows is a count: those made and those that requests
under way will cost (`Costly`).

**Apply.** *Assumed*: `ApplyAssumption`: capacities are at least one and the shell
leads its group. *Argument*: `Inv` has, beside types,
`Scanned` (a scanner that is done has an empty pipe and no process that could
fill it), `ClosedLast` (the channel is closed only behind both scanners),
`Conserved` (lines due equal those in the pipe, the scanner's hand, the channel, the
batch and on the screen, for each stream) and `RangeToEnd` (a `range` ends on a
closed and empty channel). `AllOutputShown` is `Conserved` where all but the screen
is empty. `Conserved` needs `Scanned`: a start resets the scanners, and would drop
what a scanner holds if one were still busy. `NothingAfterClose` has no run: it is a part
of `Inv`.

**ExportRollback.** *Assumed*: `ExportAssumption`, `ManifestAssumption` (contents,
manifests and their absence are told apart). `RollbackUndoes` has the hypothesis
`OnlySnapshots`: no export without a snapshot, and no removal that fails half way
and lets the export go on beside an old manifest. *Argument*: `Inv` says that there is
no manifest before the backups are complete (`NoManifestYet`), that the list of a
snapshot in the making agrees with the files (`ListAgrees`), that a manifest agrees with
what the files were as far as its backups are still there (`ManifestAgrees`; a removal
that dies only takes away), and that a rollback has restored what it is done with
(`RestoredSoFar`). `RollbackIsExact` needs no more. `LastInv` adds that the manifest is
about all outputs of the export that is running and that it is the last one's.

**Drift.** *Assumed*: `TemplatesAssumption` (a template is of one of the three kinds). *Argument*:
`FoundSoFar` says that as long as nothing changes, each output of the tree a check started from is
still to be looked at, among the errors, or noted for what it is. A check that ends has nothing
left to look at. Any number of changes is allowed, where TLC has two.

**Diffs and Numbers.** *Assumed*: `AlgorithmsAssumption` (a context of one line at least; integers of
at least two bits more than the mantissa). *Argument for the diff*: what a loop computes is a recursive
function, which exists and has its property after every turn since there is no first turn for which it
fails (`LeastNumber`). `Placed` says that a script passes every line of both texts once and in order;
the walk back makes such a script out of any table (`TurnKeeps`, `EditsPlaced`). `KeptIs` and `HunkIs` say
that the header of a hunk is the place of its lines. `GroupedUpTo` says of the groups that every change is in
one and that the gap between two is more than the context of both, hence `HunksEnd`: hunks are apart,
and begin and end with a line that stays or where the script does. That is where the context is
needed: such a hunk has lines of the old text (`HunkHasLines`), so its header says where it is. `Mix`
is the text that is old up to an edit and new behind it: it is the same over a stretch without
changes (`MixStretch`), a hunk takes it from its end to its beginning (`HunkApplies`), and so the
hunks from last to first make the new text of the old one (`PatchedIsNew`). *Argument for the
numbers*: the gap between two float64s is the one power of two that fits (`GapIs`), so the numbers up
to the mantissa are exact (`SmallIsExact`) and the largest `int` and `uint` are rounded up (`RoundedUp`),
and from there each conversion is a case distinction over its source.

**Sessions.** *Assumed*: `SessionsAssumption` (tokens are told apart, no lease is
longer than `MaxLease`). The last two theorems have the hypothesis of one login at a
time: with two, the session of one can be opened with the token of the other in the
client (see the next section). *Argument*: `OneRenewal` is inductive by itself.
`StaysAlive` needs to know that Vault only ever extends a lease (`VaultInv`), that an
answer is acted on at most `Lag` after it was given (`LoginInv`), and `LoopInv`: when
the goroutine waits, the time at which it is due plus `Lag` is before the expiry of
the token it keeps; while its request is out, an interval and two delays, counted from
the request, are.
The premise `InTime` says that an interval and two delays fit in the lease. For a
lease of one second they do not (the code's least interval is one second), and nothing
is claimed. `SessionInv` follows token and expiry through a login, step by step.

**PluginLifecycle.** *Assumed*: `LifecycleAssumption` (types and versions are there, the order of
their names is a total one), `FilesAssumption`. One command at a time. *Argument*: `Inv` says that a
command has the metadata that is there (`MetaCurrent`), that a backup is removed only for
a binary that takes its place (`BinaryToMove`), that a backup's name is its version
(`BackupsTrue`), that what is about to be written fits (`ToSave`), and that a copy is made
only over what was given up (`CopyGivenUp`). `WholeBinaries` has no run: it is a part of `Inv`.

**Tui.** *Assumed*: `ScreensAssumption` (a store that wants a login has a method for it). *Argument*:
lemmas on the bag of calls first: one that is made is under way, and a step that takes an answer
of one kind leaves all calls of other kinds there (`CallsKept`). `ScreensInv` adds to
`ScreensConsistent` what the editor knows: an input that is wrong is called wrong, and a
read-only value is dirty only if it is one of an enumeration. Each key and each message
has its lemma. An answer that arrives in a view which waits for another
one is harmless because that other call is still there; one that arrives in the view that
takes it ends the waiting. `KeysAreHarmless` follows step by step: in the view of a running
apply every key but the help's is disabled, and only the commit of the editor stores.

**Mirror.** *Assumed*: `MirrorAssumption` (a time to live is positive, as the code's five minutes
are; an export takes only what the manifest refers to). *Argument*: `JobsKept` says where each request
stands and how old what it holds may be: what waits for the network waits no longer than the
timeout, and a tag about to be stored names a digest that is there, whose writing failed, or under which the upstream once sent something
else. `TagsKept`: a tag was
written no later than a timeout after upstream said so. The two timeouts and the time to live of
`FreshAnswers` are the sum of these. `AirgapKept`: what an export has fetched and what it still
fetches are closed, so the bundle is, and what an import has yet to write and what is there cover its own copy
of the bundle. With the bundle in place of that copy this was not inductive: a second
export took the bundle from under the import, which the code's unpacking rules out.
The proof is for any set of `Mixes`, so also for the one that mixes everything.

**Marketplace.** *Assumed*: `MarketAssumption` (there are finitely many users). *Argument*: `DataKept` holds of
the data in memory and of the file, so a start, a kill and an end keep it. `Agrees`: a
download adds one event, and one pair of a version and a number that was not there.
`RatingKept`: IDs are never used again, so no vote that was cast has the ID of an edition to come.
`HeardKept`: every change only adds to what facts are found in (`Grows`).

**Stores.** *Assumed*: `StoresAssumption`, `OfferedAssumption` (values are told apart from their
absence). *Argument for `VersionMeansValue`*: what a call carries to a store was read
with that version (`Carried`); a store only adds versions (`Extended`), or is noticed not to
(`Notices`). *For `MirrorsFollow`*: `MirrorInv` says what a job at each store looks like
(`JobsShaped`, `Shapes`), that calls that overlap part their paths (`Overlaps`), that a file's copy is the
file (`FileCopies`), what the mirrors' jobs are told (`Told`), and `Found`: a mirror has the
primary's value, and between two Vaults its history, unless a call is between the
two, and then the primary is exactly one write ahead. *For `WritesMindOthers`*: a
check-and-set meets the version its client carries, and that version means the value it
read (`NothingUnreadReplaced`); a call touches its own paths (`OthersUntouched`).

**VaultPolicies.** *Assumed*: `PoliciesAssumption` (names are sequences of words), `UserAssumption`
(the tree's name does not make the child's and the user's policies one). `PoliciesStayInPlace` has
the hypothesis `NamesApart`: no application's policy has the name of the child's or the
user's, which a workspace `child-secret` with an application `zhi` would break.
*Argument*: lemmas on names (a workspace's name covers its own policies, the names of two
applications differ). `Listing`: what a refresh deletes was listed, and only names it covers are
listed. `Following`: as far as a refresh has come, the wanted policies are written, the others
gone, the roles there; another manager's writes are elsewhere because of `PolicyWrites`, which says
who may change which policy. `ChildKept`: a child that has logged in has its policy.
`AccessKept`: while no two grants overlap, what the granter has read is the policy, and the
ledger is what the policy says. `RolesKnown` is what makes `RolesKeepPolicies` hold between several
managers that read and write one role: who is about to write has read no policy that the role has
lost, unless the role has its own policy by now, and who is not `unsure` misses no policy of the role nor
any that others are about to write.

**Only model-checked.**

- That a diff is the shortest one: no property says so, and `AlgorithmsRight` holds whatever the
  table of common subsequences contains.
- That nobody is stuck (`NobodyStuck`, in `CallsEnd`): it is about `ENABLED`.
- `CallsEnd`, `FrontendsSettle`, `RunsEnd`, `CancelEnds`, `DriftIsNoticed`: liveness; no rule for
  fairness here.
- The violation.

## What disagrees with the documentation

One disagreement has a run; `PROJECT.json` quotes both sides. `Policies_own`: an
application's policy names the workspace where the engine stores under a hash of its
directory, so that no application reaches its values.

Others, with how to see them where a module has it:

*Components*

- Enabling a component that is on does not enable what it needs, though `Enable`
  "transitively enables its dependencies" (`internal/core/component.go:178`): `LoadState` puts
  mandatory components on over a file that has their dependencies off. Check `EnableCompletes` with
  `Spec`, `Component <- ChainComponent`, `Workspaces <- EditedWorkspaces`, one process.
- "SaveTree persists the current tree and component state" (`internal/ui/driver.go:160`),
  but a session's switches are in no file after its save: check `SaveTreePersists` with
  `FixedSpec`, `Workspaces <- OneWorkspace`, one process.
- `disable --force` names the wrong components as "also disabled", and panics on a
  component that is already off (`internal/cli/component.go:162`): check
  `ForceReportsTheOthers` with `FixedSpec`, `Workspaces <- PlainWorkspace`, one process.

*Editing*

- No write carries a version, so no conflict is ever found: a save undoes what another
  process stored. Check `OnlyEditsChange` with two paths, the TUI's requests, one `zhi set`.
- "A Blocking value must never remain in the tree" (`webui/editor.go:98`). It does when
  `Validate` fails, whose error is ignored (`editor.go:90`), when the `SetValue` that puts the old value
  back fails (`:100`), and when another request saves between set and revert. `slipped` names these
  ways, and `BlockingNeverStored` excludes every other; `Editing_clients` reaches them all.
- A value set through the HTTP API or MCP before anything was loaded is replaced by
  the stored one: check `EditsSurvive` with two paths, one client, no command and
  `Requests <- ApiKinds`.
- A write-only secret that is read back redacted is overwritten with its default by
  the next save: check `FreshWritersOnlySet` with no client, `Requests <- NoKinds`,
  `WriteOnly <- TheSecret`.
- Inline validation is called a read-only preview (`webui/editor.go`), and makes its
  path dirty for the rest of the session: `PreviewLeavesNothing` with two clients and
  `Requests = {"preview"}`.
- The masking transform shown in `docs/`'s page on transform plugins stores the mask:
  `Editing` with `BeforeDisplay <- Masks`.
- `zhi set` applies `AfterSave` to values `BeforeDisplay` never saw, and saving twice
  in a session applies it twice; transforms must be idempotent, which no page says.

*Apply, export, drift, numbers*

- A process that ignores SIGTERM and keeps its output open keeps a cancelled run for
  ever, since SIGKILL reaches the shell only: `CancelAlwaysEnds` with such a child. The TUI drops a
  result that arrives beside a pending batch, and its view never ends: `ViewEnds`.
- Exports of one template, and the web UI's export of all, take no snapshot and leave an
  older one to be restored: `RollbackUndoesLastExport` with `Kinds <- AllKinds`.
- A load that fails ends `zhi drift` with the code of a drift, 1, where
  `internal/cli/drift.go:23` says 2 (`ErrorsExitWithTwo`); a watch whose templates all fail says that
  all files are in sync; a hook that failed is not run again.
- `internal/core/numeric.go:22` says "lossless", and a `uint` above the largest `int64` wraps, an
  integer is rounded to a `float64`, 2^63 passes for an `int` (`Lossless`). A stored
  value that cannot be converted is passed over without a word (`engine.go:158`).
- The header of a diff against an empty file says line 1; texts that differ in the last
  newline only have changes and no hunks.

*Sessions and Vault*

- A session expires at the end of its first lease, however often its token was renewed:
  `TimedOutWithToken`. A 401 that answers a request sent before a login expires
  the session of that login: `ExpiredMeansTokenExpired`.
- With two logins at once (two tabs of the web UI, `Logins` of two), the session can be
  the one's and the token the other's: `SessionHasToken`. A logout during a login is
  overwritten by it.
- A refresh finds "its" policies by a prefix: that of workspace `prod` deletes those of `prod-eu`.
  Credential values whose path the config plugin does not label are stored
  (`docs/user-guide/vault-credentials.md:11`). Tokens are "one-time" (:195) in the page and
  last an hour in the code. "Existing policies on a role are preserved when adding the zhi-managed
  policy" (:199): any error of the read is taken for a missing role (`credmanager.go:105`), which is then
  written with its own policy alone, and so is what an operator changed after the read lost.
  `ExistingPoliciesPreserved` states the page's claim; no run checks it, TLC finds it violated in the
  bounds of `Policies_shared`. An application without labels gets an empty policy, which
  Vault refuses, so that every refresh fails until it has some. A revocation whose read fails deletes the user's whole policy, one
  whose deletion fails is answered as done.
- The engine carries no version into a put, so that a store's check-and-set is never
  asked for; a mirror that gets a version with the value checks it against its own
  (`compose.go` says "No CAS for mirrors"). A rollback writes without a check. "Deletes a version"
  (`compose.go:19`) of the newest leaves the path without a value in Vault.

*Plugins and wire*

- `NothingOutlives` of Launching: the goroutine that closes the plugins starts when `main` is
  about to return, and nobody waits for it (`root.go:155`); after an error of `NewEngine` there is
  none. "All provider options from `zhi.yaml` are propagated to external plugin processes"
  (`docs/user-guide/workspace-configuration.md:204`): a second reference to a plugin that was launched
  already gets it with the options of the first. `OwnOptions` of Launching states the page's claim; no
  run checks it, TLC finds it violated in the bounds of `Components_edited`.
- `NothingAfterRun` of Wire: a UI plugin that has returned may still be calling its
  controller; typed store errors reach an external UI as unknown ones (`errors.go:8`); an
  apply that breaks off before its result would read as a success.
- Component errors are documented as found under `_components/<name>` (`engine.go:202`), and
  carry no path. A mount prefix such as `A/` is accepted and makes every load fail. A validator
  that panics keeps the tree's read lock. Setting a value through a plugin
  replaces its metadata.
- Rollback of a plugin restores the backup that comes first in the alphabet, where the help
  speaks of the previous version; it keeps the digest of what it replaced, so that the audit
  refuses the restored binary. An update of a plugin installed from a local path always fails, after moving
  its binary away.

*Publishing, mirror, marketplace*

- `zhi workspace lock` writes plugins installed from a path without a digest, and
  `setup --from-lock` refuses the file (`LockLoads`). A lock pins the digest of the tag's first
  resolution while the copy resolves the tag again (`client.go:155`): where the tag moved in between, the
  metadata and the lock name another artifact than the binary's (`moved`), against "identical"
  environments (`docs/user-guide/sharing-and-registries.md:238`). The workspace artifact itself
  passes no policy, against "every path … subject to the same checks" (`client.go`).
- `--platform` is not reproduced either: the lock has a field of digests per platform
  (`lockfile.go:40`), `zhi workspace lock` fills it with the artifact's one digest, nothing reads it, and
  a setup installs for the machine's platform (`workspace.go:329`). For an artifact that is a
  single manifest, `--platform` is noted and what it was built for is installed.
- The pages and comments on signatures (`sharing-and-registries.md:176`, `verify.go:10`,
  `internal/cli/plugin.go:71`) speak of verification. No command looks at a signature, the default
  policy requires none, so what is not signed is installed without a word; `requireSignatures` refuses
  everything. `OnlyAllowed` says what remains.
  A publish that fails at an additional tag or at signing leaves the artifact published.
- A login replaces a registry's whole entry and rewrites the file in place: two processes
  lose each other's logins unless one reads after the other wrote.
- An import is "rejected atomically" (`cmd/zhi-mirror/import.go:76`), but blobs and earlier tags
  stay when a later one fails. An artifact exported without a tag imports without one.
- A mirror serves under a digest what the upstream sent for it, uncompared
  (`cmd/zhi-mirror/oci.go:134`, `:192`), and stores a tag with the digest of a header (`:270`), so that
  a tag may name what is not there (`misnamed`). Search results that it cannot parse pass the
  policy unfiltered, also from the cache (`marketplace.go:170`, `:203`).
- "so a single voter cannot inflate the count" and "It is idempotent per voter"
  (`cmd/zhi-marketplace/storage/models.go:27`, `:148`): an edit of a rating keeps its count,
  drops who voted for it and gives it a new number, so that one voter counts twice. `OneVotePerVoter`
  of Marketplace states the comments' claim; no run checks it, TLC finds it violated in the bounds of
  `Sharing_servers`. A change
  whose flush failed stays in memory: the retry is answered with a conflict.

*Frontends*

- The TUI: a browser login that is the only method at the start cannot be left
  (`LoginNeverStuck`); a read-only enumeration changes with `j` and `k` (`ReadonlyStays`). An answer for
  a view that is not active is dropped, and a search answered behind a detail page leaves
  "loading". An authentication error discards the edit that met it.
- The UIs' apply ignores `pre-export`; pre-checks have no timeout; the adapter returns a failed
  pre-check with exit code 0, which the MCP tool reports as success.
- The web UI's switch of a component lists, then switches: two clicks do the same thing
  twice. A page loaded beside another answer that sets the cookie holds a stale token and is
  refused until it is loaded again.

## What is not modelled

- *Components*: path prefixes and the filter they make; the wording of reports but for what
  they list.
- *Editing*: the conversion of stored values to a path's type (Numbers has the numeric ones),
  component filters, versions (no code passes one on).
- *ConfigPlugins*: validators of single values that look outside their plugin's mount point (those
  that `Tree.Validate` calls are given the whole tree); labels, the ready-made validators, the delegates; keys with slashes, by
  which one file can name a path twice, the order of a Go map deciding.
- *Apply*: the environment, the working directory, the text of lines.
- *ExportRollback*: rendering, formats, file modes; two commands at once. *Drift*: configuration files
  that change during a watch.
- *Sessions*: the callback server, Vault's renewals by others, revocation, and a clock that
  differs from Vault's.
- *Stores*: time to live, encryption at rest, the memory store among the examples.
- *VaultPolicies*: wrapping and time to live of a secret, the strings of paths.
- *Tui*: drawing, cursor, scrolling; answers that only set the status line. *Servers*, *WebSession*:
  rendering, compression, headers, the browser's scripts.
- *Launching*: what an audit checks (PluginLifecycle has it), functions that only list. *Wire*: the
  fields of requests and answers, the encoding of values.
- *PluginLifecycle*: overlapping commands; the file of the last update check, which nobody
  reads. *Publishing*, *Trust*: formats of manifests and archives, cryptography, verification of signatures
  and the trust store, which no command calls; the platform an artifact that is a single manifest claims.
- *Mirror*: the audit log, retention. *Marketplace*: ranking and paging, `UpdateArtifact`, which nobody
  calls.
- The remaining commands (read-only listings, scaffolding, parsing) have no state that
  outlives them. Generated code, examples and the network protocols are not modelled.
