# Models of meshstack-cli

`meshstack` is the command line client of meshStack. It is one Go binary that many processes run at once: a person in
two terminals, a `tofu` that starts it as its state backend, and CI jobs. They share files below the configuration
directory, sessions at the identity provider (Keycloak), and the objects of meshStack, and what is hard in this program
is that sharing. This directory has TLA+ models of the parts where it happens, the configurations TLC checks them with,
and proofs that TLAPS checks.

`PROJECT.json` lists components, runs, mutations, hazards, theorems, and for every definition of a model the lines it
stands for. Paths below are relative to `src/`.

## Inventory

| component | state | operations | what makes it correct |
|---|---|---|---|
| file lock (`internal/lock`) | a mutex per process and guarded file, an flock on `<path>.lock` | `WithLock`, `WithRLock`, `Lock`, unlock | readers-writer exclusion, nothing leaked on a failure, a wait that ends |
| token cache (`internal/auth/cache.go`, `auth.go`, `credential/`) | the credential's cache in memory, the cache file with refresh token and access tokens | `Load`, `Read`, `Modify`, `Write`, `WriteOver` | the latest refresh token survives, no rotated one is sent, one refresh serves all who wait |
| login, logout, status (`internal/auth`, `cmd/auth`) | the previous cache that a failed login restores, the workspace | login, logout, status | a failed login leaves what was stored (but for one that fails while it stores), a stored one works, and where its person meant it; the status tells whose tokens they are |
| browser login, identity provider client (`internal/oidc`) | the loopback server's pages, the chosen level, the code | choose, redirect, callback, exchange, refresh, revoke | one login ends with one code, of the level that is stored |
| profiles (`internal/profile`, `cmd/profile`) | `profiles.json`, `credentials.json`, the current profile, the terminal UI | create, edit, rename, delete, use, log in | files of a profile agree with each other, no command stores over another |
| state proxy and state locks (`internal/tfstate`, `cmd/buildingblock/tfstate`) | the stored state and its lock at meshStack, backups, a mutex per `exec`, the command below it | read, write, lock, unlock, force-unlock, exec | no state is overwritten that the writer has not seen; the lock shown is the lock removed; `exec` leaves nothing behind |
| waiting for a run (`cmd/internal/buildingblock`, `client/building_block_v2.go`) | the building block before and after a write | ask, react, wait, approve, abort | a run of before is not taken for the answer to the write; only the plan that was shown is approved |
| HTTP client (`internal/http`) | attempt, wait, answer | send, retry, read the body | a request is repeated only where that is harmless, waits stay in bounds |
| run logs (`cmd/buildingblockrun`) | steps written so far, failures in a row | follow | every line once, the last ones too, an end |
| meshObjects and paging (`client/internal`, `cmd/internal/list.go`) | the page, the limit, the array that is written | list, merge | a list in `createdAt,desc` is the newest objects, each once, where `until` is heeded; none leaves anything out and looks complete |
| settings (`internal/setting`, `cmd/api/profile.go`) | flags, environment, profile | resolve | precedence, and a credential only for the endpoint it was issued for |
| held logs (`internal/logs`) | records held while a terminal UI draws | hold, notify, release | every record once and in order, and no deadlock with the UI |
| release check, downloads (`internal/version`, `internal/apidocs`, `internal/http`) | the time of the last check, the document | check, download, parse | no partial document is read, no wrong one stays |
| OpenAPI documents, `meshstack api` (`client/openapi`, `cmd/api`) | the operations of the document, the request's headers | select, negotiate, list, describe | a request is of one version throughout; a description is of everything |
| terminal (`cmd/internal/prompt`) | the input, a goroutine that reads lines ahead | ask, confirm, select | what is entered answers the questions in order; only keys typed ahead of a selection's end are lost |
| JSON files (`internal/json`) | a file | `MarshalTo`, `UnmarshalFrom` | a file is replaced as a whole |
| object types, build, installation | none | conversions | not modelled |

How they interact: a command resolves its settings to a profile, a profile to a credential, and a credential to a
`Session`. The session's requests, from any goroutine, ask the token cache for a bearer token. The cache is read and
modified under its file lock, and calls the identity provider inside the lock. Login, logout and the profile commands
write the same cache files, and hold the file lock of the profiles while they do (logout does not). The state proxy
serves `tofu` through such requests, so a `tofu` run is several processes of one profile. Several people, the runner and
`tofu` work on one building block at once, and meshStack answers a write before it acts on it.

Behaviours that are hard to test, at their lines, are the list `hazards` of `PROJECT.json`: a goroutine or process that
reads before it waits for a lock and writes after it, failures with one of two locks taken, crashes and lost answers
between the rotation of a refresh token and its way into the file, commands that remove the files of a login which
is in progress, conclusions from two reads of something that changes in between, and questions that are answered after
what they asked about has changed.

## Modules

| module | models | run |
|---|---|---|
| `RWLock` | what the file lock promises: a readers-writer lock between rivals | refined by `FileLock` |
| `FileLock`, `MCFileLock`, `FileLockProofs` | the two locks, their order, fallback and failures | `FileLock`, `FileLockShared` |
| `TokenCache`, `MCTokenCache`, `TokenCacheProofs` | requests that share a cache; uses `RWLock` for its locks | `TokenCache`, `TokenCacheLiveness` |
| `ProfileLogin`, `MCProfileLogin`, `ProfileLoginProofs` | the commands that store, use, move and remove logins | `ProfileLogin`, `RenamedProfile` |
| `TfState`, `MCTfState`, `TfStateProofs` | tofu commands, runs and force-unlock on the state of one building block | `TfState`, `RetriedWrite` |
| `BuildingBlock` | a building block's status, its runs, and meshStack | below |
| `RunWait`, `RunAction`, `FollowRun` | `trigger-run` and `wait`; `approve-run` and `abort-run`; `logs --follow` | below |
| `BlockCommands`, `MCBlockCommands`, `BlockCommandsProofs`, `FollowRunProofs` | compose the four, with the properties | `BlockCommands`, `FollowPending` |
| `HttpCall`, `Listing`, `Download` | one call of the HTTP client; listings; the API docs in the config directory | below |
| `BrowserLogin`, `ProfileMenu`, `HeldLogs`, `Prompts` | what a person does in a browser and at a terminal | below |
| `Resolving`, `AuthStatus`, `LoginChoice` | settings to credential; `auth status`; the choices of a login | below |
| `OpenApi`, `ApiDescription` | selection, negotiation and listing; the description of an operation | below |
| `TofuExec` | `tfstate exec` around its command | below |
| `Commands`, `MCCommands`, `CommandsProofs`, `ApiDocsProofs` | the modules of the five rows before, one of which happens | `Commands`, `UnlockedKeys` |

### FileLock

One caller is one call of `WithLock`, `WithRLock` or `Lock`. `pc` follows `lock()` line by line: `memTop`, `memTry` and
`memWait` are the loop of `SpinLock` on the mutex (look at the context, try, wait), `fileTop`, `fileTry` and `fileWait`
the same loop on the lock file, `backOut` the unlock of the mutex after the second loop failed, `held` the guarded code,
and `memUnlock` the point between the two unlocks. `mutex` is a count, as in Go, without an owner: an unlock too many
shows as a wrong count. `flock` is what the kernel grants to each handle. `directory` decides what opening the lock file
returns: it works, it fails with one of the errors that `ignoreErr` swallows (`absent`, `readonly`), or with another one
(`denied`). Callers expire, call `unlock` twice, and die with their process; a writer may create the directory while it
holds the mutex alone, so that a caller that fell back and one with a file lock can meet.

`RWLock` has one variable, `holding`, and the pairs of callers that are kept apart. `IsRWLock` maps `holding` to the
mode of every caller in `held`. Rivals are all callers where the directory exists or refuses everyone, and those of
one process otherwise, which is what the comment at `internal/lock/lock.go` concedes.

### TokenCache

Goroutines (`Caller`) of several processes send requests through one stored browser login. `Resolve` and `Load` are
`ResolveSession`; `LockRead` and `LookUp` are `GetBearerToken`'s `Read`; `LockWrite`, `ReadFile`, `Ask`, `Receive`,
`WriteBack` and `Unlock` are `RefreshBearerToken`'s `Modify`, with the second look at the cache inside `ReadFile`; `Send`
is the request and its one retry after a 401. The credential's cache in memory is shared by the goroutines of a process;
reading the file is decoding into it, which keeps tokens that the file has none for (`Decoded`).

A refresh token is the number of rotations before it, an access token the rotation that minted it and its workspace
claim. The token endpoint rotates, loses its answer, is not reached, or sees a rotated token and ends the session. A
refresh for a workspace without a role (outside `Granted`) still rotates. Tokens expire and are revoked, the session may
end, and processes die anywhere.

`lost` is a ghost: a rotated refresh token that no file will get, after an answer that did not arrive, a failed write or
a crash. The properties that speak of the latest token except that case, and only that one.

### ProfileLogin

Processes run `login`, `logout`, `profile edit`, `profile rename`, `profile delete` and commands that use the login, on
two files per profile: the identity in `credentials.json` (reduced to its access level) and the cache file (reduced to
level and refresh token). `LockProfiles` is the lock that the editing commands and login hold until they end. `Choose`,
`Arrive`, `WriteOver`, `Store` and `EndLogin` or `Restore` are the browser login in order; `LockCache`, `RefreshToken`
and `WriteCache` are `Modify`, of a command or of a login that looks at the session it has just got.
`EndBrowserSession`, `MoveCredentials`, `RemoveCredentials` and `RemoveCache` are the edits, in the order of the code
and each a step.

Ghosts: `lost` as above per session, `abandoned` the sessions of failed logins whose cache was put back, `overlapped`
the logins that had their cache removed under them, and `spoiled` the profiles which a crashed login, a logout beside a
login, a restore that failed, or a rename left with half a login. The next complete login ends that.

### TfState

A `Command` is a `tofu` below `meshstack buildingblock tfstate exec`, a `Process` an `exec` with its `Proxy`. A wrapper
may run several commands at once below one `exec`, so `proxyOf` is any function; `mode` is `--mode` and `--force`.

`stored` and `lock` are at meshStack, with an ID for every write and every lock. `mu` is the proxy's mutex. A write is
three requests, so `Proxy.write` is `Handle` (the mutex and the check for a run), `ReadStored` (`Store.Get`, `follows`
and the backup, which depends on nothing else) and `StoreBody` (`Put` or `Delete`); between them anything else may
happen. Reads, locks and unlocks are one request each, and one step while no write has the mutex. Every request may fail,
and a lock, an unlock and a write may take effect although their answer is lost: `failed` are the commands that got a
5xx, and tofu's `Retry` sends the same state again. A command may end or be killed at any time and leave its lock.

`RunLock`, `RunWrite`, `RunUnlock` are the building block's runner, on the same state and lock. `ShowLock`, `CheckHolder`
and `Release` are `force-unlock`, with the question in between. What tofu sends is any version at all, also an old copy
(`tofu state push`), something that is no state, or a deletion; the only thing that is expected of tofu is that a command
which locks reads the state before its first write.

Ghosts: `seen`, the writes that a command with a lock has read or sent; `checked`, the stored state that the proxy
read for a write and checked it against (a local of `Proxy.write`, forgotten with its answer); `writer`, who wrote the stored state; `opened`,
the commands whose lock force-unlock released; `backups`, which holds the writes rather than the files' names.

A command without a lock (`tofu -lock=false`, or `state push` from another machine) can be overtaken between the
check and the write by another process or the runner; nothing in the code can prevent that. `Overtaken` is that
exception in `WritesFollow` and `ReplacedIsBackedUp`: the stored state is no longer the one that `ReadStored` read, and
another process or the runner wrote it. What anyone wrote before that read is no exception, nor is a command below the
same `exec`, which is what the mutex is for.

### BuildingBlock

What the commands below share: `block` is the status meshStack reports (the action, the latest run and dry run, when a
run last failed to start), `runs` the runs, `asked` how many were asked for and `reacted` the last request meshStack has
reacted to. `IsRunning`, `RunFailed`, `IsWaitingForInput`, `ActionOfRun`, `StartFailedSince`, `RunChangedSince` and
`RunEnded` are the client's rules. The rest is meshStack as those rules, their comments and the commands expect it: it
answers a request before it reacts, works on one run at a time for all requests that came meanwhile, starts a run, or a
preflight run that makes a plan (`StartRun`), resumes one that got its input (`Resume`), or fails to start
(`FailToStart`), which a later build may clear (`ClearFailure`). A released definition version changes the action
without a run (`Release`).

### RunWait

`trigger-run` with and without `--wait`, and `wait`. `waitPc` goes from `idle` over `snapshot` (`wait --before` has read
the block, `TakeBefore`) and `reacting` (`Ask` has written; `AwaitReaction` reads until `RunChangedSince`) to `ending`
(`AwaitEnd` reads until `RunEnded`) and `done`. The minute for the reaction may end between any two reads
(`NoReaction`), and a person or a failed read stops the wait (`StopWaiting`). Ghosts: `overlapped`, that a request from
before the snapshot, an unsettled preflight run, an approval or an abort could show as a reaction, which no status tells
apart; `cleared`, that a failure to start went away while the command waited.

### RunAction

`approve-run` and `abort-run`: read the block, follow its link to the run and the run's link to its plan, show them, ask
(`confirm`), and post to the link (`Approve`, `Abort`, `Decline`), then read the block for the report. Between any two,
meshStack may plan again. The ghost `approvedPlan` is the plan that meshStack let each run use.

### FollowRun

`buildingblockrun logs --follow`: `ReadStatus`, `ReadLogs`, `Write`, repeated until the run has finished, a read is
refused, or five in a row fail. `Kept` is the part of a message that was written before, `Previous` the step that was
written at the same place, if it has the same name. The runner appends steps or puts them before others, and messages
grow or are replaced. Ghosts: `screen` (lines with their place), `repeated` (a line came again at its place) and
`rewritten` (the runner did something else than append).

`BlockCommands` composes the four. Who takes part is a scenario (`Scenarios`): one who waits beside one who approves or
aborts, an approval beside others who ask for runs, and one who follows. What meshStack does to the status alone is
left out where nobody waits.

### HttpCall, Listing, Download

`HttpCall` is one call: `Send`, `RoundTrip` with the decision to repeat and `Backoff`, `WaitOver`, then the body, which
may fall silent (`LoseBody`). meshStack is behind a gateway, so each answer is any status, with or without the request
having run; `ran` counts the runs. A duration has `Width` bits, and `Retry-After` values wrap as Go's multiplication
does.

`Listing` reads the pages of one listing, or merges those of the runs of all building blocks, newest first, while
objects are created and deleted. `until` is the time from which on objects are left out, `array` the JSON array on
stdout. An endpoint may ignore `until` (`takesUntil`, `client/raw.go:52`), or have an order of its own, as the versions
of building block definitions have (by their number, `client/raw.go:85`; `newestFirst` is false where that begins with
the oldest). A later `until`, as `eventlog list` may send (`cmd/eventlog/list.go:62`), leaves out as little as none
does. `atStart`, `created` and `deleted` are ghosts for what the list is compared with. `ListsNewest` claims order, no
object twice, and the newest objects only of a list that is `Steady`: `createdAt,desc`, and until heeded or no object
created meanwhile. At the other endpoints an object may come twice, as the comment in `client/raw.go:51` says; that no
complete list leaves out an object that was there at first is claimed of all of them, unless something was deleted.

`Download` is the API docs document in the configuration directory: commands ask for a newer one (`Stat`, `Receive`,
`Rename`, `RecordCheck`), wait 200 ms for it or longer if there is none (`GoOn`), and read and parse what is stored
(`ReadDocument`, `Parse`, which removes what does not parse). Any answer may be the page of a captive portal. A command
may be stopped anywhere.

### BrowserLogin, ProfileMenu, HeldLogs, Prompts

`BrowserLogin` is the loopback server of one login and the tabs a person has open on it. A tab shows the form, is
submitted (`Submit`, which records the level and ends the previous login if its level differs), redirects to the identity
provider, and comes back with a code or an error (`ReceiveRedirect`); the first result counts (`Await`), and `Exchange`
returns the level chosen last. `offline` is the level of the offline session, which Keycloak keeps per browser session.

`ProfileMenu` is the terminal UI of `meshstack profile`: list, form, deletion and logins as messages to one loop, with
the lookups of workspaces and ticks that are under way (`pending`), and with logins that release the profiles. Other
commands lock and store the profiles when nobody holds them. Ghosts: `writer`, `touched` (what the person changed since
the profiles were loaded) and `unguarded` (a key was taken while the list did not hold the profiles).

`HeldLogs` is `Hold` and `Release`: goroutines with a logger of before or of now, the goroutine that tells the UI, its
loop, and the five steps of `Release`. `journal` is what the log got.

`Prompts` is the questions of one command: a goroutine that reads lines ahead of them (`reader`), and selections that
read keys of the terminal instead. The program that draws a selection is bubbletea's, which is not under `src/`: it reads
the terminal ahead of the list in a goroutine of its own, and what the list has not handled when it ends is gone
(`DropReadAhead`, any number of the keys entered so far). So keys typed ahead of a selection's end are lost to the next
question; the ghost `dropped` has them, and `AnswersInOrder` excepts them and nothing else. Lines are never dropped.

### Resolving, AuthStatus, LoginChoice

`Resolving` goes from flag, environment and profile to the profile, endpoint and credential of the requests: `ProfileFor`
(for a URL), `NewSession` and `ResolveCredentials` are three reads of the configuration directory, between which others
edit profiles and log in. The ghost `editedSince` is the one gap the code has: the session's profile was edited between
its read and that of the credentials.

`AuthStatus` is `meshstack auth status`: the credential in use and the unused ones with what their token caches hold,
read one by one, beside logins that succeed, fail or are killed, logouts, and renewals of tokens. A token carries the
credential it was minted for.

`LoginChoice` is what a login chooses: profile, credential and workspace, from flags, answers and what is stored, with
every failure in between. The ghosts `questions` and `before` are what it asked and what was stored before.

### OpenApi, ApiDescription

`OpenApi` has the operators of the document (kinds and actions of the operations, selection by path, method and version,
media types) and the steps of `meshstack api`: `Negotiate` with what it sends, listings, and the components that are
printed with a selection. Segments and versions are numbers. `ApiDescription` adds the description of an operation: its
parameters with those of the path, and the fields of a body, whose schemas refer to each other and to themselves. What a
`$ref` leads to (`resolve`) is the end of the longest chain of components each of which refers to the next and is not
followed yet (`Chains`, `Followed`); there is no recursion in it, so that it can be reasoned about. A `$ref` that cannot
be followed is a value whose `ref` is left. `Picked` is what is at some places of a sequence, in its order, for the
literals of a path and for the parameters that a path has beside its operation. Literals of an action are a sequence; the
code joins them with hyphens, so that a segment with a hyphen may look like two, which is left out.

`SentAsOneVersion` ties what is sent to what is asked for by the headers, the body or the flag. It is sent as no version at
all only where the flag alone asks, or nothing does, and the request has an `Accept` of its own, the docs are not there
("sent unseen") or they offer no version. `PrintsAll` is about what the printed operations refer to (`printedRefs`) and
what that leads to. `FieldsOfAll` goes through schemas in schemas at any depth (`InlineOf`). `NewestDescribed` compares
what is described with every operation of the action and method (`LikeIt`); the one exception is below, under Findings.
`ListsWhatIsAsked` is of the code: with `--api-version` a listing also has the operations that offer no version at all,
although the help says that it lists only the operations of that version (`cmd/api/docs.go:40`).

### TofuExec

`tfstate exec` around the command that it runs: the check for runs, the backend override in the module, the server on a
loopback port, the command, requests in hand, the timer that warns of a long lock, signals that the terminal or `exec`
delivers, and what `exec` ends with. What the requests do at meshStack is `TfState`.

`Commands` composes the modules from `HttpCall` on. They share no state, so `part` picks the one that happens, and the
others stay as they began; the composition is only one state space for one set of properties.

## Runs

| run | instance | shows |
|---|---|---|
| `FileLock` | two calls of one process, one of another, any directory | exclusion, and that it is an `RWLock` |
| `FileLockShared` | the same, directory writable or refused; fairness | waits end; no call stays stuck |
| `TokenCache` | two goroutines of one process, one of another; no workspace, one with and one without a role; two calls each, one invalid token | the latest refresh token survives, none is replayed, refreshes are shared, requests carry a fitting token |
| `TokenCacheLiveness` | two processes with one goroutine; fairness | every request ends |
| `ProfileLogin` | two processes, two profiles, two levels, three commands, two logins, two rotations | failed logins leave nothing, stored ones work |
| `RenamedProfile` | one process, a login and a rename | a finding, see below |
| `TfState` | two commands of two processes, or of one with `--force` or without, one run, one force-unlock, two writes, two locks | unforced writes follow, replaced states are backed up, who locks overwrites nothing unseen, a run keeps its lock |
| `RetriedWrite` | one command alone | a finding, see below |
| `BlockCommands` | wait and act, two requests and three runs; act, two requests and four runs; follow, one request and two runs; two steps, four messages | a reaction is to this request, an end is a success, a plan is approved as shown, the last lines are written and none twice, following ends |
| `FollowPending` | the last of these | a finding, see below |
| `Commands` | thirteen parts, of which one happens | what each part promises: requests that run once, complete lists, whole documents, the level of a login, profiles nobody stores over, logs and answers in order, credentials where they belong, a true status, a login as chosen, requests as documented, an `exec` that leaves nothing |
| `UnlockedKeys` | the profile list, with every key | a finding, see below |

Why the bounds suffice: three callers give a reader and a writer of one process beside a rival of another, every
combination that `MutexFree` and `FlockFree` distinguish. Nothing bounds `FileLock` but the number of callers: its
states are finite and calls start over for ever. A token cache needs two goroutines to share memory and a third one to
change the file; two calls each let a process load an outdated cache and come back, one invalid token makes a 401 or an
expiry happen in between. In `ProfileLogin` three commands on two processes reach a login beside a command of the
previous login after a first login stored it, two logins are a previous and a new one, and a second rotation tells a
token replayed from one that is current. In `TfState` a lost update takes two commands and two writes, and taking a lock
from its holder two locks; one of its processes has `--force` only where it serves both, since beside another process
that flag only removes checks (the proofs have every combination). Versions are two serials of one lineage and something
that is no state, which covers every outcome of `follows` (another lineage is refused as the missing one is). Bounds
stand only in guards and are named: `MaxCalls`, `MaxInvalid`, `MaxCommands`, `MaxLogins`, `MaxRotations`, `MaxWrites`,
`MaxLocks`, `MaxRuns`, `MaxUnlocks`. Deadlock is checked for the file lock and the tofu state; the other models run out
of requests or commands, so there it is off.

A building block needs a run from before, one for each of two requests and a plan that is made again: four runs. Two
updates of the logs replace a message after it grew, in every order with two steps. In `Commands`, durations have 8 bits
with a second of 10, so that a `Retry-After` of 11 is more than the limit, 13 wraps to a negative wait, 60 to a positive
one, and -3 is negative. Two sources with three times and pages of one object, or of two by the limit, have a third page
after an object was created or deleted between the first two; the proofs have pages of any size. Two readers of
the documents, two versions and two days have one command replace what another reads, and a check that is due again; one
stop meets every step. Two tabs with two levels are the smallest login that can mix levels. Two forms and one login let
a lookup of a closed form arrive in the next, and a key come before and after the login. Two records of two goroutines,
one the UI's loop, meet each step of `Release`; three lines and three questions leave a line read ahead for the next
one. Two profiles and one edit, and one action of others beside a status (which is all the steps of a login), are the
least that changes between two reads. Documents have three operations, with two templates of one path and one above
them; three components refer to each other and themselves, with schemas that are, hold and list them, and objects in
arrays in objects, as `SchemaAssumption` asks. Two requests and one signal meet each step of an `exec`. The bounds are
`MaxUpdates`, `MaxRetries`, `MaxTime`, `MaxVersion`, `MaxDay`, `MaxStops`, `MaxForms`, `MaxLoginKeys`, `MaxRecords`,
`MaxLines`, `MaxQuestions`, `MaxEdits`, `MaxOthers`, `MaxServed` and `MaxSignals`.

Symmetry is used where processes, goroutines, names and levels are interchangeable, only for safety.

### Fairness

`WF_vars(Step(c))` of every caller: a goroutine that can run does, and guarded code returns ("The token cache relies on
every holder releasing quickly"). Starting a call, expiry, death and what the identity provider does are not fair.
Neither lock is fair, so a single waiter may starve: `NeverStuck` promises that somebody gets on, and `EveryRequestEnds`
holds because requests are bounded.

`BlockCommands`: reads go on until the command ends (`WaitFairness`, `FollowFairness`: each is one loop that only waits
for its next read), and meshStack begins and finishes the runs it has (`MeshStackFairness`). Requests for runs, failures
and Ctrl-C are not fair. `FollowEnds` needs that only of the follow itself: from a finished run on, each poll ends it or
fails.

`Commands`: commands that read the API docs go on and are run again (`DownloadFairness`). It is of some command, not of
each, and neither the server nor those who stop commands are fair. `PageGoes` holds under it.

### Findings

`RenamedProfile`: `moveCredentialsTo` stores the credential under the new name and removes the token caches, with the
comment that "new tokens are minted on next use" (`internal/profile/credentials.go:79`). For an API key that is so. A
browser login's only means to mint a token is the refresh token in the cache that goes, so the renamed profile answers
"no refresh token available" until the next login. The test (`cmd/profile/store_test.go:85`) uses a manual credential.

`RetriedWrite`: `Proxy.fail` answers 5xx where meshStack failed, because tofu's http backend repeats such a request:
"a meshStack that failed once must not fail a tofu run that succeeded" (`internal/tfstate/proxy.go:363`). If meshStack
stored the state and only its answer was lost, the repeated state has the serial of the stored one, which is itself,
and `follows` refuses it with a 409 that "it misses a write". tofu does not repeat a 409, so the run fails, although its
state is stored. That an equal serial is refused is intended for other states (`internal/tfstate/proxy_test.go:165`);
the test does not send a state again whose write has failed.

`FollowPending`: `logs --follow` knows the statuses `IN_PROGRESS`, `SUCCEEDED` and `FAILED`
(`cmd/buildingblockrun/logs.go:71`), so a run that is `PENDING` ends it at once with the error that its status is not
known, although the client counts such a run as running (`client/building_block_run.go:19`) and the flag says "until the
run has finished" (`cmd/buildingblockrun/logs.go:61`).

`UnlockedKeys`: the profile list releases the profiles for a login and takes keys until it begins, and again between its
end and its message. One that stores the profiles stores what was loaded before, over what others have stored since,
which the lock promises to prevent (`internal/profile/profiles.go:34`). `OnlyItsChange` is the same property with these
keys left out.

Three more are modelled as the code has them and have no run. A login whose credentials cannot be stored still makes its
profile the current one (`internal/auth/login.go:88`), where the comment above says that a login that fails stores
nothing; `LoginAsChosen` excepts it. Over one action, `mostLiteral` also drops templates that do not match one path,
contrary to the comment at `client/openapi/spec.go:243`. So an operation of a newer version whose template has a
parameter where an older one of the action has a literal is not described, although the older one is no longer "the
latest version of the kind" (`cmd/api/docs.go:42`); `NewestDescribed` excepts the templates that are dropped so, and no
other. And a listing with `--api-version` has the operations without a version too (`cmd/api/docs.go:40`).

## Proofs

A run checks its properties on one small instance; the theorems state them for every value of the constants, so for any
number of processes, goroutines, names, steps, records and requests, and whatever the bounds are. They are in the modules
`*Proofs`, each of which extends the module it is about. A proof has the same shape everywhere: an invariant that is
inductive, a lemma that the initial states have it, one that every step keeps it (with a step of the proof for each
action, and under it one for each part that the action disturbs), and the property from it.

Assumptions are the named ASSUMEs of the modules, which TLC evaluates in every run:

- calls belong to a process (`ProcessOfAssumption`), and there are finitely many of them (`CallerAssumption`), which
  counting those who hold a mutex needs;
- what stands for nothing is nothing else: `NoToken`, `NoLevel`, `NoTab`, `NoProfile`, `NotGiven`, `NoPlace`, and `None`,
  which is no process, name, token, state or lock;
- bounds are numbers; a building block may have at least the run it begins with (`BlockAssumption`);
- workspaces with a role are workspaces; the server's `full` is an access level; an `exec`'s setup gives each command
  its process and each process its mode (`SetupsAssumption`); serials are numbers;
- a run has finitely many steps by name, messages are sequences of lines, and the empty one is a message
  (`FollowAssumption`);
- no login begins with a credential that is logged in already (`LoginAssumption`), since the model's `loggedIn` is what
  this login has stored;
- sources of a listing are numbered from 1 (`ListingAssumption`), the pages are of at least one object, and the clock goes
  from 1 on; the profile list may open a form (`MenuAssumption`); a wait has a positive bound, and a duration a bit
  (`HttpAssumption`);
- a document is a sequence of operations, with the methods that the code reads (`Methods`), whose templates are
  sequences of segments, and whose media types are finitely many (`DocumentAssumption`); there are finitely many
  components (`ComponentAssumption`), and parameters come in lists (`ParameterAssumption`);
- what is in a schema is a schema, an array has one item, and there is nothing beside a `$ref` and no property beside an
  item (`SchemaAssumption`). `fields` reads nothing beside them either (`client/openapi/doc.go:145`), so that this is a
  normal form of what it reads and excludes no document.

**FileLock.** `IInv` is `TypeOK`, `MutexAccounting`, `FlockWithinHold`, `FlockExclusion` and `HoldHasHandle`. Exclusion
alone is not inductive: a step into `held` needs to know that the kernel granted what the call asked for
(`FlockExclusion`), that who is in `held` has a handle which is open or ignored (`HoldHasHandle`), and that the count of
the mutex means what it says (`MutexAccounting`, where finite sets and their cardinality come in). From it follow
`MutexIsAccounted`, `FileLockedWhileHeld`, `MutuallyExclusive`, `FallsBackOnlyThere` and `ImplementsRWLock`: initial
states map to initial states, a step into or out of `held` to `Acquire` or `Release`, a death to `Drop`, and everything
else to a stutter.

**TokenCache.** `LockInv` says which lock each step holds and that a writer is alone. `RotationInv` says where the latest
refresh token is while a caller modifies the cache (`Current`): in the file, then in memory, then in the answer, then in
memory, then in the file again. `AnswerInv` says that an answer is there only after the request. `NothingReplayed`,
`FileStaysCurrent` and `RefreshesAreShared` follow. `SentTokensFit` rests on `FitInv`: what is filed for a workspace, in
the file or any memory, claims that workspace and was minted, and what a call has in hand was minted for its request, or
is newer than the token that was rejected. What a request carries depends on what every other goroutine has filed, so
that this is of all caches at once.

**ProfileLogin.** `LoginTypes` needs `PlaceInv`, which adds to the types what each process has at each of its steps: the
locks, the name, the level, the tokens in memory. `FailedLoginIsGone` needs `SessionInv`: a session that a cache file
has, or who is modifying it, is one that was started and did not fail (`CarriedInv`, `StartedInv`), and is below one name
only (`OneNameInv`); nobody has the session that a login brings from the browser before it is written (`FreshInv`), and
from then on nobody else has it, or the one it replaced (`AloneInv`). So when a failed login puts the previous cache back
and abandons its session, no other file has a token of that.

**Stored logins** (the second half of `ProfileLoginProofs`). That a stored login works is a statement on one file, but
what can break it is any process with an older copy. `HoldInv` says that the tokens of a session are for one profile and
one level wherever they are. `WorkInv` says what every process has in relation to the file: who is about to write over
it brings the current token (`BringInv`), who modifies it has what it has or newer (`ModifyInv`), the file or one who
modifies it has the latest rotation for as long as its login stands (`StandInv`), what a login would put back works as
well as what it found (`BackInv`), and a login finds the stored one and ends its session where it changes the identity
(`FindInv`). Each needs the others, and `PlaceInv` and `SessionInv`; all of them together are inductive.

**TfState.** `StateInv` is `TypeOK` with `LockInv` (IDs of locks are of one holder each, and a command that has the lock
has its ID), `TurnInv` (who writes holds the mutex of its proxy), `CheckedInv` (between `ReadStored` and `StoreBody`
the write follows the state that was read, which is backed up, and it is still the stored one or the command has been
overtaken), `KnowInv` (a command with the lock has seen what is
stored) and `RunInv` (the lock that force-unlock has shown belongs to a run that has ended, or is not the one that is
held). The lemma the others rest on is `Beside`: what any step may do to the state and the lock of a command that does
not take it. `WritesFollow`, `ReplacedIsBackedUp`, `LockedWritesKnow` and `RunKeepsLock` are action properties, each
proved of every step from `StateInv`, with the same `Overtaken` as in the runs.

**BlockCommands.** `BlockInv` is about meshStack alone: the status names the run that is unfinished and the plan beside
it, only one is at work, and it answers the last request. `StatusGoesOn` and `RunsGoOn` say what every step may do to
status and runs (names only get newer, a finished run stays). `ActInv` gives `OnlyTheShownPlan`. `WaitInv` says what a
status says at each place of a wait: nothing that could be taken for a reaction until there is one (`NotChanged`), nothing
older than what was seen (`NoNewer`), and the run that took the request on, once one has (`AnswerNamed`). `EndIsSuccess`
and `ReactionIsMine` follow, with the exceptions `overlapped` and `cleared` exactly as the runs state them.

**FollowRun.** `FollowInv` says that step names are distinct in what the runner has, what was fetched and what was
written, without which `Previous` finds another step's text. `ShownInv` (what was written is on the screen, and what is
fetched after the end is all there will be) gives `AllIsShown`. `GrowInv` (as long as the runner only appends, what was
written is a beginning of what was fetched, and that of what there is, and the screen has lines of what was written only)
gives `NothingTwice`. `KeptIsCommon` and `KeptOfGrown` are the facts on `Kept`, for messages of any length. With the types
of all four modules, `BlockTypes` is the type invariant of the composition.

**Commands.** `PartSteps` splits a step of the composition: a module takes a step of its own or stays as it is. Each
theorem then has an invariant of one module:

- `UnmarkedRunsOnce`: a call that is not marked waits for nothing and has not run before it was sent (`SentOnce`);
- `DocsAreReadWhole`: only the temporary file ever has half a document (`WholeInv`);
- `LevelStaysKept`: as long as the previous session lives, every tab past the revocation, and the level chosen last, are
  of its level (`LevelInv`);
- `AnswersKeepOrder`: each place that was read has one question, or a selection dropped it, or the reader holds it
  (`OrderInv`);
- `CredentialsStayHome`: what is stored is for the endpoint of its profile, or there is none; a profile that is being
  edited has none; and a session's profile is as it was read until it is edited (`ForeignInv`);
- `StatusStaysTrue`: the tokens in a cache are of the credential the cache says it is of, even between the two files of a
  login (`AuthDirInv`), and what was told so far came from one such cache (`ToldInv`);
- `ExecAlwaysSettles`: what is left of the command, the requests, the timer, the override and the interrupts at each
  place of `exec` (`PlaceInv`, `OverrideInv`, `InterruptInv`);
- `LoginGoesAsChosen`: what is settled at each place of a login, and nothing stored before (`ChoiceInv`);
- `MenuChangesItsOwn`, an action property: as long as the list holds the profiles, what it has in memory differs from
  what is stored only by what its person has touched (`HoldsWhatIsStored`);
- `NoRecordIsLost`: what a goroutine has logged is held or in the log, neither has a record twice, and of those held the
  log has exactly the flushed ones (`HeldInv`);
- `NewestAreListed`: in a list that is `Steady`, what is listed is newer than what is left, which is the page that was
  read and what the pages after it will have (`Left`, `InOrder`); as long as nothing is deleted, what was there at first
  is listed or left, and nothing else is (`Present`); nothing is left after a last page (`PagesInv`), and the total is
  what the first page was of (`Counted`). Pages are slices of `NewestFirst`. `Positions`, `EachPosition` and
  `AtItsPosition` say that an object's position is the number of newer ones, that each position is one object's, and
  that `NewestFirst` has it there; objects may be created between any two pages. For the lists that are not steady,
  `Kept` says that what was there at first is listed, on the page that was read, or at a place that no page so far has
  had (`PlaceIn`, `AtItsPlace`, `PageFrom`), and `NoneMovesAhead` that what is created moves none to a place before it.
- `TypesAreKept`, the type invariant of the composition, has a section for each module. Most follows from the guards;
  what does not is: a wait is within its limits whatever a `Retry-After` wraps to, and whatever power of two the backoff
  has come to (`CallInv`; `Powers` has that a power of two is a positive number, since it counts the subsets of a set);
  a listing reads no page past its objects; an open form of the profile list has exactly one lookup or tick under way,
  and forms that are closed may have left more; and a chain of `$ref`s is no longer than there are components.

`ApiDocsProofs` extends it with what `meshstack api` and `meshstack api-docs` do with a document. `DocsAreAlwaysFollowed`
puts nine theorems together:

- `RequestsKeepTheirVersion` and `ListingsAreAsAsked`: `SpecInv` is what `WithKinds` leaves of any document. `Below` is
  a strict order of literals (`BelowOrders`), so that of finitely many templates one is most literal, a version is
  offered whenever `Select` looks for the newest, and what is narrowed to a version has it (`SelectedLatest`);
- `NewestVersionsAreDescribed`: of the most literal templates of an action, those of its newest version are kept, and
  there is one (`LatestIs`, `VersionsAre`); every other template is below those, or has the literals of one;
- `ActionsTellMethods`: an action is a word or literals of the path below the kind's (`ActionIs`, with `KindPathIs` and
  `OwnerIs`), the words tell methods apart (`WordsAre`), and so an action with a word behind it is another's only where
  that has the word in its path. The property excepts that, and PUT and PATCH; the code excludes neither;
- `PrintsAreWhole`: what the printed operations and what is printed refer to is printed or still to be followed, and
  neither is outside of a set that is closed under references (`PrintInv`);
- `BodiesAreReadToTheirEnd` (in `CommandsProofs`): the `$ref`s around what is read are distinct components
  (`WorkInv`, `FollowedIs`);
- `FieldsAreSaidOnce`: no path that is still to be read is a beginning of another one (`PathsApart`), and none of a
  beginning of one that was read (`Unread`);
- `BodiesAreDescribedInFull`: there is a set of components that were read whole, or are being read, outside of which
  nothing that they refer to is except through what is still to be read (`Covers`, `Pending`). When nothing is left to
  be read, it is closed and has all that the body leads to. The set is the witness that a recursive definition would
  have computed;
- `ParametersAreToldOnce`: the operation's parameters come after those of the path that it does not have
  (`ParameterInv`), which `Picked` has once each (`PickedIs`). That two parameters have different names is the
  property's condition on each of the two lists, as OpenAPI demands it.

Every invariant and action property of the passing runs is stated by a theorem. Only checked by TLC is liveness
(`GivesUp`, `NeverStuck`, `EveryRequestEnds`, `FollowEnds`, `PageGoes`), which is out of the prover's reach, with what
depends on `ENABLED`; and that the runs' instances satisfy the assumptions.

`MutexIsAccounted`, `FileLockedWhileHeld`, `FallsBackOnlyThere` and `StatusNamesRuns` are the other way round: they are
proved, and the runs check what follows from them.

What the proofs found was wrong in the models: `LoginChoice` and `ProfileLogin` had `CASE`s whose arms overlapped, so
that TLC took the first where the definition left the choice open; a login could begin with a credential that it was
about to store; a building block could have no run at all; and `None` might have been a state. A listing that is not
merged could begin without a source to read. Documents had methods for which `MethodAction` had no word. Two properties
said more than the code does, beyond the instances of the runs, and now say what they are true of: `MethodsToldApart`
did not except a path that has the word of a method itself (below a kind, `POST` and `DELETE` of `.../logs` have the
actions `logs-create` and `logs-delete`, and `DELETE` of `.../logs/create` has `logs-create` too), and `ParametersOnce`
took it that names in one list are distinct, which the code takes as well. Definitions with recursive operators or
`SelectSeq` have been replaced by ones with the same value that can be reasoned about (`Chains`, `Picked`). No other
property of the code turned out to be false.

## Abstractions

- The identity provider and meshStack are external, modelled by what the code expects of them. Revoking any refresh
  token of a session ends the session, at once. Keycloak's rule of one offline session per browser session, whose level
  the later logins get too, is in `BrowserLogin` and not in `ProfileLogin`.
- `MarshalTo` writes a temporary file and renames it, so a write is one step that happens or fails.
- In `TokenCache` and `ProfileLogin` credentials are browser logins: API keys and manual tokens have no refresh token, and
  so none of the hazards there. `AuthStatus`, `LoginChoice` and `Resolving` have all kinds.
- Cache files that cannot be decoded, or are of another version, count as missing in the code; they are left out.
- The request that `existenceOf` sends before a token for a workspace is asked for is left out.
- In `ProfileLogin` a browser login chooses its level once. That the form may be submitted again is `BrowserLogin`.
- Removing files does not fail, and the profiles are stored with the removal of the last file.
- meshStack refuses a write without the ID of the lock it holds (`internal/tfstate/store.go:45`), and accepts any where
  it holds none. A request that takes effect only after the CLI has given up on it is not modelled.
- In `TfState`, what a command without a lock has read makes no difference, since tofu may send any state; `exec`'s
  check for a run before it starts tofu only refuses, and each write repeats it. The requests for the API that a
  proxy passes on and its password do not touch the state; the warning of a long lock is in `TofuExec`.
- A list leaves out what is newer than its start by the client's clock (`client/raw.go:54`); the model has one clock.
- Documents of the API are numbered by their time. That a slow download may put an older document over a newer one is
  possible in the model as in the code, and no property forbids it: the next check replaces it.
- A Ctrl-C at a terminal reaches `exec` and its command together. Whether `exec` then passes it on depends on stdin being
  the terminal, as in the code.
- The reaction, follow and poll intervals are any time. Reading a building block and concluding from it is one step.

## Not modelled

- The check for a release (`internal/auth/version_check.go`) writes the time of the last check and warns; nothing depends
  on it.
- `retryableBody` (`internal/http/retry.go`) is never used: every body of the client has `GetBody`.
- `DeletionSuccessful` (`client/building_block_v2.go`) is used by no command.
- Object types and their conversions (most of `client/`), `auth token`, `tfstate show`, `profile show` and `profile list`
  are reads and conversions without a state of their own.
- Tables, help, markdown, wording and layout; the parsing of flags and documents; build, installation and demo. What they
  could get wrong is not a matter of steps.

`components` of `PROJECT.json` says of each part what is left out.

## Plan

What the program does concurrently is modelled, the runs pass, and every invariant and action property that they check
is a theorem. What could come next, in the order of what it would say about the program:

1. More refinements beside `ImplementsRWLock`: a wait for a run as a request that meshStack answers once, the held logs
   as one log, and the proxy's three requests as one write. Their properties are proved directly, so this would tell it
   in other words.
2. A login whose credentials cannot be stored, should the code come to treat that as a failed one: `LoginAsChosen` would
   lose its exception.
3. The names in actions with their hyphens, and schemas with more than `properties` and `items` (`allOf` and the like), as
   soon as the code reads those.
