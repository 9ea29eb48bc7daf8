# Verification of f3-redirect

TLA+ models of the redirect service of this repository, the TLC runs that check
them on small instances, and TLAPS proofs of what matters most, for every value
of the constants. `PROJECT.json` maps each definition to the lines it
translates; this file explains the system, the models, and what is shown.

## 1. The system

Tenants point a custom domain at the service; a Go server (`redirectd`) answers
with a redirect and obtains a TLS certificate on the first handshake. The
registered redirects live in one JSON object in a GCS bucket. A web tier
(Next.js on Cloud Run, Postgres) and an admin CLI write that object, the servers
read it. Certificates and locks are objects of the same bucket.

```
 users -> POST/PUT/DELETE -> domain table --export--> +--------+
                  |                                   | config | --Reload--> redirectd -> redirects
 operators -> f3redirect add/remove --Load/Save-----> | object |               | Decide
                  |                                   +--------+               v
                  +-- DELETE: clean-up ------------> certs/...  <-- Store -- certmagic
                                                     locks/...  <-- Lock/Unlock --+
```

### Components, their state and operations

| Component | State | Operations | Hard behaviour | What makes it correct |
|---|---|---|---|---|
| Certificate lock (`internal/certstore/gcs.go`) | one object per name: generation, creation time | `Lock`, `Unlock` | several instances, skewed clocks, stealing a stale lock, crash of a holder, lost replies | one holder at a time; a holder keeps its object; an orphan does not block for ever |
| Certificate storage (same file) | object tree under `certs/` | `Store`, `Load`, `Delete`, `Exists`, `List`, `Stat` | a directory delete against concurrent stores, partial failure | a delete removes what was there, nothing else; `List` and `Exists` agree |
| Domain registry (`web/src/app/api/domains`) | `domain` table, unique host | `GET`, `POST`, `PUT`, `DELETE` | concurrent handlers on several instances, no transaction, an await between check and act, failures half-way | one claim per host, never transferred; a success is published |
| Export and clean-up (`web/src/lib/gcs-export.ts`) | config object, `certs/` | `exportConfigToGCS`, `deleteCertsForHost` | an old snapshot saved last; deletion of the certificate of a host claimed again | object = table at rest; only the removed host's files go |
| Admin CLI (`cmd/f3redirect`) | config object | `list`, `add`, `remove`, `validate`, `dns` | load, edit and save unprotected; the other writer | an edit touches its own host; a refusal has its cause in the command or the config |
| Config model (`internal/mappings`, `web/src/lib/domains.ts`) | none | `NormalizeHost`, `Validate`, `Resolve`, `Upsert`, `Remove`, `IsApex`, `registerSchema` | normal form written twice, `www.` inheritance | one target per host; what is registered is served under the name typed |
| Config stores (`filestore.go`, `gcsstore.go`) | file or object | `Load`, `Save` | unconditional writes; rename; the web tier's write in place | only valid configs are written; a save is whole or nothing |
| Hot-reloading view (`internal/redirect/live.go`) | snapshot per process | `NewLive`, `Reload`, `Watch` | object written between read and store, failed loads, restarts | never back, never empty, catches up |
| Redirect server (`cmd/redirectd`, `internal/server`, `redirect.go`) | listeners, certificate cache | start, Decide, dispatch, shutdown | stale snapshot at the gate | a certificate only for a registered host |
| DNS instructions (`dns.go`, `web/src/lib/domains.ts`) | none | `DNSInstructions`, `dnsInstructions` | two implementations, two suffix lists | same records for the same host |
| Dashboard (`web/src/components`) | client-side list, open editors, disabled buttons | sign in and out, render, add, edit, save, remove | answers out of order or lost, other tabs and devices, a session that changes hands | the list is the account's rows; no button stays dead |
| Authentication, infrastructure | sessions; declarative resources | library and scripts | - | - |

Interactions: web tier and CLI each overwrite the whole config object and know
nothing of each other; a server learns of a write at its next reload only;
`Decide` consults the server's snapshot; the clean-up of a DELETE removes what
certmagic stored. Nothing synchronises them but the unique index and the
generation precondition of `Lock`.

## 2. Modules

| Module | Models | Code |
|---|---|---|
| `CertLock` | `Lock` and `Unlock` for one name | `gcs.go` |
| `CertLockProofs` | types, mutual exclusion, the lease | |
| `Claims` | abstract: who owns which host | what the registry promises |
| `Registry` | POST, PUT, DELETE, export and clean-up around the table | `route.ts`, `[id]/route.ts`, `gcs-export.ts`, `schema.ts` |
| `RegistryProofs` | types, uniqueness, repair, clean-up, implementation of `Claims` | |
| `Live` | start, reload loop and stop of every server | `live.go`, `main.go`, `GCSStore.Load` |
| `Redirectd` | a process from start to exit: loads, listeners, signals, shutdown; extends `Live` | `main.go` (`run`), `live.go` |
| `RedirectdProofs` | of `Live`: types, never back; of the process: never back, serves with a config, stops gracefully | |
| `Cli` | the `add` and `remove` commands | `cmd/f3redirect/main.go`, `mappings.go`, `GCSStore.Save` |
| `FileStore` | the commands on the bucket or on a local file, beside exports to that file; extends `Cli` | `filestore.go`, `gcs-export.ts` |
| `FileStoreProofs` | of `Cli`: types, an edit touches its own host, when one is refused; of the stores: implement `Cli`, a save is whole or nothing | |
| `Service` | `Registry`, `Cli` and `Live` around one object, with the Decide gate | composition |
| `ServiceProofs` | who may take a registered redirect down | |
| `CertStorage` | `Store`, `Delete`, `Exists`, `List` and the clean-up over the object tree | `gcs.go`, `gcs-export.ts` |
| `CertStorageProofs` | types, complete successes, own deletions, honest "missing" | |
| `Mappings` | the config model on lists, the saved order, registration and export, DNS records of both tiers | `mappings.go`, `store.go`, `dns.go`, `domains.ts` |
| `MappingsProofs` | types, edits of lists as edits of a table, the sort, agreement of the tiers | |
| `Dashboard` | a browser tab: sign-in, the list, its buttons, answers | `Dashboard.tsx`, `AuthForm.tsx`, `dashboard/page.tsx`, the handlers as one step each |
| `DashboardProofs` | types, the page's own changes | |
| `MC*` | the instances for TLC | |

### CertLock
One action per bucket request, so callers interleave between any two requests.
`gen` is the generation of the lock object (`None`: absent), `age` the time since
`attrs.Created`. `pc` gives the place in `Lock`'s loop: `create` (the
`DoesNotExist` write), `attrs`, `judge` (compare with `lockTTL`), `steal` (delete
with `GenerationMatch`), `wait` (the two seconds), `held`. `seen` is the
generation read. `mine` and `heldFor` are history: what the caller created and
for how long it has held it. The code remembers neither, which is why `Unlock`
deletes whatever object is there. `CreateUnacknowledged` is a create whose reply
is lost: the storage client retries and meets its own object, or the error is
returned; the object stays either way. `Elapsed` is `time.Since` on a clock that
differs from the bucket's by at most `MaxSkew`. The caller, certmagic, is
external: it may call, cancel and unlock at any time, and holds for at most
`MaxHold` (the guard of `Tick`).

Abstractions: an age above `MaxAge` is stale for every clock, so ages saturate
there; a generation nobody remembers may be used again; the separation of lock
names (`/` replaced by `_`) is left out.

### Registry and Claims
A request slot `r` awaits, in `phase[r]`, its next query or bucket request:
`claim`, `insert`, `update`, `delete` on the table, `select` and `save` of the
export, `list` and `collect` of the clean-up. `job` is its session and parsed
input, `body` the rows it read for the export, `reply` the answer given by the
last step. An insert refused by the unique index and one that failed otherwise
are both answered 409, as in the `catch` of POST. `Abort` is an error outside a
`try` block, or a killed instance, with the query in flight applied or not; the
failures of the clean-up are swallowed as in the code. `overlap` is history:
requests that shared their time with another. `IssueCert` is external (any host
may get a certificate at any time; `Service` restricts it by the gate).

Abstractions: hosts and destinations are accepted and normalized ones; the
config is a set of mappings (its order is layout); a host's certificate files
are one unit; answers that change nothing (401, 400, GET) and the
development-only `EXPORT_LOCAL_PATH` (see `FileStore`) are left out. Replies are not state a later
step depends on; they are there for the properties.

`Claims` has no requests or rows: a host is registered if free, retargeted or
released. `ImplementsClaims` maps each row to a claim; every step of `Registry`
is a step of `Claims` or a stutter.

### Live
`Contents` and `Newer` abstract the object: `Newer(v, w)` says v may be written
after w. `run` is the process's state, `got` a config read and not yet stored:
`Load` and `Install` are separate steps because the object may be written
between them. A failed load ends a process that has no snapshot (`NewLive`) and
changes nothing otherwise (`Reload`). `Stop` is any end of the process.

### Redirectd
Extends `Live` by what else a process does. `main` is where `run` is: the first
load, the launch (TLS stack, handler, admin proxy), the `select`, the shutdown of
HTTPS, then of HTTP. Each action that loads a config is the one of `Live` with
its effect on the process; every end of `run` is `Live`'s `Stop` (`End`), with the
exit it has (`exit`). `listener` and `errCh` are the two goroutines and what they
have reported; `calls` has at most one request under way per server, of any
length; `late` is the ten-second context that both shutdowns share. A signal
cancels the loads' context: a load that would hang returns, a first load ends the
process. `interval` is `RELOAD_INTERVAL`, as `parseDur` lets it through.
Since every step is one of `Live` or none of its business by the way it is
written, that a process is a server of `Live` is a lemma of the proofs and no
property. Left out: what a request is answered (`Service` has the gate, `Mappings` the lookup),
handshakes, hijacked connections.

### Cli
`Add` and `Remove` load the object and edit it in one step (the load is the only
shared read); `Save` validates and writes it unconditionally later. No `Load`
validates, so what is loaded may be at fault in three ways: a hand has written a host
twice, in two spellings (`Texts` are the spellings, `NormalizeHost` their normal
form), or one without a dot (`Dotless`), and the web tier writes targets that
`Validate` refuses (`Loose`), such as `http:example.org`, which JavaScript's `URL`
repairs and Go's `url.Parse` gives no host. `Seeds` are the hand-written configs.
A config is a set, in which the mappings of a host are told apart by their
spellings; `Upsert` therefore keeps the spellings it rewrites in the code, which
nothing here reads but through `NormalizeHost`. A command names its host by the normal
form. Hosts typed with a dot before a port, whose normal form is not its own
normal form, are in `Mappings` only. `overtaken` is history: commands whose load the
object has changed since. The listing commands and the printing change nothing.

### FileStore
`local` says which store `storageFlags` chose. On the bucket the steps are `Cli`'s.
On a file, `Save` validates and fills a temporary file (`WriteTemp`, `CloseTemp`,
the place in `temp`), then renames it; it may fail or be killed in between.
`content` is what a `Load` of the file meets: an absent or empty one is an empty
config (`store.go`), a torn one does not parse. The web tier with
`EXPORT_LOCAL_PATH` writes in place: `writing` are the exports that have emptied
the file and are filling it, in steps that a `Load` may come between; `adrift`
those whose file a rename has replaced, so that they write to a file nobody can
open any more. `spoilt` is history: exports wrote beside each other or one ended
half-way, which may leave a torn file for good. `ImplementsCli` is the refinement
(identity mapping): whatever happens to the file, commands see what `Cli` lets the
web tier write, and a save is one step or none. Both writers of the file are
processes that may die; a crash of the machine, which may lose a file's data, is
left out.

### Service
Instances of the three modules share `object`; hosts are normalized ones with a dot
(`Itself` is their normal form). Contents of `Live` are here any
config in any order. `Handshake` is the gate: a host that resolves in a server's
snapshot, through its own mapping or that of the host without `www.`, and has no
certificate, gets one. The admin host's exemption is left out (its certificate
is never cleaned up).

### CertStorage
An object is the position of its name in the bucket's listing order; names are
sequences of tokens with the slash as a token, so that "a prefix and a slash"
(`Under`), "a whole segment" (`OfHost`) and a mere prefix are told apart. A call
goes through its requests: the key itself (`leaf`), pages of a listing (`list`),
the deletes of a page (`walk`). A page is what is ahead of the cursor up to any
object, so every page size is covered. `Delete` deletes a page in order and
stops at an error; the clean-up reads all pages first, then deletes in any order
and swallows errors. No name is an object and a directory at once
(`DirectoryAssumption`): certmagic's keys are files in directories of their own;
otherwise `Delete` would stop at the object and leave the directory. `page` accumulates for `List` and the clean-up. `kept` is
history: what was there at every moment of the call; `failed` marks calls that
swallowed a failure. The contents of objects, `Load` and `Stat` are left out (one
request each, nothing changed). That a non-recursive `List` cuts names at the
next slash is layout of its answer.

### Mappings
`config` is the list as saved, to begin with any that a hand has written (`Seeds`), valid
or not. A host is a name (labels) and what follows it: nothing,
a dot, a port, or both; `NormalizeHost` strips a dot that ends the text, then the
port, and so keeps the dot of the fourth spelling: such a host is saved with its dot
and, read again, is the host without one. The web tier's `normalizeHost` is
a definition of its own; `HOSTNAME_RE` then refuses what still has a dot, or is
not qualified. `exportConfigToGCS` replaces the list by any table of registered
hosts; its sort and Go's give the same list, as a table's hosts differ. `Upsert`, `Without`, `Lookup`, `Resolve`, `Validate` and
the insertion sort (`Place`, `Marshal`) work on lists. `cmdAdd` and `cmdRemove` run one at a
time here; their interleaving is in `Cli`, which uses sets of mappings,
as `EditsAreTableEdits` allows for hosts that are their own normal forms. The names `IsApex` and `isApex`
(and so on) are the Go and the TypeScript function: the former falls back to a
count of labels and uses a suffix list with private registries.

### Dashboard
One tab. `viewer` is the account whose dashboard it shows (`None`: the home page,
or a navigation), `cards` the component's `domains` state, `editing` the cards
with an open editor, `busy` the items (a card's id, or the form) whose buttons
are disabled. A click on an enabled button puts a request on the wire with the
cookie as it is at that moment; a handler takes effect in one step (its own
interleavings are in `Registry`) and answers; the answer is applied to the list
as it then is. `Conclude` with a failure is an export that fails after the row
was changed; `Lost` is a `fetch` that throws or a body that is not JSON, where
the `finally` block is all that runs. `Elsewhere` is any change of the table from
another tab or device, also by requests of a dashboard that was left before they
took effect; `SwitchSession` is another tab signing this browser in or out.
`behind` is history: somebody else changed the viewer's domains, an answer was
lost or in doubt, or a request went out under another account. Typed text, the
DNS sheet and adding a passkey are left out; a pressed "Save" sends any accepted
destination.

## 3. Runs

| Run | Instance | Shows |
|---|---|---|
| `certlock_lease` | 2 callers, TTL 3, holds of 2, skew 1 | the lock is exclusive, a holder keeps its object, an orphan does not block |
| `certlock_overdue` | 3 callers, TTL 2, holds of 4 | finding 1 |
| `registry_race` | 2 requests, 2 accounts, hosts, destinations and ids, failures | types, unique claims, repair by a lone request, clean-up spares claimed hosts, implements `Claims` |
| `registry_overlap` | same, nothing failing | finding 2 |
| `live_reload` | 1 process and its restarts, 5 contents in order, an interval of 0 or 30, failing and hanging loads, failing listeners | types, never back, catches up; serves with a config, stops when told to and gracefully, never lives on in part |
| `cli_edits` | 2 commands; `a.com` in 2 spellings, `b.com`, `localhost`; a good and a loose target; any 2 hand-written mappings to begin with; the bucket with the web tier writing anything, or a file with 2 exports; failures | types, an edit touches its own host, a command is refused exactly when it or the config is at fault, a save is whole or nothing, implements `Cli` |
| `service_converge` | 1 request, 1 server, a domain and its `www.` variant | from registration to serving |
| `service_writers` | 2 requests, 1 command, failures | who may take a registered redirect down |
| `service_linger` | 1 request, 1 server | finding 3 |
| `certstorage_tree` | 2 calls; a host with 2 files, its `www.` variant, a longer domain; failures | a success is complete, nothing of another host goes, what is called missing is |
| `mappings_edits` | any 2 hand-written mappings of 5 names in 4 spellings and 2 targets, one of them loose, then any edits and exports, hosts typed in the same spellings | edits act on hosts however spelled or are refused for a stated reason, saves are sorted, the tiers' DNS records agree, a registered host is found as typed |
| `dashboard_page` | 1 tab, 2 accounts, 1 host, 2 destinations and ids, failures | the page's own changes need no reload, buttons come back |

**Why the bounds are enough.** `certlock_lease`: the dangerous schedule is two
callers that both judge an orphan stale, which needs two callers and the orphan
(a lost reply or a crash makes one); the TTL is the sum of hold and skew, the
tight case, and mutations of the staleness test and of the conditional delete
break it. As many generations as callers leave a fresh one
whenever a create is possible. `registry_race`: every interleaving hazard is
between two requests; a request slot is used again without limit, so sequences
are unbounded. Two ids suffice since the table holds at most one row per host.
`live_reload`: four writes allow one in each gap of a reload, and a restart
between; contents are bounded because they are numbered; processes share nothing
but the object, which they do not write, so one stands for all (the proofs are for
any number). `service_converge` has
one request slot because overlapping exports (finding 2) make the property false.
`cli_edits`: a torn file takes
two exports, or one that ends half-way, and the rename of a command between their
steps; two spellings of one host show a host that is there twice, one dotless host and
one loose target the other faults, and `b.com` is the host beside them.
`certstorage_tree`: two
pages of one directory and one object beside it on either side of it in the
listing. `dashboard_page`: cards
are told apart by id, so one host that is removed, and registered again while the
answer is on its way, is the case where they could be confused; two hosts only
add cards that do not meet (the invariants hold there too; the liveness property
takes too long). `mappings_edits`: two hand-written mappings show every
fault of a pair (one host twice, in any spellings) beside that of one mapping; the
code treats entries pairwise. Symmetry is used in runs without liveness only.

**Deadlock** is checked in every run.

**Fairness.** `Redirectd`: the container is started `--restart=always`, the ticker
fires, goroutines run and ten seconds pass (weak fairness of `StartUp`,
`TickerFires`, `Launch`, `Report`, the steps of the shutdown, `Deadline`); a load
that is tried at every tick for ever succeeds at times (strong fairness of
`ReadConfig` and `StoreConfig`, since `End`, `ReadFails` and `Hang` may interrupt
them); a cancelled load returns. None on requests, which may never end. That a
load returns is not assumed: `CatchesUp` excepts a process that hangs in one for
good, which nothing but a signal or a crash can end, as `Reload` runs under the
process context, which has no deadline. `CertLock`: time
passes, the loop of a caller goes on and a holder unlocks or dies (weak);
requests tried again and again do not fail every time (strong), and a lock past
`MaxAge` is then found stale. No fairness on calling, cancelling, crashing.
`Service`: a request that has begun goes on, and `Live`'s steps as above. `Dashboard`: a
request on the wire is handled and its answer heard or lost, per button (weak);
none on users.

### Findings
1. `Unlock` deletes whatever lock object is there (`gcs.go:224`). A holder past
   `lockTTL` (5 minutes, never renewed) whose lock was stolen removes the
   thief's lock and lets a third caller in. `CertLock` shows that exclusion
   holds only under `HoldsBounded == MaxHold + MaxSkew =< TTL`. Nothing in
   `gcs.go` provides this; it depends on how long certmagic holds a lock.
2. Two overlapping requests: the one that read the rows first may save last, and
   the object lacks a committed change until some later export. `SoloAnswersLive`
   is the positive counterpart: a later request that runs alone repairs it.
3. After a DELETE's clean-up a server with the old snapshot still passes the host
   through the gate and obtains a certificate for it; nothing collects that.

Also met, and not the subject of a run: each web request regenerates the object
from Postgres and so drops mappings only the CLI added or that were seeded
(`gcs-export.ts` calls Postgres the source of truth; `README.md` line 92 says to
manage the config with the CLI); `f3redirect add` of a host
with both a trailing dot and a port is refused when the host has a mapping and saves
`a.com.` when it has none, `remove` of it finds nothing (`EditsAreTableEdits` says
which); `f3redirect add` of a host that is in the config
twice is refused, though it would give both mappings the same target, while `remove`
takes both; for a host
below a private suffix the two tiers' DNS records differ; a destination the web tier
registers although `Validate` refuses it (`http:example.org`), or one hand-written
mapping at fault, makes every CLI edit fail but those of its own host
(`RefusedWhenFaulty` says that there is no other cause of a refusal); text typed into a
card's field while its save is pending is what the next editor opens on; in development, a `Load` during the web tier's export reads
an empty config or fails, and a command's rename during it loses the export.

## 4. Proofs

Assumptions: those named in each module (`LockAssumption`, `RegistryAssumption`,
`LiveAssumption`, `IntervalsAssumption`, `CliAssumption`, `SeedsAssumption`, `StorageAssumption`,
`DashboardAssumption`, `MappingsAssumption`: numbers, Booleans, sequences, subsets, a
fresh `None`), `DirectoryAssumption` of `CertStorage` (see there), and the two
hypotheses that are part of theorems: `HoldsBounded` and `Transitive`.
`SeedsAssumption` is how a set stands for a hand-written list: a host that is there
twice in the same letters counts as one more spelling.

* `CertLockProofs`. `Typing` needs nothing else. Mutual exclusion is not
  inductive: a second create succeeds only if the first holder's object has gone,
  so `IInv` adds that a holder's object is the one in the bucket and exactly as
  old as the hold (`HolderHasObject`), that a caller past the read remembers a
  generation (`JudgeRemembers`), and that the object somebody is about to steal
  is past its lease on some clock (`StealOnlyStale`). With `HoldsBounded` a
  holder's object is never that old. `Exclusion` and `Lease` follow.
* `RegistryProofs`. `TypeInv` adds what input a request has when its place uses
  it (`JobFits`). `Uniqueness` follows from the index alone: each step changes the
  table by an insert of an unclaimed host with a new id, an owner's update or a
  delete (`TableSteps`). `SoloRepairs` rests on `SoloInv`: two active requests are
  both in `overlap`, hence for a request outside it nothing changes the table
  between its select and its save, nor the object between its save and its
  answer. `Refinement` shows that every table step is a `Register`, `Retarget` or
  `Release` of `Claims`, using that a host and an id name one row. `Sparing`:
  the row a DELETE removes is the only one with its host (`UniqueClaim`), and while it
  runs alone nobody inserts another (`SoloRemoved`), so that the certificates it
  collects are of a host that is nobody's.
* `RedirectdProofs`. Of `Live`, `Forward`: what was read is no older than what is
  served, the object no older than either (`InOrder`), for any order of contents.
  `ProcessForward` is the same of the process, whose steps are steps of `Live`
  (`LiveStep`). `Inductive` relates where `run` is to what
  there is (`Placed`): before the launch no listener and no request, after the
  first load a config, in the shutdown a server that takes no more requests; hence
  `ServesLoaded`, and `Graceful`, for which a step two shutdowns back matters: that
  HTTPS had drained, or time was over, when HTTP's shutdown began.
* `FileStoreProofs`. Of `Cli`, `OwnHost` is about a step whose cause lies two requests
  back, so `DraftCurrent` carries it across: the draft of a command that nothing has
  overtaken is the command applied to the object (`Applied`), which leaves every other
  host as it is (`UpsertElsewhere`, `WithoutElsewhere`). An edit establishes it; every later step either
  leaves the object or marks the command as overtaken (`OvertakeStep`). `Refusals`
  rests on this and on `ValidUnlessFaulty`, which compares what `Validate` says of an
  edited config with what is wrong with the config and the command; it needs that the
  mappings of a host have different spellings in every config (`TextsKept`).
  `StoreImplements` needs that only validated drafts have a
  temporary file (`FileOK`), so that a rename is `Cli`'s `Save`, and that an export's
  step is a `WebWrite` or changes nothing a command sees. `Settled` is inductive
  with the types. `FileOwnHost` and `FileRefusals` carry `OwnHost` and `Refusals` over to files by the refinement.
* `ServiceProofs`. `NotDropped` is about two writers that ignore each other.
  `WritersInv` says what each is about to write: a request that overlapped no other
  the rows as they are (`Snapshots`), a command that was not overtaken the object but
  for its own host, which after an add is still there (`Drafts`). No write of either
  can then lose a mapping of another host.
* `CertStorageProofs`. A listing is read in pages, while other calls store and delete.
  `IInv` has, per call: what was there all along and lies behind the cursor is in the
  page (`PageFull`); the page of a call that deletes holds nothing of anybody else
  (`PageOwn`), whence `OwnDeletions`; past its first request, a Delete has no object
  left at its key that was there all along (`LeafGone`). `Complete` and `Missing` are
  what these say at the end of a listing, when nothing is ahead of the cursor.
  Only `Complete` uses `DirectoryAssumption`.
* `DashboardProofs`. `WireInv`: an item has one request or one answer under way or
  neither, and its button is disabled just then (`OnePerItem`, `BusyExact`). For
  `NoReload` the page and the table are related through the answers: as long as the
  page is in step, an answer in the mail is true (`MailTrue`), a card is its row or about
  to be put right by an answer (`CardsHaveRows`), and a row has a card or is about to
  get one (`RowsHaveCards`). An answer stays true since its item stays disabled until
  it has come.
* `MappingsProofs`. `Marshal` and `Without` are folds along a list of any length.
  Induction is had from the library's theorem that the natural numbers are well-founded
  (`Least`, `Ascent`); `Folding` shows by it that the function by which the community
  module defines a fold exists, `Marshalling` and `Removing` that it goes through the
  list element by element. `Placing` and `PlacingSorts` are one round of the insertion
  sort: what is not above a mapping is a prefix of the sorted list, and its length is
  the place. `Marshalled` and `Removed` say what the loops return. What a
  list says of a host that has at most one mapping is a function (`ByTable`); nothing
  says that of every host, as the list may be any. So `AddRefused` has for which host an
  add would make or find two mappings, and which mapping Validate would meet
  (`Fine`), and `RemoveEdit` and `AddEdit` what an edit does that Save lets through.
  They need types only, so that `TableEdits` holds of every list, not only of those the
  runs start from.
  `AsTyped` and `SameRecords` compare the tiers' definitions.

Only model-checked: the liveness properties (`Progress`, `CatchesUp`, `SignalEnds`,
`NoHalfLife`, `ServersConverge`, `ButtonsRevive`), since liveness under fairness is
beyond the prover, and the three findings. Every other property of the runs is proved.

## 5. Plan

Done: 1 `CertLock`, 2 `Claims` and `Registry`, 3 `Live`, 4 `Cli`, 5 `Service`,
6 `CertStorage`, 7 `Mappings` (edits, DNS records, registration and export),
8 `Dashboard`, 9 `Redirectd`, 10 `FileStore`, with the proofs above. What could
follow:

11. `Issuance`: several servers' gates, certmagic (external) under `CertLock`'s lock,
    the stored certificate's files and the clean-up of a DELETE among them; a hold
    that the issuance outlives; the `www.` variant's certificate, which the clean-up
    leaves on purpose.
12. An abstract mutex as the specification of `CertLock` under `HoldsBounded`, for
    `Issuance` to use.

Proofs to come: `CertLock` under `HoldsBounded` as an implementation of that mutex, and
`Service`'s steps as steps of `Registry`, `Cli` and `Live`, which would carry their
theorems over to the whole.

## 6. Not modelled

Authentication (a library's configuration; a request's account stands for it),
Terraform and the deployment workflow (their effect, restarts, is in `Live` and
`Redirectd`), HTTP dispatch and the admin proxy (stateless), the connection string of
the database and the configuration from the environment (read once), adding a
passkey, the DNS sheet and typed text of the dashboard, the read-only commands of
the CLI, the ACME protocol and certmagic's internals (external), JSON and URL syntax
beyond the distinction `Loose` makes.
