# async-hwi: a TLA+ verification project

`async-hwi` talks to hardware wallets: Ledger, BitBox02, Coldcard, Jade, Specter
and two simulators. Its `HwiService` finds devices in the background, keeps a map
of them, unlocks those that need it and forwards requests. This project models
that code, checks the models with TLC and proves theorems about them with TLAPS.
Paths below are relative to the repository; line numbers without a file are of
`src/service.rs`.

## Inventory

| component | state it keeps | operations |
|---|---|---|
| life cycle of `HwiService` (391-564) | `ref_count`, `shutdown`, `listener_handle` | `new`, `start`, `stop`, the listener's check of the flag |
| device registry (584-1969) | `devices`; one join handle per device or simulator, local to the listener; a `Locked` device's inner `Option` | the seven `handle_*` functions of a poll cycle, `should_poll`, `cleanup_disconnected`, the spawned tasks, `list` |
| requests on a `SupportedDevice` (84-253) | none of their own: device, runtime, sender | one spawned task and one message per request |
| Jade client (`src/jade/`) | a serial stream behind a mutex | exchange, `auth` with the pin server, `sign_tx` with extended data |
| Specter client (`src/specter.rs`) | a serial stream or a TCP connection per request | line exchange, enumeration |
| Coldcard client (`src/coldcard.rs`) | the opened device behind a mutex | `sign_tx` polls until signed, merge of signatures |
| Ledger client (`src/ledger.rs`) | a HID or TCP transport | exchange, wallet policies |
| BitBox02 client (`src/bitbox.rs`) | pairing, noise configuration and its cache | connect, `wait_confirm`, policies |
| PSBT utilities (`src/utils.rs`) | the derivations taken out of a PSBT | filter, sign, put back, `merge_signatures` |
| multipath descriptors (`src/bip389.rs`) | none | parse and expand |
| versions and kinds (`src/lib.rs`, 1982-2042) | none | parse, compare, decide what is supported |
| command line (`cli/`) | none | enumerate, run one command |

How they interact. Consumers call `start` and `stop` from threads of their own;
the first `start` spawns the listener thread. Every two seconds the listener runs
one handler after another. A handler lists what is attached, removes from the map
what is not, and spawns a task on the tokio runtime for everything else that
is not in the map and has no unfinished task. A task talks to its device, inserts
it into the map and sends `Update` to the consumer, which calls `list`. A task
that finds a locked device takes it out of its map entry, waits for the user
and replaces or removes the entry. Nothing ever cancels a task: when a device
leaves, its handle is dropped and the task runs on, detached.

What is hard:

- three kinds of actors (consumers, listener, tasks) share the map, the counter
  and the flag; each takes the lock for one operation only, so every decision
  may be stale when it is acted upon;
- HID devices are read once per cycle, serial ports once per handler, and the
  connections are opened later, by the listener (HID) or the task (serial);
- ids survive an unplug and a replug, connections do not;
- detached tasks and listeners that have not yet seen the flag outlive what
  started them;
- each exchange can fail, and the failure may come after a new task has
  taken over.

What makes each part correct:

- life cycle: the count is exact; one listener is set up at a time; while the
  service is held it listens, and after the last stop it does not;
- registry: what stays attached gets listed and stays so, what is gone for
  good gets unlisted; each change reaches a consumer that lists on `Update`; a
  device taken out of its entry comes back or leaves; a connection is worked on by
  one task only;
- requests: one answer each, to the consumer that asked;
- clients: an answer belongs to the request it is taken for; loops end;
- wallets: what a device holds is recognised and nothing else is; an address it
  displays belongs to the wallet or path asked for;
- signing: filter and put-back restore the PSBT, merging loses no signature, each
  round adds one;
- pure parts: a derivation expands to the paths of the descriptor, a later version is
  never worse.

## Modules

| module | models | runs |
|---|---|---|
| `HwiLifecycle` | `start`, `stop`, the listener's loop as far as the flag goes | `lifecycle`, `lifecycle_race` |
| `HwiRegistry` | the map, one listener, the tasks, the devices, a consumer | `registry`, `registry_*` |
| `HwiDirectory` | the abstract promise of the map to a consumer | `registry` (as `ImplementsDirectory`) |
| `JadeSession` | concurrent requests on a supported Jade, over one stream | `jade_session`, `jade_late_answer` |
| `SpecterSession` | a Specter from its probe to concurrent requests on it | `specter_session` |
| `PsbtSigning` | a PSBT that several devices sign, in rounds and by copies | `psbt_signing` |
| `Versions`, `Bip389`, `Policies` | pure: the order of versions, derivations, descriptors as the clients read them | with `WalletClients` |
| `WalletClients` | enrolling, recognising and displaying wallets, on four kinds of devices | `wallet_clients`, `coldcard_registered` |
| `MC...` | constants for TLC | |
| `HwiLifecycleProofs`, `HwiRegistryProofs`, `HwiDirectoryProofs`, `JadeSessionProofs`, `SpecterSessionProofs`, `PsbtSigningProofs`, `WalletClientsProofs` | theorems about the module of that name; those of `WalletClients` also about the pure modules | |
| `FoldingProofs` | induction over sequences and the equations of `FoldLeft`, for any operator; `WalletClientsProofs` instantiates it three times | |

The models meet at these places. `HwiLifecycle` spawns and ends the listener
that `HwiRegistry` runs once and for ever; `HwiRegistry` ends where a device is
Supported, and `JadeSession` begins there, with the device and its stream given.
`SpecterSession` is the `open`, `probe` and `insert` of a registry task in more detail,
followed by the requests. The `sign_tx` that is an exchange in the sessions is a
change of the PSBT in `PsbtSigning`. `WalletClients` EXTENDS `Versions` and `Policies`,
which EXTENDS `Bip389`.

### HwiLifecycle

State: `refCount`, `shutdown` and `handle` are the three fields; `listener` says
where each listener thread is; `pc` and `local` are the program counter and the
one local variable of a call (`current` in `stop`, the new join handle in
`start`), reset when it is dead. `holds` and `robbed` are history variables: who
has called `start` and not yet `stop`, and whether some `stop` gave up a
reference its caller did not hold. The code accepts such a stray stop; the
properties are about behaviours without one.

Each action is one atomic access: `StartAdd` (`fetch_add`, 475), `StartClear`
(485), `StartSpawn` (495), `StartStore` (509); `StopLoad` (524), `StopCas` and
`StopRetry` (`compare_exchange`, 529 and 557), `StopFlag` (544), `StopTake`
(547); `ListenInit`, `ListenCheck`, `ListenRefresh`, `ListenSleep`.
All orderings but one are `SeqCst`; the listener's relaxed load of a single flag
can only return an older value for a while, which looks like a later read.

### HwiRegistry

One step is what happens under one lock of the map, one spawn, one send or one
exchange with a device.

- Devices: `plugged` and `session`, the number of the present connection;
  `Plug` and `Unplug`. A replug keeps the id and raises `session`.
- Listener: `at` is the handler of the current cycle, `step` the place in it.
  `Refresh`, `Enumerate` (connected ids: from the cycle's HID list or the
  current ports), `Scan` and `Sweep` (the two locks of `cleanup_disconnected`),
  `Visit` and `SkipBusy` (the two halves of `should_poll`), `Spawn`, `OpenFails`,
  and `Notify` (a Ledger's `Update`, sent by the listener). The seven handlers
  share these actions; where they differ, the action says so. `PrefixKinds`
  is what `starts_with(prefix)` selects: `"specter-"` and `"ledger-"` also select
  the simulators.
- Tasks: `open`, `probe`, `insert`, `send`, and for a locked device `take`,
  `unlock`, `settle`, `resend`. A handle refers to its task until the task ends
  (`is_finished`).
- Map: an entry has its state, the connection it was made on, and for a `Locked`
  one the task that made it and whether its inner `Option` is still `Some`. The
  entries are shared (`clone_locked`), so `Take` empties the entry only if it is
  still the one the task has made.
- Consumer: `pending` says that the channel holds an `Update`; `Consume` takes
  it and lists the map, which empties `unseen`, the ids changed since.

Abstracted: fingerprints, versions, pairing codes and reasons (what a probe
finds is a choice among the states that kind can be found in); the order of
the ids within one handler, which is any; Coldcards and other devices without a
serial number, which the code ignores; the noise configuration.

A handler whose prefix no device of the world ever bears lists nothing and
removes nothing; the cycle passes over it (`Handlers`).

### JadeSession

A request of `SupportedDevice` (120-253) is a task; `Start` spawns it, and its `out`
is the message the consumer gets. `Command` and `Question` are the commands of
each method and what they ask for; `Ask` locks the stream and writes
(`SerialTransport::request`, `exchange`), `Read` is one return of `stream.read` with
the attempt to parse all that was read so far, `ReadTimeout` the second without
anything more, `ReadFails` and `AskFails` an I/O error. `TakeIn` ends an exchange:
another one follows (`More`: a further piece of a signed PSBT, or the second half of
`is_wallet_registered`) or the request is done with `Result`. The mutex is free
between two exchanges, as in the code.

`named` says whether the client has a `descriptor_name`, which only `with_wallet` sets. A service
builds its Jades without one (1097), so that `display_address` fails there
with `UnimplementedMethod` whatever it is asked for; a client with a name asks the device
for addresses of a wallet, and fails in the same way for P2TR
(`src/jade/mod.rs` 183-202). `Unimplemented` is that condition and `Decline` the step: no
exchange, and the stream is not even locked. `Sessions` says which requests are made
and whether there is a name; the other methods do not depend on it.

The device is external: it takes commands in order and sends each answer in one
part or two. Which request an answer is for (`to`) is a history variable: the
response carries the process id, whoever asked. `NextPiece` is all a device can
check of a `get_extended_data`: that the piece's number and their count follow on from
the last piece it has given out, and the id of the original request, which is the
process id again.

Abstracted: bytes. What was read parses if it is exactly one answer, of the
expected type unless it is an error; pieces deserialize if they are the pieces of one
PSBT in order. An address is not a valid xpub. That the user refuses and that the device
reports an error are one case, `Refusal`.

### HwiDirectory

What a consumer may rely on, with no polls, tasks or exchanges: `entries`, which a worker
changes (`Change`) while it comes to owe an announcement, or a removal that is announced at
once (`Remove`); `Announce`; `Consume`. `HwiRegistry` instantiates it as `Directory`: a
task is a worker, it owes from its change of the map to its send (`send`, `resend`), a
sweep is a `Remove`, and everything about polls, handles and connections is a stutter. The
mapping leaves hardware Ledgers out, which do not keep the promise
(`registry_ledger`).

### SpecterSession

`probing` is the task of `handle_specter` (980-1034): `Open` opens the port, a first
exchange is limited to 500 ms (`ProbeTimeout`) and looked at only for being in time,
`SigningDevice::new` (284-303) repeats it and decides. `Start` is a method of the
listed `SupportedDevice`. `Ask` locks the port and writes, `Read` is one return of a
read with all the lines that had come: the first of an exchange must be `ACK`, the second
is the result, and what the `BufReader` holds beyond is dropped with it. With the simulator
each exchange has a connection of its own and `try_connect` is not timed. That connection is shut
down before the result is returned, and if the shutdown fails its error replaces a result already
read (`src/specter.rs` 222-226): here, as any I/O error, only with a device that is not attached.

The device is external. Each line carries, as history, the exchange it answers (`num`) and
who asked. Abstracted: a line is read whole; a result parses if it is of the command's
type; whether the port, opened again, still has what was not read is a choice. What may go
wrong: a probe that has timed out leaves an answer behind, and with it the
answers lag by one exchange. `OwnUnlessTimedOut` is therefore about behaviours
without a timeout, and `LagBounded` says what a timeout may do: an xpub may be the answer to
the `get_extended_pubkey` before.

### PsbtSigning

`psbt` is the consumer's PSBT: per input the derivations that are shown, the signatures by
key (`partial`), the script path signatures (`leaf`) and the key path signature. `round`
is a call of `Bip32DerivationFilter::new ... sign_psbt` in progress with what its filter has
ignored; `copy` are the calls of `SupportedDevice::sign_tx`, each with a PSBT of its own,
whose `TransactionSigned` the consumer merges with `merge_signatures`. `given` and
`rounds` are history.

The filter is `Filtered`, for both rules in both orders. The rules, the merging and the
clients (`Accepted` for the Specter's `DeviceDidNotSign`, `Leftovers` for what a failing
Ledger leaves behind) are the code's; what a device signs with is external: Coldcard and
BitBox02 sign an input with one key that matches their fingerprint
(`src/utils.rs:23`), the others with all.

Read off the code while modelling:

- On an error `sign_psbt` returns at `src/utils.rs:81`, before the ignored derivations are put
  back, although the comment above it says that it 'puts back the ignored bip32
  derivations'; the caller's PSBT has lost them. `DerivationsKept` and the properties about
  rounds say "as long as no round has failed" for that reason.
- The comment at `src/utils.rs:39` says that of fg/0/0 and fg/1/0 the first round keeps
  fg/0/0. The sort compares `path2` with `path1` and so puts the last path first:
  fg/1/0 is kept. Either way all inputs take the same branch (`OneSpendingPath`).
- Coldcard and Specter index the caller's inputs by those of the returned PSBT; a device that
  returns more inputs makes them panic. The model's devices return the inputs they
  were sent.

### Versions, Bip389, Policies, WalletClients

`Versions`: `PartialCmp` with the four outcomes of `partial_cmp`, `ParseVersion` on what the
regular expression captures, the rule of the Ledger handler and the table of tapminiscript.
`Bip389`: `ParseXkeyDeriv` folds the steps as `filter_map` and `try_fold` do; `WellFormed` and
`Meaning` say without a fold what BIP389 says. The code replaces `**` in the text, before it
tells the steps apart, so `**h` is read as a list and a hardened wildcard (`LongFor`), and any
other text around a `**` cannot be read. A derivation has at least one step: the empty text
is one that cannot be read. `Policies`: a descriptor is a sequence of
pieces (text, keys with their derivations), and `ExtractKeysAndTemplate` replaces the keys as
`str::replace` does, one after another and wherever the text of the key is found;
`FirstAppended` finds a place by the digits of its number, and `Keypath` is the path a
BitBox02 is given for an address.

`WalletClients`: one device of one of four kinds, its owner and the client of one caller.
`Register`, `RegisterBitBox02`, `RegisterColdcard` (accepted later, by `Decide`) and
`RegisterRefused`; `IsWalletRegistered`; `WithWallet` (the caller passes an hmac only if
it has one); `DisplayP2tr` and `DisplayMiniscript`. `answer` is the last call with what it
returned. `ParseDerivation` and `Flash` (another firmware) put the pure modules to the
test. External: which wallets a device keeps, and that a Coldcard
writes hardened steps with h.

Read off the code while modelling:

- A Coldcard's `contains` also recognises a descriptor that is part of the one enrolled:
  `wsh(...)` where `sh(wsh(...))` is (`RecognisedWasEnrolled` allows for it).
- A BitBox02 does not look at the name. A Ledger's client trusts whatever hmac it is given.
- A bare key found before the same key with an origin leaves the origin in the
  template (`[...]@0`); place 1 is also found in `@10`. `DisplayedOnDescriptor` is about
  descriptors without either (`Separate`).
- A BitBox02 is given the path of the first of its keys (`bitbox.rs` 233-261). If that key
  stands nowhere with a wildcard, the path is the bare origin, though a later key of the same
  device may have one: `FirstRanged` excludes it where `DisplayedOnDescriptor` is proved.
- The comment at `src/bip389.rs:42` has `5H` among the indexes of BIP389. `ChildNumber::from_str`,
  which reads them, takes `'` and `h` only: a derivation with an H is refused. `Readable`
  is `WellFormed` without an H, and `DerivationMeansBip389` says "readable" for that reason.
- `**h` is no spelling BIP389 knows; the code accepts it, and so does `WellFormed`.
- A version that is a prerelease is above the release it belongs to, and two equal
  prereleases are equal (`==`) and do not compare.

## Runs

| run | question | answer |
|---|---|---|
| `lifecycle` | is the count exact, is the setup exclusive, does the last stop leave the flag up, do all listeners end when the service stays unused? | yes |
| `lifecycle_race` | does a held service listen? | no: a stop delayed between its `compare_exchange` and its store raises the flag after the next start has cleared it |
| `registry` | the eight properties below | yes |
| `registry_ledger` | is every change announced? | no: a Ledger's `Update` is sent before its task lists it |
| `registry_jade` | is an emptied entry always being unlocked? | no: a Jade whose fingerprint fails after `auth` is left emptied |
| `registry_replug` | does a stale entry go away? | no: not if the device returns before the next poll |
| `jade_session` | with three requests at once: does each get its own answer, fail only for a reason, and end? | yes, if the device does not pause within an answer; they end in any case |
| `jade_late_answer` | does a request ever succeed with the answer to another? | yes, after one pause within an answer: the id of all requests is the same |
| `specter_session` | does each request get its own answer, fail only for a reason, and end, when probes may time out? | yes until a probe times out; then an answer is late by as many exchanges as probes have timed out, no more; all end |
| `psbt_signing` | are signatures or derivations lost, does each round make progress? | no and yes, as long as no round has failed |
| `wallet_clients` | is what is enrolled recognised and nothing else, do displayed addresses belong to the wallet, does a derivation mean what BIP389 says, is a later firmware never worse? | yes |
| `coldcard_registered` | is it also recognised on a Coldcard when spelled with `'` and without a checksum? | no: only a policy with a checksum is rewritten |

Three behaviours of the service follow from the model and have no run of their own:

- `start` within the sleep of the old listener clears the flag (485) before that listener
  has read it: it runs on, with an earlier consumer's sender, beside the new one.
  `lifecycle` lets this happen; `ListenersStop` and `QuietMeansStopped` hold with it.
- The cleanup of hardware Specters and Ledgers removes a simulator in every cycle, as its id
  starts with their prefix (906); it is polled and listed again. `ConnectedStays`
  says no more of simulators than that they come back.
- A failed unlock removes the entry of its id (1607, 1294, 1318), also one that a later task
  has made for the device plugged in again.

The passing properties of the registry:

- `UpdateFollowsChange`: a change the consumer has not seen is announced, or a task
  of that device is about to announce it (all kinds but Ledger);
- `UnlockUnderway`: a BitBox02 taken out of its entry is in the hands of the
  very task that made the entry, whatever the cleanup has done to its handle;
- `OneTaskPerConnection`: no two tasks, detached ones included, work on one HID
  connection;
- `SweepSparesConnected`: the cleanup never removes the entry of a HID
  connection that exists, although its list is up to a cycle old. A task can
  insert only what the listener has opened, and that was on the list;
- `DisconnectedLeaves`: a device that stays away leaves the map for good, although
  a task that was probing it may insert it after the cleanup;
- `ConnectedStays`: a device without an unlock phase that stays attached gets
  listed and stays listed, after any number of failed attempts; any other comes back into the
  map again and again, unless the user keeps an unlock waiting;
- `ImplementsDirectory`: all kinds but Ledger together are an `HwiDirectory`.

The passing properties of a Jade session:

- `OwnUnlessStalled`: before the first pause, no request succeeds with what the device
  gave for another, although all share a stream and the exchanges of several
  requests alternate on it;
- `FailureHasCause`: before the first pause, with the device attached, a request
  fails only if the client cannot put it to the device, and then without an exchange, or
  if the device has refused it or has given it a piece of another
  signing. The last case is real: two `sign_tx` with equally many pieces have the same
  origid and can be confused by the device. It is named, not excluded;
- `EveryRequestEnds`: every request that is started ends with a message.

The passing properties of a Specter:

- `OwnUnlessTimedOut`, `FailureHasCause`: as for the Jade, until a probe times out;
- `LagBounded`: timed out probes shift the answers by one exchange each; errors and
  lines dropped in between never add to that;
- `EveryExchangeEnds`: every exchange begun ends, whatever stale lines are read.

The passing properties of signing:

- `NoSignatureLost`: what a device has signed is in the consumer's PSBT or in a message on
  its way, however rounds and copies overlap;
- `DerivationsKept`: shown and ignored derivations make up those the PSBT came with;
- `EachRoundSigns`: through both filters in the documented order, n rounds with a device give n
  of its signatures in every input, until all its keys are used;
- `OneSpendingPath`: such a round takes the same spending path in all inputs.

The passing properties of the clients' wallets:

- `EnrolledIsRecognised`, `RecognisedWasEnrolled`: `is_wallet_registered` is true for what the
  device holds, and for nothing else, in the spellings of the same descriptor;
- `DisplayedOnDescriptor`: the path a BitBox02 is given leads to a key of its own in the
  descriptor, by the branch and index asked for;
- `DisplayedAsAsked`: a P2TR address that is displayed is that of the path asked for; the
  Ledger's client goes by a policy and a branch to get there;
- `DerivationMeansBip389`: accepted is what BIP389 allows, if no index is hardened with an H; the
  paths, in their order, and the wildcard are as it says;
- `UpgradeKeepsSupport`: no later firmware makes a device unsupported or incompatible, and a
  Ledger compatible with tapminiscript is listed.

### Bounds

- `lifecycle`: three callers and two listeners over the whole behaviour. Two
  listeners suffice for everything that relates an old listener to a new one,
  three callers for two racing calls with a third that holds. `StartAdd` waits for a
  free listener; the liveness property is unaffected, since it is about
  behaviours in which starts cease. The theorems hold for any bound.
- `registry`: `Worlds` gives, per world, how often each device may be plugged in and
  how many faults may strike what is attached. Every kind that has a hardware id
  is plugged in twice in some world, with a fault where that stays small, and the pairs
  that share a prefix are together in a world. Two connections are what a stale entry
  or a late task needs; kinds that share no prefix share no state but the map,
  where ids are independent. `MaxTasks` is 3: a check that `Spawn` never
  waits for a free task passed in all worlds.
- `jade_session`: up to three requests to the device in each behaviour, over all kinds of request,
  in clients with the name of a wallet and without, beside one that is declined: two
  whose answers have the same type or whose pieces can mix, and one that comes
  in between. Three pieces, so that there is a first, a middle and a last. One
  pause, which is what it takes to get out of step.
- `specter_session`: sessions of two and of three requests, on a serial port and by TCP, with up to
  three probes, two of which time out: a lag of two, and requests that have to get by
  with it. The device may refuse any command and be pulled out at any time.
- `psbt_signing`: two inputs of one descriptor in which a device has a key on each of three
  spending paths and two others have one, and a taproot input with an internal key and one in a
  leaf; three signings in each behaviour, by a device that signs with one key an input
  and a Specter or a Ledger beside it, in place and by two copies at once. Three keys of a
  device make a first, a middle and a last round, two copies the orders of merging.
- `wallet_clients`: six descriptors that are each other's spellings, permutations or parts, two
  names, a device that keeps one wallet (`Memory`: two never interact but for
  their names, and the names are both there), derivations of one to three steps of nine sorts,
  firmwares on both sides of each least version. `U32Max` is 99 so that one number
  does not fit; 9 is an index beyond the last (`MaxIndex`). `ParseDerivation` and `Flash` depend on nothing
  else and are taken from the initial states only (`Fresh`).
- The violation runs use the smallest world that shows the violation.

### Fairness

Threads are scheduled and the runtime polls its tasks: weak fairness of each call
begun, of the listener, of each task. No fairness of `start`, `stop`, `Plug` or
`Unplug`, which nobody is obliged to do. The consumer reads its channel (weak
fairness of `Consume`). An attached Jade answers (weak fairness of `DeviceStep`): the first
read has no timeout, so without that nothing ends; an attached Specter likewise. An exchange ends, by an answer or an error; the exception
is the unlock, where the user decides: it is fair only once the connection is
gone. No strong fairness is used. `ConnectedStays` needs no assumption that
probes succeed beyond the bound on faults of the world.

## Proofs

`HwiLifecycleProofs` proves, for every finite set of consumers and every bound on
listeners (`CallersFinite`, `MaxListenersNat` are the only assumptions), that
`Spec` keeps `TypeOK`, `RefsCounted`, `OneStarter` and `QuietMeansStopped`.

None of the last three is inductive. `IInv` adds what they lean on: `LocalOK` (a
caller that is about to compare-and-swap has read a count above 0),
`StartersHold` (whoever is in the body of `start` counts as a holder, so nobody else
finds 0), `StopUnderway` (at 0, the flag is up and the handle gone, or the
stop that took the count there is about to do it). The argument for `RefsCounted` is one
of cardinalities: `StartAdd` adds the caller to the finite set of holders,
`StopCas` removes it, and the compare-and-swap makes the decrement one of the
present count. The proof has one lemma per kind of step (`StartAddInv`,
`StartStepInv`, `StopCasInv`, `StopRestInv`, `ListenInv`), joined in `NextInv`;
`Invariance` is the temporal conclusion and the other theorems follow from it.

`HwiRegistryProofs` proves, for any ids and kinds, any number of tasks, reconnections and
faults (`KindOfType`, `MaxTasksNat` and `WorldsType` are the assumptions), that `Spec`
keeps `TypeOK`, `UpdateFollowsChange`, `UnlockUnderway`, `OneTaskPerConnection` and
`SweepSparesConnected`. The inductive invariant adds:

- `SomeDevice`: a cycle has a handler to run, so `Earliest` chooses one;
- `ResultsKnown`: who is about to insert knows what, and a Locked entry names a task;
- `ConnectionsPast`: no entry and no task is on a connection of the future, so what is
  plugged in is known to nobody;
- `PortsOnList`: in each step of a handler, what it still visits is on the HID
  list of the cycle and what it removes is not;
- `OffListUnknown`: a HID device that is attached and not on the list has come since;
  neither the map nor any task knows of its connection. With `PortsOnList` this is
  why a sweep spares what is connected;
- `DetachedIsDead`: a HID task without a handle is on a connection that is gone,
  because the sweep that dropped the handle found the device missing. Hence the next
  spawn is alone on the present connection.

Every step of a task touches only itself, the entry of its id and its handle:
`TaskEffect` says so, `TaskEffectInv` derives from it all conjuncts about connections, and
the lemma of each task step proves the few that are left. The listener's steps have a
lemma each; `AsideInv` covers those that leave devices, map and tasks alone.

`HwiDirectoryProofs` proves, under the same assumptions, that the registry implements the
directory (`RegistryRefinesDirectory`), and of the directory that an unseen change is announced
or owed (`DirectoryAnnounces`). The mapping needs one invariant more, `LedgerOwesNothing`:
the task of a Ledger, which is not in the directory, never gets to an announcement. The steps are
sorted by what they do to the debts: `SameDebts`, `DebtIncurred`, `DebtPaid`; from these
`TaskUnmoved`, `TaskChanges` and `TaskAnnounces` give the step of the directory for each kind of task
step, `ListenerMaps` for those of the listener.

`JadeSessionProofs` proves, for any requests, methods and sizes of signed PSBTs (`MethodType`,
`PiecesType`, `NamesDiffer`, `SessionsType`, `MaxStallsNat`), that `Spec` keeps `TypeOK`,
`OwnUnlessStalled` and `FailureHasCause`. The properties speak of answers that are taken; the
invariant has to speak of those that are under way. Until the first pause, `StreamInv` says that
inbox, wire and what the device has yet to send hold together either the question of
the holder of the lock or one answer to it (`OnItsWay`), in one of the ways an answer in two parts
can be spread over them (`Spread`); with nobody holding the lock they are empty. `TaskInv` says of a
request between its exchanges what it has got (`GotSoFar`: the pieces in order, as many as its
own first one has said), and of a finished one what is due to it. A request the client
declines has had no exchange, and as `named` never changes it never has one. Nobody but the holder
of the lock touches the stream (`Locked`), so a step of one request leaves the invariants
of the others alone.

`SpecterSessionProofs` proves, for any requests, transports and bounds (`MethodType`, `NamesDiffer`,
`TransportsType`, `SessionsType`, `BoundsNat`), that `Spec` keeps `TypeOK`, `OwnUnlessTimedOut`,
`LagBounded` and `FailureHasCause`. On a serial port the exchanges are numbered in the order they
begin, and `SerialInv` says that all lines under way are in that order (`InOrder`, `Before`), that of
the exchanges that are over those may have left something that are at most `timeouts` back
(`Recent`), and that a reader who has taken an ACK finds the result next (`InStep`). The lag
is then what `Recent` allows, and nothing is left over if nothing timed out. By TCP each request has
a connection of its own, and `TcpInv` says how much of the one answer has come (`Connection`).
The steps that take lines out of a sequence rest on a lemma each: what is left of
an ordered sequence is ordered (`Split`, `Window`, `Rest`, `StreamRead`).

`PsbtSigningProofs` proves, for any inputs, keys, devices and plans (`SignersType`, `PathsType`,
`InputsType`, `CopiesType`, `PlansType`), that `Spec` keeps `TypeOK`, `NoSignatureLost` and
`DerivationsKept`. The inductive invariant adds that nothing is ignored between rounds, and
that a key path signature is by the internal key of its input: otherwise merging, which replaces
that signature, could lose one.

With `KeysFinite` and `TaprootOrNot` (a PSBT is finite; an input is taproot or not) it proves
`EachRoundSigns`, and of inputs that pay to one descriptor (`OneDescriptor`, a hypothesis of the theorem,
which the run's transaction satisfies) `OneSpendingPath`. `RoundsInv` adds that what is shown and signed are
keys of the inputs, and that in a round the device is shown what the filter leaves of the
derivations the input came with, so that what was signed before counts. The argument: of a device's
keys that have not signed, the filter in the documented order shows the last by its path
(`Shown`); if there are any there is a last one (`LastPath`, by the well-foundedness of strict inclusion on
the keys beyond); so a round adds a key that has not signed (`RoundSigns`), hence to the count. For two
inputs that are signed alike the open spending paths are the same (`OpenAlike`), and so
is the last of them, as the paths are in one order. With the filters in the other order `Shown`
is false: the same key would be shown again.

`FoldingProofs` has what the others need of recursion. The library's induction theorems take
an operator as a parameter; `Least` (a set of naturals has a least element) does the same for sets,
and `AllSequences` follows: a set of sequences that holds the empty one and is closed under
`Append` holds all. The definition of `FoldLeft` goes through a recursive function on sets, from
which `FoldOfNone` and `FoldOfAppend` derive the two equations one expects.

`WalletClientsProofs` proves, for any wallets, names, paths, derivations and firmwares of
their types (`WalletClientsAssumption`):

- versions: that `PartialCmp` is dual, that `<` is transitive, that the Ledger rule is `>= 2.1.0`, and
  `UpgradeKeepsSupport` of any lines a device may report;
- `TypeOK`: an hmac a client holds is one the device gave out, and stays so, as a Ledger forgets nothing;
- `DisplayedAsAsked`, by the parts of a BIP86 path;
- `EnrolledIsRecognised`, if the wallets are `Fit` for a Coldcard (a checksum, or hardened steps
  with h): the condition is what `coldcard_registered` refutes the property without;
- `RecognisedWasEnrolled`, from `StructureTells`: a template and its keys determine the
  descriptor. `KeysFound` (every key of a piece is among those extracted) is by induction
  over the pieces; `PlaceTells` reads the expression back off a place; `FoundIsPart` is the
  same for a part of a descriptor that a Coldcard holds;
- `DerivationMeansBip389`, by induction over the steps (`ReadTells`). The invariant of the fold is
  `Tells`: what has been read is accepted if and only if the steps so far are readable, with their
  paths, the wildcard they end with, and with the marks whether a wildcard and a list have been seen. `ExtendFresh`,
  `PathsOn` and `MeaningAppend` say what one step more does to the paths on either side;
  `ShorthandMeans` is the replacement of `**` and `**h`;
- `DisplayedOnDescriptor`, if in each wallet the first of the device's keys has a wildcard
  (`FirstRanged`): `PlaceNumbers` says that in a template with at most ten separate keys a place is that of the key
  it is numbered with, `PieceFound` that the path is read off a piece with the very first key,
  and `Tells` what the wildcard of that piece is.

`Fit` and `FirstRanged` are evaluated by TLC on the wallets of the runs (`WalletsFit`, `WalletsRanged` in
`MCWalletClients`), as is `OneDescriptor` (`OneWallet` in `MCPsbtSigning`).

All invariants and action properties of the passing runs are proved. Only model-checked:
the liveness properties `ListenersStop`, `DisconnectedLeaves`, `ConnectedStays`, `EveryRequestEnds` and
`EveryExchangeEnds`, which are out of reach of TLAPS.

## Not modelled, and the plan

1. `HwiService`: the life cycle and the registry composed, with the sender each
   listener was given: who receives what after a restart, and two listeners that
   poll the same devices.
2. Jade: `auth` with the pin server (`src/jade/mod.rs` 118-148, `src/jade/pinserver.rs`),
   as a refinement of the `unlock` step of the registry.
3. A bounded channel between the service and the consumer (933), and a Ledger whose app is
   opened later (1944).

Not modelled at all: the wire formats and libraries of the devices, the HID and
serial drivers, the BitBox02 noise configuration and its cache (what is in a file between runs),
the command line (stateless dispatch), the end of the runtime when the service is dropped, the
names of kinds (`DeviceKind::from_str` knows no "coldcard", which no code here asks for).
