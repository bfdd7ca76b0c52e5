# BootyCall: TLA+ specifications

BootyCall (`bootycall-rs`) is a network boot appliance in one process: a proxy
DHCP server, a TFTP server, an HTTP server, an artifact extractor, a
configuration watcher and drivers for an LED and an OLED, around one shared
in-memory store. This directory models the parts whose correctness depends on
orderings, failures and limits that tests hardly reach, checks the models with
TLC and proves the central properties with TLAPS. Paths below are relative to
`src/crates/`.

## 1. The system

| Component | Source | State | Operations | Interacts with |
|---|---|---|---|---|
| TFTP transfer | `bootycall-tftp/src/server.rs` 96-563, `wire.rs` | window cursors, replay buffer, file position, retries, deadline | negotiate, send, receive ACK/ERROR/garbage, time out, give up, complete | client over UDP, host store |
| TFTP listener | `server.rs` 607-789 | semaphore of 128 permits | look a host up by address, mark it Booting, open a socket, take a permit, spawn | host store, configuration, transfers |
| Host state store | `bootycall-core/src/state.rs` | map of at most 4096 hosts, ring of 200 log events | `update_host_status`, `log_event`, `clean_stale_hosts`, reads | all servers, sweep, LED, OLED |
| Artifact cache | `bootycall-extractor/src/*` | per host `kernel`, `initrd`, `metadata.json` | `sync_host_cache`: stat, validate, extract (ISO, then disk), record, clean up | image files, HTTP cache route |
| Live reload | `bootycall-core/src/config.rs`, `main.rs` 153-196 | event channel, dirty flag, shared configuration | receive, debounce, load, validate, sync, swap | file system, extractor, all servers |
| HTTP server | `bootycall-http/src/server.rs` | none of its own | `/poll`, `/api/override`; read-only routes | store, configuration, cache |
| Proxy DHCP server | `bootycall-dhcp/src/server.rs` | none of its own | answer PXE clients, record the host | store, configuration |
| Supervision | `bootycall-rs/src/main.rs` | task handles, channels | startup, sweep of stale hosts, select, graceful shutdown | everything |
| LED | `bootycall-led/src/lib.rs` | cached LED values, blink state | boot blink, blink or solid by activity, farewell | store, panic hook, shutdown |
| OLED | `bootycall-oled/src/*` | mode, page, timers, GPIO lines, descriptor, frame | poll, choose a mode, draw, present, blank | store, SSH sessions, panel, shutdown |
| Helpers | `mac.rs`, `path.rs` | none | normalise a MAC, join paths safely | servers |

What is hard in it: UDP loses, duplicates and reorders packets and block numbers
have 16 bits (transfer); many tasks share one store, and each decides on a copy
and writes later (listener, polls, overrides, sweep); extraction is a sequence of
in-place file writes that a crash may cut (cache); events are batched, delayed by
long syncs and mixed with those of other files (reload); clients and the health
probe read the artifacts while they are rewritten in place; three writers drive
one LED, two of them behind the third one's cache; shutdown crosses two
channels, two tasks and a thread; optional hardware goes away and returns; image
files, their directories and offsets may be damaged. What makes each part
correct is the list of properties in section 3; the hazards behind them are
in `PROJECT.json`, each at its line.

## 2. Modules

**`FileTransfer`** is the abstract specification of one transfer: blocks are
delivered in order and once, `Completed` implies that all were, the outcome is
final, and there is one eventually.

**`TftpTransfer`** is `handle_tftp_transfer` with `send_and_await_ack`, one
action per exit of each `match`. Variables carry the code's names (`base`,
`next_to_send`, `last_block`, `buffered`, `retries`); `pc` says where the task
waits, `filepos` is the position of the file, `verdict` what the task wrote to
the store. The file is the sequence of blocks that `read_fill` cuts; payloads
are block numbers, and a DATA packet carries its absolute number as a ghost
next to the wire number. Of the options only `windowsize` matters to the
control; the others are "present or not". The network is a set of packets that
were ever sent, each of which can be received never, once or repeatedly and in
any order. The client accepts the next block in order, acknowledges what it has
at any moment, and may abort. Two things are assumed of the network and marked
external: a packet is gone by the time the sender is `WireMod - 1` blocks past it
(`Alive`), and a client sees only this transfer's packets (sockets are
connected).

**`StateStore`** holds the store's operations, each under its lock and hence one
step; `TftpServer`, `HttpServer` and `PxeBoot` extend it.

**`TftpServer`** is the listener, the spawned tasks, the permits and the sweep. The
lookup of the host and the Booting mark are two steps, as the store is unlocked
between them. A transfer is abstracted to what `FileTransfer` says of it: it ends
Completed, Failed or unreported, before its deadline.

**`HttpServer`** is `/poll` and `/api/override`, each a decision under the
configuration's lock followed by a record in the store, concurrent with each
other, with DHCP exchanges, reloads and the sweep.

**`ExtractorCache`** is `sync_host_cache` over the three files of one host. A
cached file is described by what it was cut from (image, version, override) and
whether it is complete; `metadata.json` is absent, torn or a key. Creating and
filling a file are two steps, so a crash can fall between them. The two
extractors differ in how they find files, not in what they write in which
order; each may fail at any point. A version stands for (mtime, size), and a
replaced image gets a new one; replacing an image by an older one is not
modelled. Removals in the cleanup are taken to succeed; where they do not, the
files are those of a crash at that point.

**`ConfigWatch`** is the startup order of `main`, the watcher thread of
`watch_config` and the reload callback.

**`ArtifactService`** extends `ExtractorCache` by `/api/health`, which looks at the
two files of a host one after the other while a sync may rewrite or remove them.
The fleet is one host, since hosts have directories of their own.

**`ImageWalk`**, **`DiskExtract`**, **`PartitionSlice`** and **`CappedCopy`** are the parts of
the extractors: the bounded recursive search, with the recursion as a stack and
images whose directories may contain each other, against a reference that knows no
search (the first of all paths that lead to a deciding entry); the loop over the partitions;
the window into one, with offsets of a small integer width; and the copy with
its cap. In the code they are sequential functions; `MCAlgorithms` runs each of
them, and the display's two, over every small input.

**`PxeBoot`** extends `StateStore` by the first half of a boot: the proxy DHCP
server's filter, loader, next server and reply destination, and the TFTP
listener's redirect to a host's own loader. Clients are on the server's network or
behind a router, have an address or not, put it into `ciaddr` or not and set the
broadcast flag or not; the server's socket is bound to an address or to any, and
other networks are reached by the interface of the clients, by another one or by
none, which may change with every request. A file is a pair of its owner (a kind of
default bootloader, or a host that has it as its override) and a name, so that being
given another host's file, or a file under a name that is no longer configured, shows.
Reloads add, withdraw and replace overrides and rename defaults; an override that
names the same file as a default is not modelled. What the client hears and reaches
(`Hears`, `Reaches`) is the network's part and external: broadcasts stay on the
server's network and are not received by a socket bound to an address, a local client
reaches the server's address on its own network, and a remote one that of the
interface by which the server reaches it or at which its request came in.

**`LedManager`** is the boot blink, the LED manager with its cached writes, and the
panic hook; every write to one of the two LED files is a step of its own.

**`DisplayTask`** is the contract of the display thread (starts, shows frames, and when
told to stop blanks the panel and ends); **`OledManager`** is the render loop with
the framebuffer's descriptor and the GPIO lines, and implements it.
**`ScreensaverBounce`** is its bounce arithmetic. **`OledLine`** and **`OledLayout`** are
the drawing functions with arithmetic worth checking: the line, the brightness
table, the packing and the alignment.

**`Supervisor`** composes `LedManager` and `DisplayTask` with `main`: startup and
its failures, the spawned servers, the `select`, `graceful_shutdown` and the
bridge task between the OLED's channel and its thread. What makes `select` return,
a signal or the end of a server or of the sweep, is one flag, `trigger`.

The theorems are in modules of their own: `TftpTransfer_proofs`,
`TftpServer_proofs`, `HttpServer_proofs`, `PxeBoot_proofs`,
`ConfigWatch_proofs` and `Supervisor_proofs` for the modules they are named
after, `ExtractorCache_proofs` for the cache, the probe and the extractors'
algorithms, and `Oled_proofs` for the render loop, the line and the display's
arithmetic. The inductive invariants that no run checks by name are defined
there; they were checked with TLC on the runs' instances before they were
proved. `MC*` modules and configurations instantiate the specifications for TLC. Definitions
introduced by a comment "Mutant:" are plausible bugs, substituted for the
definition that follows to show that a property notices them; no specification
uses them.

## 3. What is checked

| Run | Configuration | Shows |
|---|---|---|
| `tftp` | `MCTftpTransfer.cfg` | `ReceivesPrefix`, `CompletedIsDelivered`, `BufferIsWindow`, `ReadsForward`, the inductive invariant `TransferInv`, `Terminates`, and `ImplementsFileTransfer` (safety and liveness of the abstract specification) |
| `tftp_report` | `MCTftpReport.cfg` | finding: a transfer can end unreported |
| `extractor_cache` | `MCArtifactService.cfg` | no faults: `HitIsExact`, `PairNeverMixed`, the inductive invariant `SettledInv`, and `HealthIsTrue` |
| `extractor_crash` | `MCExtractorCrash.cfg` | crashes and failed metadata writes, one host configuration: `HitIsExact` |
| `extractor_revert` | `MCExtractorRevert.cfg` | finding: with crashes and a configuration that changes back, `HitIsExact` fails |
| `tftp_server` | `MCTftpServer.cfg` | `LimitsKept` (permits, hosts, log), `ReporterTracked`, `SlotsComeBack` |
| `http_server` | `MCHttpServer.cfg` | `OverrideKept`: no recorded override is lost; `OverrideServed`: it takes effect |
| `config_watch` | `MCConfigWatch.cfg` | `LiveIsSynced`, `EditIsPending`, `EditTakesEffect` |
| `supervisor` | `MCSupervisor.cfg` | `TriggerExits`, `SettledExitIsWhite`, `ExitIsBlank`, `LightFollowsActivity` (solid blue when idle, blinking when not) |
| `oled` | `MCOledManager.cfg` | `PanelIsRight` (box, brightness, one report of absence), `ModeFollowsActivity`, `PictureMoves` (every page has its turn, every screensaver frame has moved), `HardwareComesBack` (panel and lines), `ImplementsDisplayTask` |
| `pxe` | `MCPxeBoot.cfg` | `ReplyServes` (which replies arrive and name a server the client reaches), `LoadsItsOwn` (whose files a client is given), `OverrideLoaded` (when they are those of the present configuration) |
| `algorithms` | `MCAlgorithms.cfg` | `WalkIsFirst`, `OneSystem`, `InsidePartition`, `SeekIsExact`, `CapIsExact`, `LineIsExact`, `DisplayArithmetic`, `Returns` |

A property that joins several statements about one part is the conjunction of
named ones, each with its comment, in the module.

**Bounds, and why they are enough.** *tftp*: seven blocks under five wire
numbers wrap the numbers while up to three blocks are in flight, so that old packets
with other numbers of the round before are still around (`Alive` rules out that two
blocks with one number are); three retries let timeouts, stale ACKs and garbage mix. The theorems remove these bounds. *Cache*:
two images, two overrides and one replacement suffice for every kind of mix
between two keys; three replacements in the crash run allow a crash, a second
crash and a recovery with three versions. The theorems remove these bounds too.
*tftp_server*: three hosts for a store of two, two tasks for one permit, time to
live longer than the deadline and a clock long enough for a host to go stale, be
swept and return. *http_server*: two handlers in progress, two hosts for a store
of one, one target whose script fails to render; `Ttl` is reached within the
clock's bound. In these two runs the log keeps nothing (`MaxLogs` is 0, nobody
reads it; `LimitsAreKept` proves its ceiling for every one); in *pxe* it keeps one event. *config_watch*: three events in the channel,
two good contents, one that makes the callback panic, one invalid, and a missing
file. *supervisor*: one write that fails or one panic, at any point. *oled*: every
part of the environment changes at any time; limits of two ticks, so that each
timer can expire before, with and after the others; two pages; a box of three by
two positions, in which the two axes turn at different moments. *pxe*: two clients
compete for one address, with two names for every file, so that an override or a
default can be replaced while the old name is on its way; three architectures, one
for each default loader (the other two take the same branch as x64, and nothing is
claimed of what they run); clients and names are symmetric. *algorithms*: two directories make cycles
of length one and two, and with a cap of three a path can go round; three
partitions give one before and one after the one that matters; four-bit offsets
have a partition longer than the largest signed number; artifacts of three buffers
meet caps at and beside a buffer's end; lines join any two points of an 8 by 8
grid that is larger than the panel of the model. Brightness table and alignment
are checked with the panel's own numbers, for every brightness, grey level, width
and height. Deadlock checking is off where the system may stop: a finished
transfer or algorithm, a stopped clock, a program that exits.

**Fairness.** `TftpTransfer`: weak fairness of the task as a whole, justified by
the runtime that polls it and by a timeout on every receive; nothing is
assumed of client or network, and the deadline need not pass.
`TftpServer`: weak fairness of each spawned task, which `Terminates` justifies.
`HttpServer`: weak fairness of a handler under way (it has no await), and strong
fairness of each host's polls: the retry script that the server hands out makes
the host poll for ever, and requests of others only delay it. `ConfigWatch`:
weak fairness of startup and of the watcher thread, and `Quiet`: the directory
is quiet now and then for the 200 ms of the debounce. Without `Quiet` a file
written continually next to the configuration postpones the reload for ever.
`LedManager` and `Supervisor`: weak fairness of main, of every task and of every
write, and strong fairness of taking a message at a `select` against a fresh
500 ms sleep, which a message that is already there wins. `ManagerTick` assumes
that the boot blink, told to stop before the manager was spawned, is through
with its two writes when the manager's first 500 ms are over; the farewell has
no such delay and may overtake it. `OledManager`: weak fairness of the thread,
whose sleeps and writes end. `MCAlgorithms`: weak fairness of the running
function's next step; nothing else can stop it.

## 4. What is proved

All theorems hold for every value of the constants under the stated assumptions.
Each rests on an inductive invariant; the theorems are listed in `PROJECT.json`.

*Transfer* (`TransferAssumption`: positive sizes, and a window smaller than the
number of wire block numbers; in the code 32 < 65536).
`TransferInvariant` proves that `TransferInv` is inductive. None of its parts is
inductive alone: that the client never mistakes a block (`ReceivesPrefix`)
needs that every DATA packet alive is about a block close to the one wanted,
which needs the bounds on the cursors and on the buffer (`BufferIsWindow`,
`Bookkeeping`) and that blocks are retired only when received
(`RetiredIsReceived`); that in turn needs that an ACK's wire number identifies its
block, which needs that ACKs never run ahead of the client. The arithmetic core
is `CloseRemainders` (two numbers closer than the modulus with equal
remainders are equal), used by `AckMeansItsBlock` and `DataIsNextBlock`. From the
invariant follow `TypeCorrect`, `Integrity`, `Completion`, `WindowSafety`, the
action property `ForwardReading`, and `Refinement`: every step of the transfer is
a step or a stutter of `FileTransfer`. `StepsAreCounted` is the safety half of
`Terminates`: phase, `base`, retries and the reading position, compared in this order,
only go forward with a step of the task (`GoesFurther`), are bounded (`Bounded`), and no
duplicate, rollback, client or clock takes them back.

*Listener and store* (`ServerAssumption`, `StoreAssumption`: more tasks than
permits, and a transfer deadline shorter than the time after which a host is
stale, as the constants of the code are). `ServerInv` adds three facts to the limits:
a running transfer is within its deadline (`WithinDeadline`), its host was seen
no earlier than the transfer was spawned (`ReporterFresh`), and the host of the
request at hand was seen just now (`RequesterFresh`). Together they say that a host
cannot be stale while its transfer runs, which is `ReportersAreTracked`; the bounds
(`LimitsAreKept`) need the accounting of permits by the tasks that hold them.
From the same accounting, `FullServersAreBusy`: when no permit is left, a transfer
within its deadline, or one that has ended, holds one.

*HTTP* (`HttpAssumption`). `OverridesAreKept` is an action property:
`update_host_status` keeps the override of every tracked host it is not given
another one for (`UpdateKeepsOverrides`), and no handler gives it one but
`/api/override`, which follows from what a handler carries between its decision and
its record (`CallsOK` in `HttpInv`). `OverrideDecides` is the fact about one decision
that `OverrideServed` rests on: with the override recorded and its target configured
and renderable, a poll boots that target and nothing else.

*Proxy DHCP* (`PxeAssumption`: the unspecified address, the relay's and the
broadcast address differ, hosts are not kinds of defaults). `RepliesServe` goes through
what a client may send, without an address (`UnaddressedServed`) and with one
(`AddressedServed`), and says exactly which replies arrive and name a server that the
client reaches. The inductive part is `OfferIsOwn`: whatever was reloaded since, what a
client was told to load is or was its own override or a default of its architecture.
With what the redirect may return (`GivenFile`, `EfiDefaultKinds`) it gives
`LoadersAreOwn` and `OverridesAreLoaded`: a client that asks for a present EFI default
asks for the one of its own architecture, so that, redirected or not, it gets what the
configuration assigns to it.

*Live reload* (`WatchAssumption`). `EditIsPending` alone is not inductive: while a
sync or a swap of an older content is under way, a newer edit is pending only because
its event is still in the queue (`LateEditWaits`), also when it takes the file back
to a content that was live before. `SwapsSynced` and `StartsInOrder` give
`LiveConfigIsSynced`.

*Supervision* (`LedAssumption`: the bound on faults is a number).
`SettledExitsAreWhite` needs to know what the LED manager's cache of written values is
worth. The panic hook writes behind it, but only white, which is what the farewell
writes too (`HookIsWhite`, `MemoryHolds`); a farewell that was begun goes on to its last
write (`FarewellGoes`); and the shutdown takes its steps in order (`StopsInOrder`).
`ExitsAreBlank` follows from who joins whom (`DisplayJoined`). `AwaitedAreTold`: a
task that the shutdown waits for has been told to stop, by a message that is under way or
was taken (`Messages`), so that nobody waits on somebody who waits. `MemoriesAreTrue`: until
the farewell, and as long as no panic hook ran, what `set_led_cached` remembers is what the
LED shows, though the boot blink writes the same files and writes fail.

*Cache* (`CacheAssumption`). Without faults (`NoFaults`) `SettledInv` is
inductive (`SettledInvariant`): it says how far a running sync has got (`Progress`)
and that between syncs the cache is empty or describes itself. It gives
`HitIsExactWithoutFaults` and `PairsWithoutFaults`. With faults, for a host that has
one configuration (`OneConfig`), `CrashInv` is inductive: `metadata.json` names the
current version of the image only while the files are that version's, which rests on
versions only growing. It gives `HitIsExactAcrossCrashes`. The run `extractor_revert`
shows that `OneConfig` cannot be dropped. With crashes
alone excluded (`NoCrashes`) metadata writes may fail, and `PairInv` is inductive still
(`PairsWithoutCrashes`). For the health probe `ServiceInv` adds what a
half finished probe knows as long as no sync has begun since it started
(`ProbeHolds`), and gives `HealthWithoutCrashes`.

*Extractors' algorithms.* `CapsAreExact` (`CopyAssumption`): while `copy_capped` runs,
what was read is what was written and is within the cap (`CopyInv`).
`SlicesStayInside` and the action property `SeeksAreExact` (`SliceAssumption`: the
partition ends within u64; this is assumed of the offsets that the `gpt` crate hands
out, the code adds them unchecked): seeks may go beyond the partition but
never below it, and a transfer is clamped to what is left (`SliceInv`), for every
integer width. `ExtractsOneSystem` (`DiskAssumption`): no partition before the one that
is tried has a kernel, nothing was written before the first that has one, and the
initrd is looked for there (`SearchHolds`), for a table of any length.
`WalkFindsFirst` (`WalkAssumption`: the names of directories are not those of the kinds
of files) is the correctness of the recursive search for every image, cycles included.
`WalkInv` says that the calls under way are a path of the image, each in the entry its
caller is at, and that every path that leads to a deciding entry is the place of the
search or after it. A step keeps this because there is no path between two consecutive
places: what is entered is the first path below, what is left has no path left below it,
and what is refused leads nowhere within the depth bound. That a path goes through one
sequence of directories only (`SameDirs`) is an induction along the path; it is done by
least counterexample (`LeastElement`, from `WFMin` of the library), which needs no operator
as a parameter. `WalkGoesForward`: each step that does not return goes to a later place in the order
of paths, which is irreflexive and transitive (`BeforeAsymmetric`, `BeforeTransitive`).

*Display* (`OledAssumption`, `BoxAssumption`, `LineAssumption`, `LayoutAssumption`:
positive numbers, walls that are apart, numbers of the widths in the code). `OledInv`
says that the lookup table is that of the mode at every point, that the page exists,
that the latch is set only if nothing was reported, and that at a wall the text already
faces the inside (`FacesInside`, without which a pass could leave it where it is). It gives
`PanelsAreRight`, `TextAlwaysMoves` and `ThreadIsDisplayTask`, the safety part of
`ImplementsDisplayTask`: the supervisor's theorems about its display hold of the
real thread. `PicturesAreCurrent` (`PictureInv`) relates the loop to the world around it:
a live descriptor has its device, the thread sleeps only when the panel shows the picture
of this pass or the latch says that it does not, and the screensaver runs only while no
session was counted and the timeout has gone by. `LinesAreExact` is the correctness of the integer line algorithm
between any two points: the accumulated error is the distance from the true line in
units of the longer side (`OnTrack`), and by `HalfPixel` each iteration moves along
the longer side and keeps that distance within half a pixel, so that neither
coordinate can pass its end point; `PixelsHold` counts the pixels. `LinesEnd` is the loop's variant, the steps along the
longer side. `DisplaysAreRight`
follows from `ScaledOrdered` (scaling keeps the order of grey levels and
brightnesses), `PixelChannels` (what the panel reads back from the swapped bytes), and
`SmallMinus` and `WrappedMinus` (where the subtraction of `align_x` wraps).

*Only model-checked*: liveness (`Terminates`, `SlotsComeBack`, `OverrideServed`,
`EditTakesEffect`, `TriggerExits`, `LightFollowsActivity`, `ModeFollowsActivity`,
`PictureMoves` as a whole, `HardwareComesBack`, `Returns` and the fairness part of the
two refinements), which is beyond the prover. What these rest on in each state is proved
for most of them: the variants `StepsAreCounted`, `WalkGoesForward` and `LinesEnd`; that what is
waited for is under way, in `FullServersAreBusy`, `AwaitedAreTold` and
`EditsAreNotForgotten`; and that what is decided on is true, in `OverrideDecides`,
`MemoriesAreTrue`, `TextAlwaysMoves` and `PicturesAreCurrent`. That the steps are then
taken is fairness. Of the line that comes back (`LineComesBack`) and the rotation of
pages nothing of the kind is stated; the loops over partitions and buffers count up in
every action.

## 5. Where the code and its documentation disagree

1. *A failed open or read is not reported* (`tftp_report`). The comment on
   `mark_tftp_failed` says it is called from every failure path so that no host
   stays in `Booting`; a failed open, metadata or read returns without it.
2. *Old metadata vouches for new files* (`extractor_revert`). The old
   `metadata.json` stays while the artifacts are overwritten; after a crash and a
   change of the configuration back, the cache counts as valid.

Modelling also met limits of the code that the properties state as exceptions:

- The watcher is armed after the initial sync: an edit between the first load
  and the end of that sync raises no event (`edited` in `ConfigWatch`).
- The panic hook writes behind the LED manager's cache: after a contained panic
  an idle manager leaves the light white (`Serving` in `Supervisor`).
- The boot blink is told to stop and not awaited: if a server fails during its
  three seconds the process may exit with the blink's blue (`settled`).
- `align_x` underflows for a right-aligned text of 156 to 159 pixels, narrower than the
  panel by less than the margin: a debug build panics, a release build places it off
  the panel. Its comment says right-aligned "with an edge margin" and that text "is not
  pushed off-screen" (`bootycall-oled/src/lib.rs` 698-701). `TextOnPanel` says exactly
  which texts are whole on the panel.
- "Ordering follows RFC 2131 4.1", says the comment on `choose_reply_dest`
  (`bootycall-dhcp/src/server.rs` 99); the RFC looks at the flag only when `ciaddr` is
  zero, the code looks at it first. A client behind a router that has an address and
  sets the flag is answered by a broadcast that does not get there (`ReplyArrives`).
- A client that gives no address to a server bound to any is told the address of the
  default route's interface as next server: on a machine whose default route leaves
  elsewhere that is the wrong side, and without one it is 127.0.0.1
  (`NextServerReached`).
- The TFTP redirect finds the host by address, while `docs/spec.md` 90 has overrides
  per MAC: an EFI client that got an address which the store still has for another
  host is redirected to that host's override (`LoadsItsOwn`), and one that was
  recorded before it had its address is not redirected at all.
- The redirect compares with the present EFI defaults: a client told an override that
  was since replaced, or a default that was since renamed, is served the old file, and
  a BIOS client gets its host's override only from the DHCP reply (`OverrideLoaded`).
- A crash of the model stops the process between two writes and keeps those made so
  far. The code syncs no file to disk, so that after a power loss later writes may
  survive earlier ones; `docs/operations.md` 45-47 tells the operator to remove the
  cache by hand after one. `HitIsExactAcrossCrashes` does not cover that case.
- A reload whose sync fails is logged and swapped in (`LiveIsSynced` speaks of syncs
  that were tried).
- `/api/health` reports presence, not wholeness: a file cut by a crash counts as
  ready until a sync succeeds (`HealthIsTrue` is checked and proved without crashes).

## 6. Not modelled

Glyphs, icons, braille dots (which the right wall of the bounce box clips, as it
is computed from the text alone), PNG files, metric values, log formatting and
the dashboard: layout or pure I/O. The simulation sink and the commands
`oled-test` (apart from its alignment), `led-test` and `check-config`: tools that
run without the service. Packet bytes, option values other than `windowsize`,
names and paths, MAC formatting and `safe_join`: abstracted to what the models
tell apart; ISO, GPT, FAT and DHCP parsing is in libraries. HTTP's menu,
wallpaper, status and log routes read and format; a boot file that is streamed
while a reload rewrites it in place is whatever the file system returns. Single
field checks of `validate` are guards on strings.

Some orderings are possible in the code and no property says anything about
them, because the code promises nothing: a client that repeats its read request
gets two transfers, and the abandoned one's report may overwrite the other's;
each duplicate ACK of a healthy client uses up the retry budget; a host is marked
Booting before its socket is bound and its permit taken; a request is attributed
to any one of several hosts with the client's address (`TftpServer` models this
choice); `/api/override` answers ok when a full store drops the assignment (the
model drops it as well, and `OverrideKept` speaks of recorded overrides);
modification times are cut to seconds, so that an image replaced twice within
one, with the same size, looks unchanged; an overflow of the kernel's event queue
yields an event that the watcher ignores.

## 7. Plan

Done: every part with state or with arithmetic of its own is modelled and checked,
and every safety invariant and every action property that a run checks is proved for
every value of the constants. Left:

1. That the host store's operations keep what `TftpServer`, `HttpServer` and `PxeBoot`
   each prove of them, as lemmas stated once for `StateStore`.
2. `TftpServer` over the transfer itself instead of what `FileTransfer` says of it.
