# TLA+ models of Controlis

Controlis is a remote-control program: a *host* shows an access code, a *viewer*
dials it (on the LAN over QUIC, over the Internet through Iroh and a rendezvous
server), authenticates with the code, may have to be approved by the host's
user, and then sees the screen and controls mouse and keyboard. This directory
holds TLA+ models of the parts whose correctness depends on the order of things,
the TLC instances that check them and the TLAPS proofs about them. Paths below
are relative to the repository.

## Inventory

| Component | State it keeps | Operations | Talks to | What makes it correct |
|---|---|---|---|---|
| Host service, `crates/session-host` (`run`, `run_session`, `authenticate`, `await_approval`) | the round (code, registration, refresh task), the connection served, the guard | register, announce a code, accept, handshake, approve, serve, unregister | listeners, guard, `event_tx` to the pump, `command_rx` from the application | one viewer at a time; a code lets in one viewer; one Approve, one viewer; no connection left open; every exit unregisters; Stop works |
| Session streams, `session.rs:229-503` | active monitor, stop flag, media channel of capacity 1, input channel, held keys | control loop, capture thread, media task, injection thread, teardown | connection, capturer, encoder, injector | keyframe after a monitor switch; keys released; teardown ends; the picture does not stay frozen |
| Brute-force guard, `crates/security/src/rate_limit.rs` | a record per source | `check`, `record_failure`, `record_success`, `expire` | host service | blocks double up to the cap, are waited out, are not forgotten early |
| Application, host side, `commands/host.rs`, `host_panel.rs` | `HostSlot`, the pump, what the panel shows | `start_host`, `host_command`, `stop_host`, `pump_events` | host service through two channels | the panel converges to the host's state; letting go ends the host |
| Rendezvous, `crates/rendezvous`, `servers/controlis-server` | registrations with token and deadline, rate windows | register, refresh, lookup, unregister, purge | host's refresh task, viewers | only the owner changes an entry; an expired entry stays dead |
| Viewer session, `crates/session-viewer` | three tasks over one connection, `ViewerEvent`s | connect, input, control, media, disconnect | host | each ends once the connection does; Disconnected is passed on once; frames in order |
| Application, viewer side, `commands/viewer.rs`, `viewer_panel.rs`, `screen.js` | `ActiveViewer`, known identities, phase and handle of the panel | connect, pumps, input, disconnect | viewer session, storage | trust on first use; one picture; nothing left running |
| Access codes, `code.rs`, `connect_code.rs` | none | generate, parse, verify | host, viewer | parsing inverts packing |
| Protocol framing, `crates/protocol` | bytes of a partial frame | `push`, `next_frame` | transport | no byte lost or read twice |
| Transport, `crates/transport` | endpoints, connections | accept, dial, streams, close | quinn, iroh | handles close what they own |
| Codec, `crates/codec` | reference frame, forced keyframe | encode, decode, negotiate | capture thread, viewer | a delta follows the frame it refers to |
| Input, `crates/input` | held keys and buttons | inject, text, release | injection threads, enigo | held input is released |
| Wayland portal, `crates/wayland-portal` | portal session, EIS devices, commands that wait for them | open, inject, capture, drop | compositor, PipeWire, injection threads | what is pressed is released whatever devices come and go; the drop ends |
| Capture, `crates/capture` | monitors | enumerate, capture | session streams | nothing here depends on an order |
| Storage, application shell | files, SQLite, windows | single statements | application | nothing here depends on an order |

The hard behaviours are the asynchronous ones: three processes at each end joined
by unbounded channels, a `select!` that cancels what loses, a user who clicks at
any time, viewers that leave at any time, a server that forgets, and threads that
outlive the session they belong to. `PROJECT.json` lists them as hazards, each at
its line with the properties that would catch it.

## Modules

| Module | Models | Kind |
|---|---|---|
| `HostContract` | what a host promises: one viewer at a time, let in with the newest code, unused before | abstract specification |
| `HostService` | `session-host` from `run` to the approval, the command and event channels, the slot, the pump and the host panel, the viewers and the network around them | detailed specification, implements `HostContract`, uses `Lockout` |
| `Lockout` | the guard without a clock: strikes, blocks that lapse, sources that are forgotten | abstract specification |
| `BruteForceGuard` | `rate_limit.rs` with instants and deadlines, driven the way `authenticate` drives it | detailed specification, implements `Lockout` |
| `ScreenMirror` | what a session promises about the picture: whole screenshots, in order, none left out | abstract specification |
| `MediaStream` | the picture's way: control loop and teardown, capture thread, tile encoder, media channel and task, stream per frame, decoder and the viewer's media task | detailed specification, implements `ScreenMirror` |
| `Lease` | what the rendezvous server promises: an id has one holder at a time, and a lease ends a TTL after its holder was last heard of | abstract specification |
| `Registration` | the rendezvous store and its handlers, the registration of a host round by round, its refresh task, a network that delays and loses | detailed specification, implements `Lease` |
| `EisInput` | the EIS client thread of the Wayland backend and the compositor it talks to | component of `InputStream` |
| `InputStream` | the input's way: choice of the backend, control loop, injection threads of successive sessions, both injectors, `PortalHandle::drop` | composition, extends `EisInput` |
| `TrustOnFirstUse` | what the viewer promises about the identities of hosts | abstract specification |
| `ViewerSession` | the viewer: panel, commands, pinning, the tasks of `session-viewer`, event pump and frame pump, for attempts that overlap | detailed specification, implements `TrustOnFirstUse` |
| `MCHostService`, `MCBruteForceGuard`, `MCMediaStream`, `MCRegistration`, `MCInputStream`, `MCViewerSession` | the instances for TLC | |
| `HostServiceProofs`, `BruteForceGuardProofs`, `MediaStreamProofs`, `RegistrationProofs`, `RegistrationTimelyProofs`, `InputStreamProofs`, `ViewerSessionProofs` | the theorems and their proofs | |
| `FoldTheorems` | what `FoldLeft` makes of a sequence of any length; used for the host panel | lemmas |

`HostService` holds the guard as an instance of `Lockout`; that the real guard may
be put in its place is what `BruteForceGuard` is checked, and proved, to implement.
`HostService` meets `MediaStream` and `InputStream` in `stream_and_control`: the
first takes a session for one control state (`StartSession`, `EndSession`), the other
two open it up, the picture's way and the input's, and run sessions one after the
other, which is all `run` lets happen. They share the end of the control loop and
nothing else: capture thread and injection thread never meet.
`ViewerSession` is the other end of a connection. What it does with the frames it
receives is the viewer's half of `MediaStream`; what `HostService` does to it is
`Authenticate` (an accept) and `Close`.
`HostService` and `Registration` meet in `register_internet` and
`unregister_internet`: the first takes them for single steps of one host
(`Register`, `Unregister`), the second opens them up, for several hosts and one
server, and takes what the host does with its connections for one step (`EndRound`).

### How `HostService` corresponds to the code

`pc` is where the task `run` is: `Register` and `Announce` are the head of the loop
(`lib.rs:170-180`), `Accept` is `accept_any`, `AcceptControl` to `Accepting` are the
awaits of `run_session` and `authenticate` in order, `Setup`, `Session`, `Replying`
and `Teardown` are `stream_and_control`, `Unregister` is the end of the round and
`LastUnregister` the one before the `return` of line 191. Each await is a place of
its own because everybody else may move there; what lies between two awaits is one
action, with all its sends and assignments.

`Session` is the `select!` of `control_loop`, and `Replying` one of its message
arms: a `Ping`, or a `SelectMonitor` of a monitor there is, is answered inside the
arm (`session.rs:382-387`, `403`), and until that send is done nobody looks at
`command_rx`. A send is done when the viewer reads or its connection ends; a viewer
that does neither keeps the host in `Replying`. The other messages of a session
change nothing here and are left out, like what the answers of the handshake say;
these and the list of monitors are sent before the session, and fit in the window
quinn grants a new stream (`tls.rs:42` configures none), so that only the answers of
`control_loop` can wait for a reader.

`code` counts rounds and stands for the code itself: two codes are the same code
exactly when they are of the same round. `reg` says that `internet_registration` is
`Some`, `refresh` is the set of refresh tasks that run (named by the code of their
round; a detached one stays in it). `events` and `commands` are the two unbounded
channels. A connection goes through `idle`, `queued` (in a listener's queue),
`shaking` (taken off it, inside `accept_any`), `open` and `closed`; a handshake ends
well (`AcceptOk`), ends the round with an error (`AcceptFails`) or, on the Iroh
listener, shows another protocol and is dropped while the listener goes on
(`WrongProtocol`). The path it came by decides which address the guard sees
(`remote_address` is `0.0.0.0` for all Iroh peers). `panel` is what the host panel
displays after the events it got, and a click is possible when the panel shows the
button. `clickLog`, `approvedBy` and `usedCode` are history variables: no guard
reads them.

### How `BruteForceGuard` corresponds to the code

One action per method; `check` begins with `expire` as in the code. `attempt` is the
connection between `check` and its outcome, any time apart (the approval waits for
the user); `Abandon` is the declined one. `since`, `mandated` and `latest` are
history variables.

### How `MediaStream` corresponds to the code

`phase` is where `stream_and_control` is: `streaming` is `control_loop`, `join` and
`await` are the two waits of the teardown (`session.rs:347-348`). `activeId` and
`stop` are the two atomics. They are read in different steps of the capture thread,
but each iteration reads them once, so `Watch` (the head of the loop, up to
`try_reserve`) is one action and `CaptureFrame` (capture, encode, `permit.send`)
another; `SeeStop` is the test of `stop` that ends the loop. `prev` is the encoder's
reference, `chan` the channel of capacity 1, `hand` the message the media task is
sending, `wire` the streams on their way. `canvas` is the decoder's and, cloned into
the `FrameSlot`, the picture the viewer shows.

A picture is a size and a colour per tile. `Encode` and `Decode` are the rules of
`encoder.rs` and `decoder.rs`: full frames and tiles that changed, a canvas that is
replaced or patched, a delta that fails on a canvas of another size. JPEG is an
arbitrary function of a tile (`Jpeg`), not the identity: the encoder compares what
it captured while the decoder keeps what came out of the compression. That a tile
comes out the same whether it is compressed alone or as part of the whole picture
is assumed of the JPEG library (tiles are 64 pixels wide, a multiple of its blocks;
a decoder that smooths chroma over the edge of a tile differs there by a shade).
`shown` is a history variable. Left out: `frame_id`, bandwidth accounting, the
pacing sleeps, the `Resize` answer and the MonitorList that announce geometry.

### How `Registration` corresponds to the code

`entries` is the store. A handler takes the lock and reads the clock under it, so
each is one action, and each begins with the purge (`Purged`). `calls` and `answers`
are the HTTP requests and responses on their way: a call is handled at any later
time, in any order, whether or not somebody still waits for the answer; the task that
waits (`Awaited`) is `run` or the refresh task. `round[h]` is where `run` is,
`task[h]` the refresh task: an `Interval` whose first tick comes at once and whose
missed ticks come in a burst, so `due` moves by one `Period` from where it was and
not from now. `EndRound` aborts the task and sends the unregister; a refresh under
way stays in `calls`. `CodeNotTaken` is the `return` at `lib.rs:179`, which leaves
the task running. `LoseCall` is a connection that fails or the rate limiter that
refuses (`controlis-server/src/lib.rs:120`), `LoseAnswer` an answer to a register
call that does not arrive: the server then holds an entry whose token nobody has. A
token is the number of the call it was drawn for, as the 128 random bits are taken
never to repeat; a session id is drawn anew for each round and may be drawn twice.
`owner`, `faults` and `late` are history variables (the bound on `faults` apart).
All hosts ask for the same TTL, below the maximum of 120 s; host and server share
one clock, which a difference of the two would only make later or earlier calls.

### How `EisInput` and `InputStream` correspond to the code

`EisInput` is the thread of `eis_input.rs`, one action per event of the ei
connection and per message of its calloop channel. The compositor is not in the
repository: it is taken to behave as the ei protocol says. A request to a device
that is not resumed is ignored, a device it pauses or removes lets its items go, a
client that disconnects takes its devices with it, requests arrive at once, and it
offers one device of a class at a time (with two keyboards, a key pressed on the
first and released on the second stays down: the code keeps the newest only).
`seat.device`, `device.interface`, `keyboard.keymap` and `device.done` are one event.
`pending` is one sequence per class of command, because `can_apply` only looks at the
class and `flush_pending` keeps the order. `Lacks` says which keys are in no keymap
and which buttons on no pointer: `apply` then warns and drops the command, and the
run has such a keyboard. Motion and scroll leave nothing down and are left out.

In `InputStream` `backend` is the choice of `build_backend`, `host` also says how far
`PortalHandle::drop` is, in the order of the code: the PipeWire loop is asked to
quit and joined, the EIS thread gets `Shutdown` and is joined, the portal task is
signalled and waited for, two seconds at most. A session has a channel (`chan`), a
thread (`injection`), which nobody joins, and an injector with what it holds
(`held`). Text is a press and a release of each character on the portal, two
commands between which another thread may send; with enigo it is one call that
leaves nothing down. `release_all` releases one item per step, in an order left open;
`held` counts down. That enigo's releases succeed there is assumed: the code
ignores their errors. `Mute` are the keys without a code.

### How `ViewerSession` corresponds to the code

An attempt is one call of `connect` of the panel with all that follows from it: the
command `connect_viewer` (`pc` names the await it is at), the three tasks of
`session-viewer`, `pump_events` and the thread of `spawn_frame_pump`. The panel, the
slot (`ViewerSlot`) and the store are shared, and attempts overlap: Enter in the code
field starts another one while the button is disabled. `target`, `known` and `peer`
are the locals of the command and are gone when it returns. `identity` is the world:
the host a target leads to, which may change between any two steps.

`waiting` and `heard` say where a message of the Tauri channel ends up: its closure
lives in the future of `connect` until the invoke resolves, then in `event_closure`
until the next one replaces it. `screen` is the panel's handle. Idle and Failed are one phase, a
click on "Desconectar" is one step with the command it invokes, and events other
than Disconnected only change what the panel writes. `frames` are the attempts
whose frame pump draws; a thread whose `stop_frames` is set ends after the frame it
is at. `NoSender` is the end of the input task by dropped senders, `Reader` the end of the
other two: by the connection, and for the media task by a frame longer than
`recv_media` reads.

The model has states a reader may not expect, because the code has them: a session
that loses the slot to another one stays connected until the host or the network
ends it; an invoke that resolves late sets the panel to the session that lost; two
first connects to one target may both be let in, and the later identity is kept
(`TrustOnFirstUse` allows it, as each goes by what was kept when it asked). They are
hazards of `PROJECT.json`.

## Runs

| Run | Instance | What it shows |
|---|---|---|
| `host_core` | two connection attempts from one machine over two transports, threshold 1, two clicks, approval on and off (388 thousand states) | the safety properties of the host and the refinement of `HostContract` |
| `host_live` | the same with one click and one source for the guard (333 thousand states) | the three liveness properties, with the waits that nothing ends named in them |
| `guard` | two sources, threshold 2, cap after two doublings, history of 5 units, 11 units of time (1.2 million states) | the properties of the guard and the refinement of `Lockout` |
| `media` | two monitors (one drawn on, one that changes its resolution), two tiles, three pictures, one frame in flight, any number of sessions (259 thousand states) | the safety properties of the picture's way, the refinement of `ScreenMirror`, and that a switch takes effect and the teardown ends |
| `lease` | two hosts that draw the same id, two registrations, TTL of 4 units, one fault, 4 units of time (1.4 million states) | the safety properties of the registrations and the refinement of `Lease` |
| `input` | two sessions, two keyboards of which one lacks the key, a key without a code, two losses of a device or of the connection, two inputs, two unread events (935 thousand states) | no key is down, or about to be, that no injector will release |
| `input_live` | one session, a key and a button, two keyboards and a pointer, one loss, one input (95 thousand states) | the desktop is let go after a session, and the portal's drop ends |
| `viewer` | two attempts, a LAN and an Internet target of one host that may become another (1.3 million states) | the safety properties of the viewer and the refinement of `TrustOnFirstUse` |
| `stale_approve` | expected violation | a second click on "Aceitar" approves the next viewer before its dialog is shown (`docs/protocol.md:46`) |
| `orphan_refresh` | expected violation | the `return` at `lib.rs:179` leaves a refresh task behind (`docs/protocol.md:93`) |
| `dropped_host` | expected violation | dropping the controller does not end the accept loop (`commands/host.rs:156`) |
| `refresh_gap` | expected violation | one failed refresh ends the registration of a code that is still shown (`docs/protocol.md:93`) |

Bounds. Two attempts are the smallest number at which a code, a click or a queue
place could serve twice; one attempt may also be the same person trying again. Two
clicks are one more than a request needs. With threshold 1 every failure blocks,
which is the case in which blocks and attempts interleave most; the counting up to
a larger threshold is the subject of `guard`. There, 11 units reach two blocks at
the cap and the end of a history that had one. The viewers, and the two sources of
`guard`, are interchangeable, so the safety runs use symmetry; the liveness run
does not. In `host_live` both viewers fall in one bucket of the guard, as Internet
viewers do: which of them a block hits does not matter to whether the host goes on. `CHECK_DEADLOCK FALSE` is set where a system may stop: a host that
returned, a viewer set that is used up, a clock at its bound.

For `media`, two pictures that differ in one tile and one of another size are what
the encoder tells apart; the two monitors share one of them, so that a switch can
also keep every pixel. With one frame on the wire, one in the task's hand, one in
the channel and one under way in the capture thread the pipeline is as full as
each of its places allows; a longer wire repeats the same frames, and the proofs do
not bound it. TLC runs `JpegTiles`; with `RawRgba` every frame is full, and the
proofs cover both.

For `lease`, a unit is 15 s: the TTL is 4 units and the refresh period 2, as in
the code, and a timely answer comes within one (`TimelyHostsAreFound` proves it for any delay below
the TTL less a period). Four units reach the end of the first
registration while its calls are still under way, and a second one of the same id
in its place, by the same host or the other. With one id every call meets every
entry; more ids would only add stores that do not meet. `refresh_gap` lets the clock
run to 6 because the second tick of the task is due at 4.

For `input`, two sessions are the smallest number whose injection threads overlap,
and two keyboards the smallest at which one takes the place of the other while
commands wait. Two losses cover a device that is paused, resumed and then removed, or
removed and then the connection; two inputs a press whose release is separated from
it by any of these. Keys and buttons are treated alike but for the keymap, so `input`
has keys only and `input_live` one of each.

For `viewer`, two attempts are what it takes to overlap; a third would meet one of
them the way the second met the first. One move of one target is enough for an
identity to be stale, at any of the steps at which it is used.

Fairness (`host_live`). A step of the host task or the pump is weakly fair where it
waits for nobody, since tokio runs what is ready: a receive with a time-out, a
command that is there, a connection that is gone. QUIC handshakes end by the idle
time-out of 30 s if by nothing else. In a session the command branch is ready only
between two messages, so weak fairness would say nothing of it; `select!` picks at
random among its ready branches, so a branch that is ready again and again is taken,
which is strong fairness of `SessionCommand` and `SessionAbandoned` (with weak
fairness TLC finds the viewer that pings for ever, and Stop never seen). Users,
viewers and the rendezvous server are under no obligation: `accept_control` and the
answers of `control_loop` have no time-out and are fair only once the viewer has left
(keep-alive holds up the connection of one that is silent), and with an Internet
registration register and unregister, which have no time-out either, are not fair at
all. The properties name what follows. `StopEndsSession` holds unless a viewer asks and
never reads the answer. `HeldUp` are the places where nothing but a viewer or the
rendezvous server can let the host go on; a host that was let go reaches its
listeners (`StopReachesListeners`) unless it stays in one of them, and `QueueMoves` says
that the queue stands still only there, at a request nobody decides or in a session
nobody ends. Without any of these exceptions TLC finds the property violated, and
without an Internet registration `HeldUp` is only the first two places.

Fairness (`media`). The control task, the capture thread and the media task are
scheduled, and the viewer reads what arrived; `Ends`, `RecvSelect`, failures and
screens are under no obligation. A viewer that stops reading may hold up the media
task in `send_media`: the teardown still ends because it closes the connection
before it waits, which is what the mutant of `TeardownCompletes` takes away.

Fairness (`input_live`). The injection threads, the EIS thread and the steps of
`PortalHandle::drop` are scheduled; a PipeWire loop that was asked to quit returns.
The compositor, the viewers and the user are under no obligation: a device may never
be resumed, and what waits for it then leaves nothing down.

The runs that end by their bounds (`CHECK_DEADLOCK FALSE`): a host that was stopped
and a compositor that has nothing left to do in `input` and `input_live`, a viewer
without attempts in `viewer`.

## Proofs

All proofs are for arbitrary constants that satisfy the assumption of their module
(`HostAssumption`, `GuardAssumption`, `MediaAssumption`, `RegistrationAssumption`,
`EisAssumption` and `InputAssumption`, `ViewerAssumption`).

`HostInv` strengthens the safety properties of the host until they are inductive.
`CodeAdmitsOnce` alone is not: it needs that a code used stays behind the code of
the round (`CodeSpent`), which needs that only the served connection is open
(`OnlyServedIsOpen`) so that nobody who got in is accepted again.
`RefreshOnlyWhileRegistered` needs that a round begins without a registration.
`ServingStepEffect` says once what the seventeen steps of a service do to the control
state, and the lemmas for the parts of the invariant use it. `ApprovalInv` is kept
apart: clicks in the channel are numbered upwards and are younger than every click
that was used, hence `OneApproveOneViewer`. `HostKeepsContract` maps accepting to
`Admit`, teardown to `Dismiss`, a new round to `Issue`, everything else to a stutter.

`GuardInv` relates a record to the history of its source: the blocks given so far
fit between the first failure and the end of the latest one, because a failure is
recorded only for a source that is not blocked. From it follow the waiting time, the
doubling and the refinement of `Lockout`.

`MediaInv` says what the reference chain is: every message under way can be decoded
from the picture the one before it leaves (`Linked`), the first of another monitor is
full (`StandsAlone`), and the encoder's reference is the picture at the end of the
chain (`InStep`). The last holds only while the frames reach the wire, so it is
claimed while the connection and the media task live; `PermitHeld` (a permit is a
free place in the channel) is why a frame that was encoded is never dropped before
that. Cutting the chain anywhere, when a task or the connection ends, leaves a
chain. `ViewerSeesScreenshots` maps `CaptureFrame` to `Take`, `ViewerShow` to
`Show`, every end to `Lose` and `BeginSession` to `Restart`.

`RegInv` says where tokens are: in the store, in a call that shows one, in the
answer to a register call, in a round and in a refresh task, each is with the host it
was given to (`Owned`). That a task waiting for an answer still exists (`TasksAwait`)
is needed so that an answer does not revive one without a token. What the steps do
to the store is said once (`Effects`): they forget entries, renew one that has not
ended, or insert one where none is. Forgetting, renewing and inserting are `Forget`,
`Renew` and `Grant` of `Lease`; `DeadStaysDead` reads off the same three effects.
For `OnlyOwnerRemoves` the invariant is what turns "the token matched" into "the call
is the owner's".

`Inv` of `InputStreamProofs` is what makes `HeldIsAccounted` inductive. Every run of
commands is judged by `After`, what is down once it took effect; lemmas say how that
changes with a command at either end. `NothingWaits` (commands wait only for a device
that cannot take them) keeps a command from overtaking those before it. `DownIsTaken`
(what is down is on a device in use that takes it) is why a release that waited, or
is applied now, lets its item go: it needs `OneAtATime`, by which the device a new one
replaces is gone, also while the announcements are still unread in `events`. Each
step then either leaves less to settle (`StillAccounted`), or puts a command at the end
of the channel after `held` was written (`PortalAccounted`), or changes `down` and
`held` together where nothing is under way (`EnigoAccounted`).

`Inv` of `ViewerSessionProofs` has two parts. `TrustInv` follows the identity through
a connect: `known` is empty until the attempt asks (`Unread`), and the host it is
connected to matches it from then on (`Checked`), though the target may have moved since. `TaskInv`
counts: no more events wait than tasks have ended (`Counted`), whoever has the
receiver of a session that lost a reader finds an event that will end it (`EventsTell`),
and the frame pump of a finished attempt has an event pump that will stop it
(`FramesPumped`). `TrustKept` maps `Begin` and `LookUp` to `Ask`, `Remember` to
`Admit`, every return to `Over`.

`TimelyInv` of `RegistrationTimelyProofs` is about a system that has lost nothing and
is in time. It has five parts that carry each other. Every message is younger than
`Delay` and no refresh is overdue (`Prompt`, which is what `late` being false means
for the present). A host has one call or answer of its own under way at most, and it
is about what the host is doing (`OneAtATime`): the unregister of a round is answered
before the next round begins, so no old one can remove a new registration. A refresh
is under way exactly when the task waits for its answer, and it went out when it was
due (`TaskInStep`): the interval does not drift, although `RefreshAnswered` sets no
new time. What an answer grants stands when the host hears of it (`Granted`). And
the entry of a host that shows its code stands (`Served`): until `Delay` after the
next refresh is due, until `Delay` after it was sent, or, once it was handled, for a
TTL from when it was sent. The theorem `TimelyHostsAreFound` assumes
`Timely`, that is `Period + Delay < Ttl`. This is exact: with a TTL of 4, a period of
2 and a delay of 2, TLC finds a host that cannot be found. In the code (TTL 60 s,
period 30 s) it says that the gap-free renewal depends on answers in less than 30 s.

`PanelInv` says of every sequence of events under way what the panel will show
after them (`Converged`): its subject is `Drained`, a fold over the events in the
channel. An event at the end adds a step after the fold (`FoldLeftAppend`), the pump takes one
off the front and the panel is a step further (`FoldLeftTail`), so `Drained` only changes
when the host tells something; then its step is compared with what the host does
next. `FoldTheorems` proves both for any operator and any length. The
library defines `FoldLeft` by a choice of a recursive function on the sets of places;
that such a function exists takes an induction, which is made over a set of
numbers (`SetInduction`, from the least element of its complement), since the induction
theorems of the library take a predicate as a parameter, which the provers cannot
instantiate.

`TeardownIsBounded` is the part of `TeardownCompletes` that needs no fairness. Once
the control loop has stored `stop` and closed the connection, `StepsLeft` counts what
the capture thread, the media task and the control task still have before them: it is
seven at most, no step of anybody raises it (a viewer, a user or the network cannot
prolong a teardown), every step of one of the three lowers it, and `SomebodyMoves`
says, with the guards spelled out since ENABLED cannot be used, that one of them
has a step to take: the two awaits cannot end up waiting for each other. What remains for
TLC is that a task that can move does.

All safety properties and action properties that the passing runs check are proved,
and so are the refinements. Only model-checked: the
liveness properties (`QueueMoves`, `StopReachesListeners`, `StopEndsSession`,
`SwitchTakesEffect`, `TeardownCompletes`, `HostLetsGo`), which need fairness and
ENABLED and are out of the reach of the prover, and the violations.

## Not modelled

- H.264 (`h264.rs`): the reference chain is inside OpenH264, and the repository says
  nothing of it but that a keyframe can be forced. `MediaStream` has the tile codecs.
- Geometry: coordinates are floats, which TLC does not have, and are covered by the
  tests of `coords.rs`; a resolution that changes is in `MediaStream` as a picture of
  another size, the `Resize` answer and the list of monitors are not.
- The decoder of the control stream (`protocol/src/frame.rs`): its buffer outlives a
  read that `select!` cancels, so no interleaving reaches it; that it inverts the
  encoder is a sequential property its tests cover.
- A media task of the viewer that ends while the connection stays open, which takes a
  stream that is no message or longer than `recv_media` reads (`connection.rs:194`; a
  picture it cannot decode is reported and passed over): in `MediaStream` the task ends with the connection.
- The counting of the server's rate limiter: `Registration` lets it refuse any call.
- Access codes and connect codes: pure functions over strings with tests of their own.
- Keys in the webview: `screen.js` and `input_map.rs` translate names, and release the
  modifiers on blur (`docs/STATUS.md:197`). A letter key that goes up outside the window
  stays down until the session ends; `InputStream` starts where its message arrives.
- `session_code_ttl_minutes` is written to the configuration and read nowhere; there
  is no expiry to model.
- The audit log, storage but for the known hosts, Tauri set-up, rendering.

Out of scope: cryptography, QUIC and Iroh themselves, OpenH264 and the JPEG library,
PipeWire, the portal dialog.
