# Verification of wsrpc

wsrpc is a Go library for remote procedure calls over websockets with mutual
TLS. Either side of a connection may call the other. A peer is identified by the
public key in its certificate. This directory holds TLA+ models of the parts of
the library that run concurrently, TLC configurations for small instances, and
TLAPS proofs. Line numbers refer to the repository's source under `src/`.

## The system

| part | state | operations |
|---|---|---|
| Server calls (`server.go`, `internal/methods`) | `methodCalls`: per peer, the pending call ids with a channel each; `s.mu` | `Invoke`, `sendMsg`, `handleMessageResponse`, `handleMessageRequest` |
| Server connections (`server.go`) | `connMgr` (transport per key, notification channel), allowed keys, wait group `serveWG`, event `quit`, `s.mu` | `Serve`, `wshandler`, `ensureSingleClientConnection`, `handleRead`, the `afterWritePump` callback, `UpdatePublicKeys`, `GetConnectionNotifyChan`, `GetConnectedPeerPublicKeys`, `Stop` |
| Credentials (`credentials`, `serveroptions.go`, `dialoptions.go`) | the TLS configuration and its list of keys | `WithCreds`, `WithSigner`, `VerifyPeerCertificate`, `Replace` |
| Client connection (`client.go`) | `addrConn` (state, transport, mutex held over the dial), `csMgr` (the state callers see), context, wait groups | `Dial`, `connect`, `resetTransport`, `createTransport`, `teardown`, `listenForConnectivityChange`, `listenForRead`, `handleRead`, `WaitForStateChange`, `WaitForReady`, `Close` |
| Client calls (`client.go`) | `methodCalls` under `cc.mu` | `Invoke`, `handleMessageRequest`, `handleMessageResponse` |
| Transports (`internal/transport`) | read and write channels, the signal channels `closeWritePump` and `closeConn` | `readPump`, `writePump`, `Write`, `Close` |
| Unidirectional client (`uni_client.go`) | one connection under a mutex, reconnect wait | `Invoke`, `retryConnectWithBackoff`, `Close` |
| Backoff (`internal/backoff`) | one interval for all connections of the process | `NextBackOff`, `Reset` |
| Services and dispatch (`service.go`, `internal/message`, `cmd/`) | the registered service: implementation and methods by name | generated stubs and descriptors, `RegisterService`, `validateMessageRequest`, `NewRequest`, `NewResponse` |
| One-time events, other options, logging | fired flag; none of interest | `Fire` |

How they meet: each accepted connection gets a transport with two pump
goroutines and a `handleRead`, which starts one goroutine per message. `Invoke`
registers its call id, writes the request to the peer's transport and waits for
its channel or its context; the goroutine of the response finds the channel in
the registry. When a `writePump` ends, a callback into the server (or the
client's `addrConn`) takes the connection out (or dials again).

What is hard: the response that races with the timeout of its call; a mutex held
over a channel send or a dial; two pumps, a reader and `Close` that each wait for
another; a deadline set for one message and met by the next; checks and their use in separate critical sections
(one connection per key); goroutines that start before the registry knows of
them; a callback that looks for "the" connection after another has taken its
place; notification channels that are taken too late; `Stop` and `Close` against
everything else. `PROJECT.json` lists these hazards with their lines.

What makes each part correct:

- calls: a call returns once, with its own peer's answer or an error; a response
  that comes in time finds its call; every call and message comes to an end;
- server connections: nothing runs after `Stop`; one connection per key; the
  list of connected peers and its notifications are right; `Stop` and
  `UpdatePublicKeys` return;
- transports: a message that `Write` has accepted is sent or the transport ends;
  `Write` returns; every transport that is closed or lost calls back, once;
- services: a name leads to the handler it names; a caller gets what the handler
  returned, and gets something whenever the handler returned;
- backoff: the waits follow the schedule and stay in range;
- unidirectional client: a call returns the response to its own request, although
  nobody looks at call ids; a request is resent only on a new connection; a
  deadline ends `Invoke` wherever it is;
- client connection: one writing transport at a time; the state callers see follows
  the real one, and those who wait for it are told; a lost connection is dialled again;
  a ready connection is read; a blocking `Dial` returns; `Close` returns.

## Modules

| module | what it is |
|---|---|
| `RpcContract` | abstract specification: what `ClientInterface.Invoke` promises |
| `ServerCalls` | the server's calls and message handlers |
| `ServerCallsProofs` | theorems about `ServerCalls`, for all constants |
| `ServerConns` | the server's connections |
| `ServerConnsProofs` | theorems about `ServerConns`, for all constants |
| `Credentials` | operators: which peers and keys are accepted; extended by `ServerConns` |
| `TransportLife` | abstract specification: what the server relies on in a transport |
| `ServerTransport` | the two pumps of a server transport |
| `ServerTransportProofs` | theorems about `ServerTransport`, for all constants |
| `ClientConn` | the client's connection |
| `ClientConnProofs` | theorems about `ClientConn`, for all constants |
| `ClientCalls` | the client's calls and message handlers |
| `ClientCallsProofs` | theorems about `ClientCalls`, for all constants |
| `UniClient` | the unidirectional client, with the server it talks to |
| `UniClientProofs` | theorems about `UniClient`, for all constants |
| `Services` | a call from a generated stub to an implementation and back |
| `MCServices` | the services of the checked instance |
| `ServicesProofs` | theorems about `Services`, for all constants |
| `Backoff` | how long clients wait between dials |
| `BackoffProofs` | theorems about `Backoff`, for all constants |

How they fit: `ServerCalls` leaves to chance what `ServerConns` decides (is there a
transport?), `ServerConns` uses transports in the form of `TransportLife`, which
`ServerTransport` implements; `ServerConns` accepts whom `Credentials` verifies;
`Services` takes the transports' and the calls' word that a message arrives or is
lost and follows what is in it; `ClientConn` and `UniClient` treat a wait as a timer
that fires, `Backoff` says how long it is.

Modules are checked directly, as their constants are sets of model values or bounds;
`Services` has an MC module for the method lists. A definition whose comment begins with "Variant" is a
deliberately wrong version of the definition that follows; no specification uses
it. `PROJECT.json` pairs each with the property that notices it.

### ServerCalls

`pc[c]` is the place of an `Invoke` in its code, `hpc[h]` and `rpc[r]` those of the
goroutines that `handleRead` starts for responses and requests. `methodCalls[k]`
is the set of call ids registered for peer `k`; the channel of a call is
unbuffered, so sending and receiving are the one step `Deliver`. A critical
section that cannot block is one step guarded by `mu = None`.
`handleMessageResponse` sends while it holds `s.mu`, hence `mu` names the handler
that is in that section.

Left to chance: whether `sendMsg` finds a transport and whether `Write` takes the
message (`ServerConns` owns those), when contexts end, and from which peer and for
which sent call a response comes, so that it may be late, repeated, or from the
wrong peer. Call ids are random UUIDs; two calls never share one, and a peer
does not know the id of a request that has not left. A nil `connMgr` after `Stop`
panics in a goroutine of the application, which ends the process (`crashed`).

### ServerConns

`cpc[c]` follows `wshandler` for a connection, `tr[c]` its transport, `reader[c]`
its `handleRead`, `upc` and `spc` the application inside `UpdatePublicKeys` and
`Stop`. `s.mu` is Go's RWMutex: `CanLock` says that nobody is inside, `CanRLock` that no
writer is inside or waiting. Method calls lock `s.mu` too: `lpc[h]` is a goroutine that does,
an `Invoke` that registers or removes its call, or a `handleMessageResponse`, which keeps
the lock over its send (`Holds`) and for ever if the context of the call has ended
(`ReceiverIsGone`, the deadlock of `ServerCalls`). Which it is, `ServerCalls` says; here it is
left to chance. `wshandler` holds its read lock across two steps,
`StartTransport` and `RegisterConnection`, as the transport's goroutines run in
between and `afterWritePump` takes only a read lock as well. A panic in
`wshandler` is recovered by net/http but leaves its read lock behind (`leaked`). A
refused peer may come back. `closeReq` and `tr` abstract the close handshake: a
transport that was asked to close ends its `writePump`, eventually, which is what
`ServerTransport` shows. `contested` is a history variable: the connections that once had a
transport at the same time as another of their key, which only the race in the handshake
and a revoked key allowed again make possible.

`server` is what became of the credential options: "unset" if a key was malformed,
which the options do not report, and `Serve` then accepts nobody and
`UpdatePublicKeys` dereferences nil. `Accept` takes the certificates a peer presents,
`UpdatePublicKeys` any set of keys, malformed ones included.

### Credentials

A key is a value and `Malformed` stands for all byte slices of another length; a
certificate is the algorithm and the value of its key. `VerifyPeerCertificate` wants
exactly one certificate, with an Ed25519 key from the list.

### TransportLife and ServerTransport

`TransportLife` is three states (running, exited, finished) and a flag for `Close`.
`ServerTransport` has one variable per goroutine, `rp` and `wp` for the pumps, `write[w]` for
the callers of `Write`, `reader` for `handleRead`, and a flag for each signal channel that
can be closed. The connection may break at any time; a ping then fails, a write may fail.
Pings that succeed change nothing and are left out; `ReadError` has the read deadline,
which passes once nobody pings any more. `deadline` is the write deadline of the
connection: each message sets it, and nothing clears it before the close message is
written. A message is no more than the goroutine that holds it; `lost` remembers
that one was accepted and not sent.

### ClientConn

`rt` follows `connect` and `resetTransport`; `acMu`, `acState`, `acTr` are
`addrConn`'s mutex, state and transport; `sending` is a state on its way over
`stateCh`, which keeps `ac.mu` held; `lcc`, `lfr`, `starting` and `readers` are the
goroutines `listenForConnectivityChange`, `listenForRead` and `handleRead`; `waiter`
is an application in `WaitForReady`, `dialer` a `Dial` with `WithBlock`, with the state it
has read (`Block` says which dials the application makes); `cl` is `Close`, which panics
when it is called again. Transports are numbered in
the order of creation. A message in `readPump` waits for a `handleRead` that reads
this very transport. Reading may fail on a connection that is open (a message that
is too long, a pong that is overdue), which ends `readPump` only. The close message
that `writePump` sends when it ends may fail too, and the connection then stays
open until the peer notices. `WaitForReady` takes the channel, compares the state and sleeps
(`waiter`); its own context never ends, as that would only end it.

### ClientCalls

`pc[c]` is the place of an `Invoke`, `hpc[h]` and `rpc[r]` those of the handlers of
responses and requests, `tr` the transport that each has taken and will write to.
The connection is cut down to what these can see: `attached` (`cc.addrConn` is not
nil), `transport`, `ready`, and `up`, the transports that still take messages.

`Invoke` and `handleMessageRequest` wait for `ac.mu` with `cc.mu` read-locked, and
`resetTransport` holds `ac.mu` over its dial. So the places "checking" and "picking"
stand for a goroutine that keeps `cc.mu`, `CanLock` says that there is none, and
whoever needs `cc.mu` (registering or removing a call, looking up a response, `Close`)
waits for the dial. Unlike the server, the client sends a response to its call with
`cc.mu` free and watches the context of the call meanwhile: `Deliver`, `DropExpired`.

A nil `addrConn`, a nil transport or a nil service panics in a goroutine of the
library or the application, which ends the process (`crashed`). The context of a
call matters from its `Write` on, so `ContextDone` waits for that. The `Write` of a reply, which
has no context, is taken to return; in the code it does not if `writePump` has failed and
`readPump` is blocked on a message (`websocket_client.go:101`), a state of `ClientConn`. `MaxTransports`
bounds the dials that succeed; those that fail are not bounded.

### UniClient

`pc[c]` is the place of an `Invoke` and `connMu` the call that holds the mutex, which
it keeps until it returns. `limit[n]` is the call whose deadline is set on connection
`n`: a call without a deadline does not clear it. As in the websocket library, a
connection on which reading (writing) has failed fails every later read (write):
`readDead`, `writeDead`. `reconnect` leaves the old connection open.

The server is external: it answers the requests it has received on a connection in any
order, each once, and may push requests of its own, as a server of the library can
call any connected peer. `lost` holds the connections that have broken, `inbox[n]`
what has arrived on `n`.

### Services

`call[c]` is what a caller asks for, `pc[c]` where the request is: sent, validated (on the
server), with a handler found, handled, replied. A payload is "full" or "empty", the
latter encoding to no bytes; decoded as the message of another method it fails or is
garbled. `Returns` is what an implementation may return: a message, an empty one, a nil or one
that `proto.Marshal` refuses, each with or without an error, whose text may be empty or not
UTF-8. `link` is what an `Invoke` or a reply may find missing: the transport or `addrConn` of
the client, `connMgr` of the server; nothing checks for nil, so `InvokePanics` and
`ReplyPanics`. Dispatch looks up the
method and calls the implementation in two steps, as another `RegisterService` may
come between. The gRPC stubs of the second generator are calls of their own, to a gRPC
server of which only the lookup of a path is modelled. `GoName` is protogen's camel case, which
the stubs use where descriptors have the name of the `.proto` file; all that is assumed of it
is that a name in camel case stays as it is.

### Backoff

Each connection draws a wait before it dials (`NextBackOff`), uses it if the dial fails, and
resets the shared backoff if it succeeds. `backoffFor[c]` is the interval that was current
at the draw, the wait is within `Shortest` and `Longest` of it. `others[c]` remembers what other
connections have done to the backoff since `c` last succeeded. The unidirectional client's
`reconnectWait` is a signed integer of `2 * Limit` values, as its doubling has no bound.

### RpcContract

A call is idle, pending or returned; it returns a reply only if the peer it was
addressed to has answered that call. `ServerCalls!Contract` maps every place inside
`Invoke` to pending and every response goroutine to an answer; `ClientCalls!Contract`
does so with the server as the only peer, and has the call returned once it has left
its select or failed.

## Runs

Passing runs:

| run | instance | shows |
|---|---|---|
| `server_calls` | 2 calls, 2 peers, 2 responses, 1 request | `AnswerFromAddressee`, `WaitingIsRegistered`, `HandoffTargetsLiveCall`; `WedgeIsPermanent`; `ContractSpec`; `TimedOutCallReturns` |
| `server_conns` | 2 connections, 1 key, 2 key updates, `Stop`, 1 watcher, 1 goroutine that locks `s.mu` for a call | `StopIsComplete`, `UncontestedIsServed`, `WatcherIsCurrent`; `RegistryErrsOnlyInRegistration`; `StopTerminates` and `UpdateTerminates`, each with its exceptions spelled out |
| `client_conn` | 2 transports, `WaitForReady` | `StatesAgree`, `SleeperWillBeTold`; `OnlyOwnTransportDemotes`, `ClosedWaiterSleepsOn` |
| `client_conn_live` | 1 transport, `Dial` with and without `WithBlock` | `LostConnectionIsRedialled`, `CloseTerminates`, `ReadyIsRead`, `BlockingDialReturns` |
| `client_calls` | 2 calls, 2 responses, 1 request, 1 successful dial | `ReturnedIsRemoved`, `OnlyRepeatsAreLeftBehind`; `ContractSpec`; `TimedOutCallReturns` and `CloseTerminates`, the latter with its exception |
| `uni_client` | 2 calls, 3 connections, 1 pushed request | `AnswerIsOwn`, `OncePerConnection`; `DeadlineEndsInvoke`, `CloseTerminates` |
| `server_transport` | 3 writers, any number of messages from the peer | `AcceptedIsSentOrFatal`; `LifeCycle` (implements `TransportLife`, its liveness included); `WriteReturns`, `LossIsNoticed`, `ReadPumpEnds` |
| `services` | 1 call, 2 services with a method name in common, 2 registrations on each side | `NamesResolve`, `ResultIsTheHandlers`, `PanicsOnlyUnprepared`; `ServedCallIsAnswered` |
| `backoff` | 2 connections with the default configuration, a 9-bit reconnect wait | `FollowsSchedule`, `WaitsAreInRange` |

`server_conns`, `client_conn`, `client_conn_live`, `client_calls` and `uni_client` take two to four
minutes, the others about one or less. Every module states the types of its variables as
`TypeOK`, which holds on the same instances and from which the proofs start.

Runs that find a comment in the code violated:

| run | comment | what happens |
|---|---|---|
| `server_calls_wedge` | `server.go:373` "Remove the call since we have timeout" | `handleMessageResponse` holds `s.mu` and waits for `Invoke`; `Invoke` has timed out and waits for `s.mu`. Everything that needs `s.mu` stops. |
| `server_conns_race` | `server.go:466` "Ensure there is only a single connection per public key" | Two handshakes of one key pass the check before either is registered. |
| `server_transport_close` | `websocket_server.go:90` "Close closes the websocket connection and cleans up pump goroutines" | The close message is written under the deadline that the last message has left. If that has passed, it fails, and `writePump` returns without closing the connection. |

### Known exceptions

Several properties of the passing runs hold with an exception that is spelled out in the
property, and that the code does reach:

- `RegistryErrsOnlyInRegistration`: a peer that leaves between the start of its transport and
  its registration (`server.go:176`) is registered for good, its key counts as connected and
  its next connection is refused; a peer whose key is revoked between handshake and
  registration (`server.go:395`) stays connected.
- `UncontestedIsServed`: of two connections of one key that run at the same time, the end of one
  takes the other's entry (`server.go:160`).
- `ReadyIsRead`: `listenForRead` misses a change to Ready that comes between `getState` and the
  next `getNotifyChan` (`client.go:213`), or before its first; nobody reads the transport then, contrary
  to the comment at `client.go:203`.
- `SleeperWillBeTold`: it ends with the context of the connection, which `Close` cancels before it
  sends Shutdown (`client.go:358`, `client.go:529`). `listenForConnectivityChange` may have left by then, and
  `ClosedWaiterSleepsOn` says what comes of it: a `WaitForReady` whose own context does not end sleeps
  for ever, contrary to the comment at `client.go:137`.
- `CloseTerminates` of `ClientConn`: a `readPump` with a message in hand waits for a reader when all
  have left on the cancelled context, and `Close` waits for it (`websocket_client.go:156`).
- `ReadPumpEnds`: the same on the server, where the goroutine is leaked (`websocket_server.go:144`).
- `StopTerminates`, `UpdateTerminates`: a connection pushed out of the registry is not closed
  (`server.go:437`), a recovered panic leaves `s.mu` read-locked (`server.go:474`), and a response
  whose call has timed out keeps `s.mu` locked (`server.go:292`).
- `DeadlineEndsInvoke`, `CloseTerminates` of `UniClient`: a call whose context is cancelled, without a
  deadline, goes on reading and keeps `connMu` (`uni_client.go:163`).
- `AnswerIsOwn`: a request pushed by the server shifts the answers.
- `ResultIsTheHandlers`, four: an error with an empty text is taken for success; `UniClientConn`
  takes any message that is not empty for success, whatever the error, and an empty one for an
  error, without there being one (`uni_client.go:185`); a service with the same method name answers
  for another.
- `NamesResolve`: gRPC stubs call `/pb.Service/Method` with the Go name of the service, whatever
  its package and its name in the `.proto` file are (`cmd/protoc-gen-go-wsrpcgrpc/wsrpc.go:243`).
- `PanicsOnlyUnprepared`: an endpoint panics over a call or a request before it has a service
  (`server.go:298`, `client.go:288`), after `Stop` or `Close` (`server.go:197`, `client.go:309`, `client.go:375`), while
  it is redialling (`client.go:314`), and when its service is replaced under a request.
- `ServedCallIsAnswered`: a message or an error text that is not UTF-8 suppresses the response
  (`server.go:265`, `server.go:270`).
- `FollowsSchedule`: another connection's success resets the wait; another's failures lengthen it.
  The property says exactly how long an undisturbed connection waits, and bounds a disturbed one
  from below only.
- `WaitsAreInRange`: the reconnect wait has no upper bound but the overflow (`uni_client.go:118`).

Reachable in the models too, with no property about it: `Close` between a successful dial and its
installation leaves the new transport open (`client.go:586`, `AbandonTransport`); a failed blocking
`Dial` may leave one without anybody to close it; an upgraded connection that meets `Stop` is not closed (`server.go:168`).

The properties of the passing runs say what holds besides: the liveness
properties except exactly the named deadlock (`Wedged`, `Stuck`, `Orphaned`,
`Leaked`, `LeftBehind`) and the crash, so that any other way to hang would be found.

### Bounds

- Calls and responses: with two of each, a response may be repeated, come from
  the other peer, or arrive while another handler holds `s.mu`, and a call may be
  held up by another's handoff. The safety results do not depend on the bound:
  they are proved, here and in the other modules.
- Connections and keys: two connections of one key race, or follow one another; that those of
  different keys do not disturb each other is in the proofs. Two updates revoke a key and allow
  it again. A refused connection starts over, so the number of attempts is not
  bounded. One goroutine that locks for a call is enough to hold `s.mu`, to wait for it, or to be wedged.
- Transports: two, the second created after the loss of the first; dials may fail
  any number of times. Liveness is checked with one transport, which can be lost
  before and after it is installed; after it, every dial fails.
- Client calls: two calls with two responses give the late and the repeated response
  and one call that blocks another through `cc.mu`. With one transport it can be
  missing, alive, lost and redialled in vain, which is all that `Invoke` tells apart;
  the proofs have no bound.
- Unidirectional client: three connections let both calls reconnect, or one call
  twice; one pushed request is enough to shift the answers.
- Server transport: three writers, so that one is accepted, one waits and one is refused
  at once; one message in each direction is in flight at a time, as the channels are unbuffered.
- Services: calls do not interact but through registration, so one call suffices; two
  registrations on each side replace a service before, during and after its lookup; the two
  services share one method name and differ in another. The Go name of the second is that of
  the first, so that a gRPC stub can reach its own service, another's, and none; packages other
  than pb are in the proof.
- Backoff: the default configuration, in units of 512 ns so that the intervals stay whole
  numbers; twelve failures reach the maximum. The reconnect wait has 9 bits instead of 64 and
  overflows after four waits, not after about thirty; TLC's own integers do not overflow before.
- Deadlock checking is off but for `backoff`, as all these systems may come to rest: calls have
  returned, the server is stopped, the client is closed. The liveness properties
  say what may not stop short of that.

### Fairness

Weak fairness for each goroutine of the library: the Go scheduler runs what can
run, and mutexes are fair to waiting writers. (`ServerConns` leaves out the start of
`handleRead`, which its liveness does not need.) A goroutine that waits for
`s.mu`, or sends with it locked, goes on; whether `Invoke` is still there is left open. Nothing is
owed by peers (messages, departures), contexts, or the application (`Stop`, `Close`, `UpdatePublicKeys`,
the watcher). For the client: a dial comes to an end since its handshake has a
timeout, and a broken connection is noticed since pings are written to it. One
step of `ClientConn` has strong fairness, `ResetTransportCancelled`: with the context
done, the select in `resetTransport` could prefer an expired backoff timer only if both were
ready when it looked, and from the next round on the context is done long before
the timer. In `ClientCalls`, `Teardown` has strong fairness: between two dials it
competes with `resetTransport` for `ac.mu`, and Go's mutexes hand over to a waiter
that has been passed over for a millisecond. In `ServerTransport` a goroutine in a select takes one of the
cases that are ready, and pings are written to a broken connection sooner or later; the
peer and the application owe nothing, and `handleRead` may never have started. In
`Services` the goroutine that handles a message goes on. In `UniClient` deadlines pass; nobody has
to cancel a context, and the server owes no answer.

## Proofs

`ServerCallsProofs` proves for any sets of calls, peers, responses and requests,
from `NoneAssumption` alone (None is not a key, a call or a handler):

| theorem | states |
|---|---|
| `TypeCorrect` | `Spec => []TypeOK` |
| `Isolation` | `Spec => []AnswerFromAddressee` |
| `WaitingCallsAreFound` | `Spec => []WaitingIsRegistered` |
| `StaleEntriesAreHarmless` | `Spec => []StaleEntriesUnsent` |
| `HandoffIsLive` | `Spec => []HandoffTargetsLiveCall` |
| `WedgePersists` | `Spec => WedgeIsPermanent` |
| `ImplementsContract` | `Spec => ContractSpec` |

The properties are not inductive. That a handler sends only to a live `Invoke`
needs that a registered call that was sent has not returned (`SentEntriesLive`),
which needs that a handler's call stays registered while it holds `s.mu`
(`LockInv`), that an `Invoke` in flight is registered under its own key
(`InFlightRegistered`, `EntriesUnderKey`) and that only an `Invoke` past its write
has been sent (`SentPastWrite`, `HandlerOfSentCall`). `AnsweredReturned` and
`IdleUntouched` tie the answer to the key for `Isolation` and the refinement. Their
conjunction `IInv` is preserved by each action (`StepIInv`); the theorems follow from
it, and `WedgePersists` and `ImplementsContract` from it action by action.

`ClientCallsProofs` proves for any sets of calls, responses and requests and any number
of dials, from `MaxTransportsAssumption` (a natural number):

| theorem | states |
|---|---|
| `TypeCorrect` | `Spec => []TypeOK` |
| `NothingIsLeftRegistered` | `Spec => []ReturnedIsRemoved` |
| `HandlersAreReleased` | `Spec => []OnlyRepeatsAreLeftBehind` |
| `ImplementsContract` | `Spec => ContractSpec` |

Here `IInv` says exactly when a call is registered (`RegistryIsExact`), that handlers
and requests that have left belong to an `Invoke` past its `Write` (`HandlerOfSentCall`,
`SentPastWrite`), and that an `Invoke` which has sent its request leaves only for its
context or a response (`LeftForAReason`), whence the handler that finds it gone
brings a second response. `RoomForTransport` keeps the count of transports in its type.

`ServerConnsProofs` proves for any finite set of connections (`ConnsAssumption`), any keys and
any number of updates, from `NoneAssumption`, `MalformedAssumption` and
`MaxUpdatesAssumption` (values are distinct, the bound is a natural number):

| theorem | states |
|---|---|
| `TypeCorrect` | `Spec => []TypeOK` |
| `NothingRunsAfterStop` | `Spec => []StopIsComplete` |
| `UncontestedConnectionsAreServed` | `Spec => []UncontestedIsServed` |
| `WatcherMissesNothing` | `Spec => []WatcherIsCurrent` |
| `OnlyRegistrationErrs` | `Spec => RegistryErrsOnlyInRegistration` |

`Stop` returns when `serveWG` is zero, so `StopIsComplete` needs `CountInv`: `serveWG` is the
number of transports that have not called `afterWritePump`, and `leaked` the number of
handlers that have panicked; the set must be finite for that count. `RegistryInv` (what is
registered for a key is a connection of that key past its registration) and `HandlerInv`
(how far `wshandler` is says whether there is a transport) are what the others rest on.
`ContestInv` (two connections of one key with transports are both in `contested`) and
`NoNewContest` carry `UncontestedIsServed` over the steps of other connections, through
`ServiceGoesOn`; `LockerIInv` disposes of the goroutines that only lock.

`ClientConnProofs` proves for any number of dials, any set of answers to `WithBlock`, from
`MaxTransportsAssumption`:

| theorem | states |
|---|---|
| `TypeCorrect` | `Spec => []TypeOK` |
| `WritePumpsDoNotOverlap` | `Spec => []OneWritePumpAtATime` |
| `ManagerAgrees` | `Spec => []StatesAgree` |
| `NoMissedWakeup` | `Spec => []SleeperWillBeTold` |
| `NobodyTellsOfShutdown` | `Spec => ClosedWaiterSleepsOn` |
| `OldTransportsAreHarmless` | `Spec => OnlyOwnTransportDemotes` |

That write pumps do not overlap, on which `OldTransportsAreHarmless` rests (read pumps may: that of an
older transport may still be blocked on a message, `websocket_client.go:156`), needs that `resetTransport` goes for the next one only when
all have ended (`EndedBeforeNext`), as the reconnect event it waits for fires last
(`PumpInv`). That the states agree needs `LockInv` (a state on its way is `addrConn`'s, under
`ac.mu`) and `InOrder` (so is the one that `listenForConnectivityChange` is about to apply or
has applied). `ListenerGone` (`Close` has waited for
`listenForConnectivityChange`) is all that `NobodyTellsOfShutdown` needs. `ReadyInv` has a Ready `addrConn` use the last transport, hence only the end of
that one can take it down. `StartsBound` is there for the type of `starting`: each transport
becomes Ready once, and its Ready is in one place at a time.

`UniClientProofs` proves for any calls, connections and pushed requests, from
`DistinctAssumption` and `MaxConnsAssumption`:

| theorem | states |
|---|---|
| `TypeCorrect` | `Spec => []TypeOK` |
| `ResponseIsOwn` | `Spec => []AnswerIsOwn` |
| `SentOncePerConnection` | `Spec => []OncePerConnection` |

Nobody compares call ids, so `AnswerIsOwn` rests on what a connection can hold: one that can
be read and was not pushed to owes an answer to the call that reads from it at most
(`OwesReaderOnly`), and holds no other (`HoldsReadersOnly`), because whoever gives up reading
leaves the connection unreadable. `MutexInv` makes that reader the holder of `connMu`,
`NotSentYet` keeps a call from writing twice to a connection.

`ServerTransportProofs` proves for any set of writers, from no assumption:

| theorem | states |
|---|---|
| `TypeCorrect` | `Spec => []TypeOK` |
| `LossIsFatal` | `Spec => []AcceptedIsSentOrFatal` |
| `ImplementsTransportLife` | `Spec => Life!SafeSpec` |

`ClosedBeforeCallback` (`start` has closed the transport before it calls `afterWritePump`) is
what the last step of the refinement needs. `Life!SafeSpec` is `TransportLife` without its
fairness; that the fair pumps also meet the fairness, which `LifeCycle` says, is
model-checked.

`ServicesProofs` proves for any services, method lists, calls and registrations, from
`MethodsAssumption` (a list of names per service), `MaxRegsAssumption` and `NoneAssumption` (None is no
service, call, handler or result):

| theorem | states |
|---|---|
| `TypeCorrect` | `Spec => []TypeOK` |
| `StubsMeetDescriptors` | `Spec => []NamesResolve` |
| `CallsReturnTheHandlersResult` | `Spec => []ResultIsTheHandlers` |
| `RequestsDoNotPanic` | `Spec => []PanicsOnlyUnprepared` |

`MethodMapFinds` and `GrpcRoutes` say what the generated descriptors yield for any method
list. `DispatchInv` is the heart: what the server's validation has found is still there at
the second lookup, and the handler found belongs to the service that is still registered,
or on a client to one that was replaced; so the panics that are left come from
registration, or from a connection that is missing, which on a server means Stop (`LinkInv`). `ReturnInv` follows the handler's return to the response, `CallInv` keeps a
result from being set before.

`BackoffProofs` proves for any number of connections and any delays, multiplier, jitter and
integer width:

| theorem | states |
|---|---|
| `TypeCorrect` | `Spec => []TypeOK` |
| `ScheduleIsKept` | `Spec => []FollowsSchedule` |
| `WaitsStayInRange` | `Spec => []WaitsAreInRange` |

The assumptions: `BaseDelay <= MaxDelay`, a multiplier of at least one, a jitter below one that
leaves a unit of `BaseDelay` (in the code, a nanosecond of a second), a second at most a minute,
which an integer can hold; and `ScheduleAssumption`, that `MaxFails` failures reach `MaxDelay`, so
that counting no further loses nothing. `Delay` is defined by recursion, and the prover knows
nothing of such a function until it is shown to exist: `ScheduleExists` does that, and
`DelayType` bounds it, by the least counterexample (`Least`, from the well-foundedness of the
naturals). `IncrementIsGrow` shows that the code, which compares before it divides, and the
schedule, which compares afterwards, agree. `ScheduleInv` extends the schedule to the interval
that a connection would draw next, which is what makes `FollowsSchedule` inductive.

What is only model-checked: liveness under fairness (`TimedOutCallReturns`, `StopTerminates`,
`UpdateTerminates`, the four properties of `client_conn_live`, the `CloseTerminates`,
`DeadlineEndsInvoke`, `WriteReturns`, `LossIsNoticed`, `ReadPumpEnds`, `ServedCallIsAnswered`, and the
fairness in `LifeCycle`), which is out of the prover's reach. Every invariant and every
action property of the passing runs is proved.

## Not modelled

- Protobuf's encoding itself and generated protobuf code: `Services` has what survives it.
- TLS and certificates beyond number, algorithm and key: libraries.
- The HTTP server, its health check and its timeouts: I/O.
- Logging, buffer sizes, limits: values that are passed on.
- The write of a single message by the client's `writePump`: as on the server, but that the
  client closes the connection after a failure.
- The mocks, the examples and the helpers of the integration tests.

## Plan

1. Done: the modules above, with proofs of all their invariants, action properties and
   refinements but for liveness.
2. Next: properties, with theorems, about the cases listed above as reachable and without a
   property: that a transport which `resetTransport` abandons is the only one that `Close`
   leaves open, and that an upgraded connection is left open only if it meets `Stop`.
