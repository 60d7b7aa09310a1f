---------------------------- MODULE ServerConns ----------------------------
(***************************************************************************)
(* The connections of a Server (server.go, websocket_server.go): wshandler *)
(* takes each through TLS verification, the single-connection check, the   *)
(* upgrade and the registration with connectionsManager; its transport     *)
(* runs until the peer leaves or it is closed; UpdatePublicKeys and Stop   *)
(* close connections; a watcher follows the list of connected peers.       *)
(*                                                                         *)
(* s.mu is a Go RWMutex: a writer waits for the holder or the readers to   *)
(* leave, and a waiting writer keeps new readers out.  Critical sections   *)
(* that cannot block are one step.  Two can: wshandler keeps its read lock *)
(* from the start of the transport to the registration, with the           *)
(* transport's own goroutines running meanwhile, and handleMessageResponse *)
(* its write lock over the send to the call (module ServerCalls).          *)
(***************************************************************************)
EXTENDS Naturals, FiniteSets, Credentials

CONSTANTS Conns,       \* connections that peers open; one that is refused opens anew
          Lockers,     \* goroutines that lock s.mu for a method call
          None,        \* no connection, no key
          MaxUpdates   \* how often the application calls UpdatePublicKeys

ASSUME ConnsAssumption == IsFiniteSet(Conns)
ASSUME NoneAssumption == None \notin Conns /\ None \notin Keys
ASSUME MaxUpdatesAssumption == MaxUpdates \in Nat

VARIABLES
  server,      \* "unset" (no credentials), "new", or "listening" once Serve was called
  allowed,     \* creds.PublicKeys: the keys TLS accepts
  cpc,         \* cpc[c]: where the wshandler of connection c is
  ckey,        \* ckey[c]: the public key of c's certificate
  tr,          \* tr[c]: the state of c's transport
  closeReq,    \* the transports on which Close has been called
  reader,      \* reader[c]: the transport that c's handleRead reads
  conns,       \* connMgr.conns: the registered transport of each key, or None
  notifyOpen,  \* connMgr.notifyChan is an open channel rather than nil
  watch,       \* where the watcher of the connection list is
  view,        \* the keys the watcher has read since it took the channel
  serveWG,     \* the server's wait group
  leaked,      \* read locks of s.mu that nobody will release
  upc,         \* where UpdatePublicKeys is
  updates,     \* calls of UpdatePublicKeys so far
  spc,         \* where Stop is
  crashed,     \* an application goroutine has panicked
  lpc,         \* lpc[h]: where goroutine h is, a response handler or an Invoke
  contested    \* history: the connections that had a transport together with
               \* another of their key

connVars == <<cpc, ckey, tr, closeReq, reader, serveWG, contested>>
mgrVars == <<conns, notifyOpen>>
watchVars == <<watch, view>>
updateVars == <<server, allowed, upc, updates>>
vars == <<connVars, mgrVars, watchVars, updateVars, leaked, spc, crashed, lpc>>

(* Stop has set s.connMgr to nil. *)
NoConnMgr == spc \in {"closing", "waiting", "done"}

(* h holds s.mu while it sends to a call, for ever if nobody will receive;
   h waits for s.mu. *)
Holds(h) == lpc[h] \in {"sending", "wedged"}
Awaits(h) == lpc[h] \in {"invoke", "response"}

(* s.mu can be read-locked; s.mu can be locked. *)
CanRLock == /\ spc # "locking" /\ upc # "locking"
            /\ \A h \in Lockers : ~Awaits(h) /\ ~Holds(h)
CanLock == /\ leaked = 0
           /\ \A c \in Conns : cpc[c] # "starting"
           /\ \A h \in Lockers : ~Holds(h)

ConnectedKeys == {k \in Keys : conns[k] # None}

(* The type of every variable. *)
TypeOK ==
  /\ server \in {"unset", "new", "listening"}
  /\ allowed \subseteq Keys
  /\ cpc \in [Conns -> {"new", "checking", "upgrading", "upgraded",
                        "starting", "serving", "ended", "panicked"}]
  /\ ckey \in [Conns -> Keys \cup {None}]
  /\ tr \in [Conns -> {"none", "running", "exited", "finished"}]
  /\ closeReq \subseteq Conns
  /\ reader \in [Conns -> {"none", "starting", "ended"} \cup Conns]
  /\ conns \in [Keys -> Conns \cup {None}]
  /\ notifyOpen \in BOOLEAN
  /\ watch \in {"idle", "reading", "waiting"}
  /\ view \subseteq Keys
  /\ serveWG \in 0 .. Cardinality(Conns)
  /\ leaked \in 0 .. Cardinality(Conns)
  /\ upc \in {"idle", "locking"}
  /\ updates \in 0 .. MaxUpdates
  /\ spc \in {"idle", "quit", "locking", "closing", "waiting", "done"}
  /\ crashed \in BOOLEAN
  /\ lpc \in [Lockers -> {"idle", "invoke", "response", "sending", "wedged", "done"}]
  /\ contested \subseteq Conns

(* NewServer: with all keys allowed, or with an option that has failed. *)
Init ==
  /\ \E pubs \in {Keys, Keys \cup {Malformed}} : \E priv \in {Malformed} \cup Keys :
       /\ server = IF WithCreds(priv, pubs).set THEN "new" ELSE "unset"
       /\ allowed = WithCreds(priv, pubs).keys
  /\ cpc = [c \in Conns |-> "new"]
  /\ ckey = [c \in Conns |-> None]
  /\ tr = [c \in Conns |-> "none"]
  /\ closeReq = {}
  /\ reader = [c \in Conns |-> "none"]
  /\ conns = [k \in Keys |-> None]
  /\ notifyOpen = FALSE
  /\ watch = "idle"
  /\ view = {}
  /\ serveWG = 0
  /\ leaked = 0
  /\ upc = "idle"
  /\ updates = 0
  /\ spc = "idle"
  /\ crashed = FALSE
  /\ lpc = [h \in Lockers |-> "idle"]
  /\ contested = {}

-----------------------------------------------------------------------------
(* connectionsManager *)

(* A change of the list closes notifyChan, if there is one, and resets it. *)
Notify == notifyOpen' = FALSE

(* Variant: the list of connections shrinks without a notification. *)
RemoveConnectionsSilently(gone) ==
  /\ conns' = [k \in Keys |-> IF k \in gone THEN None ELSE conns[k]]
  /\ UNCHANGED notifyOpen

RemoveConnections(gone) ==
  /\ conns' = [k \in Keys |-> IF k \in gone THEN None ELSE conns[k]]
  /\ IF gone = {} THEN UNCHANGED notifyOpen ELSE Notify

-----------------------------------------------------------------------------
(* wshandler *)

Goto(c, label) == cpc' = [cpc EXCEPT ![c] = label]

(* wshandler returns before it has upgraded: the peer may try again. *)
Refuse(c) == Goto(c, "new") /\ ckey' = [ckey EXCEPT ![c] = None]

(* Serve listens.  Without credentials ServeTLS fails, unnoticed, and Serve
   waits for Stop. *)
Serve ==
  /\ ~crashed
  /\ server = "new"
  /\ server' = "listening"
  /\ UNCHANGED <<connVars, mgrVars, watchVars, allowed, upc, updates, leaked, spc,
                 crashed, lpc>>

(* TLS accepts the certificate if its key is allowed now; the HTTP server
   calls wshandler, which goes on unless quit has fired.  The two are one
   step: no other goroutine can tell when the second happens. *)
Accept(c, rawCerts) ==
  /\ ~crashed
  /\ cpc[c] = "new"
  /\ server = "listening"
  /\ VerifyPeerCertificate(allowed, rawCerts)
  /\ spc = "idle"
  /\ ckey' = [ckey EXCEPT ![c] = PubKeyFromCert(rawCerts[1])]
  /\ Goto(c, "checking")
  /\ UNCHANGED <<tr, closeReq, reader, serveWG, contested, mgrVars, watchVars,
                 updateVars, leaked, spc, crashed, lpc>>

EnsureSingleClientConnection(c) ==
  /\ ~crashed
  /\ cpc[c] = "checking"
  /\ CanRLock
  /\ ~NoConnMgr
  /\ IF conns[ckey[c]] = None THEN Goto(c, "upgrading") /\ UNCHANGED ckey ELSE Refuse(c)
  /\ UNCHANGED <<tr, closeReq, reader, serveWG, contested, mgrVars, watchVars,
                 updateVars, leaked, spc, crashed, lpc>>

(* s.connMgr is nil: the HTTP server recovers the panic, but the read lock
   of s.mu is never released. *)
EnsureSinglePanics(c) ==
  /\ ~crashed
  /\ cpc[c] = "checking"
  /\ CanRLock
  /\ NoConnMgr
  /\ Goto(c, "panicked")
  /\ leaked' = leaked + 1
  /\ UNCHANGED <<ckey, tr, closeReq, reader, serveWG, contested, mgrVars, watchVars,
                 updateVars, spc, crashed, lpc>>

Upgrade(c) ==
  /\ ~crashed
  /\ cpc[c] = "upgrading"
  /\ \/ Goto(c, "upgraded") /\ UNCHANGED ckey
     \/ Refuse(c)
  /\ UNCHANGED <<tr, closeReq, reader, serveWG, contested, mgrVars, watchVars,
                 updateVars, leaked, spc, crashed, lpc>>

(* d has a transport that has not called afterWritePump, or has yet to be
   registered; starting c's puts every such connection of its key in contest. *)
Active(d) == tr[d] \in {"running", "exited"} \/ cpc[d] = "starting"
Contested(c) ==
  LET rivals == {d \in Conns \ {c} : ckey[d] = ckey[c] /\ Active(d)}
  IN  IF rivals = {} THEN {} ELSE rivals \cup {c}

(* Variant: no check that Stop has not passed. *)
StartTransportUnchecked(c) ==
  /\ ~crashed
  /\ cpc[c] = "upgraded"
  /\ CanRLock
  /\ serveWG' = serveWG + 1
  /\ tr' = [tr EXCEPT ![c] = "running"]
  /\ contested' = contested \cup Contested(c)
  /\ Goto(c, "starting")
  /\ UNCHANGED <<ckey, closeReq, reader, mgrVars, watchVars, updateVars, leaked, spc,
                 crashed, lpc>>

(* Under the read lock: join the wait group and start the transport. *)
StartTransport(c) ==
  /\ ~crashed
  /\ cpc[c] = "upgraded"
  /\ CanRLock
  /\ ~NoConnMgr
  /\ serveWG' = serveWG + 1
  /\ tr' = [tr EXCEPT ![c] = "running"]
  /\ contested' = contested \cup Contested(c)
  /\ Goto(c, "starting")
  /\ UNCHANGED <<ckey, closeReq, reader, mgrVars, watchVars, updateVars, leaked, spc,
                 crashed, lpc>>

(* Variant: wshandler returns without releasing the read lock. *)
AbandonKeepsLock(c) ==
  /\ ~crashed
  /\ cpc[c] = "upgraded"
  /\ CanRLock
  /\ NoConnMgr
  /\ Goto(c, "ended")
  /\ leaked' = leaked + 1
  /\ UNCHANGED <<ckey, tr, closeReq, reader, serveWG, contested, mgrVars, watchVars,
                 updateVars, spc, crashed, lpc>>

(* Stop has passed: wshandler returns (the upgraded connection stays open). *)
AbandonUpgraded(c) ==
  /\ ~crashed
  /\ cpc[c] = "upgraded"
  /\ CanRLock
  /\ NoConnMgr
  /\ Goto(c, "ended")
  /\ UNCHANGED <<ckey, tr, closeReq, reader, serveWG, contested, mgrVars, watchVars,
                 updateVars, leaked, spc, crashed, lpc>>

(* Register the transport, release the read lock, start handleRead. *)
RegisterConnection(c) ==
  /\ ~crashed
  /\ cpc[c] = "starting"
  /\ conns' = [conns EXCEPT ![ckey[c]] = c]
  /\ Notify
  /\ Goto(c, "serving")
  /\ reader' = [reader EXCEPT ![c] = "starting"]
  /\ UNCHANGED <<ckey, tr, closeReq, serveWG, contested, watchVars, updateVars, leaked,
                 spc, crashed, lpc>>

(* handleRead looks up the transport to read by its key: it is c's own, a
   later one's, or there is none and nobody reads.  It reads until c's done
   channel is closed, that is until tr[c] = "finished". *)
HandleReadStarts(c) ==
  LET found == IF NoConnMgr THEN None ELSE conns[ckey[c]] IN
  /\ ~crashed
  /\ reader[c] = "starting"
  /\ CanRLock
  /\ reader' = [reader EXCEPT ![c] = IF found = None THEN "ended" ELSE found]
  /\ UNCHANGED <<cpc, ckey, tr, closeReq, serveWG, contested, mgrVars, watchVars,
                 updateVars, leaked, spc, crashed, lpc>>

-----------------------------------------------------------------------------
(* The transport: writePump ends when the peer leaves, when a write fails,
   or because Close was called; then start calls afterWritePump. *)

PeerLeaves(c) ==
  /\ ~crashed
  /\ tr[c] = "running"
  /\ tr' = [tr EXCEPT ![c] = "exited"]
  /\ UNCHANGED <<cpc, ckey, closeReq, reader, serveWG, contested, mgrVars, watchVars,
                 updateVars, leaked, spc, crashed, lpc>>

WritePumpCloses(c) ==
  /\ ~crashed
  /\ tr[c] = "running"
  /\ c \in closeReq
  /\ tr' = [tr EXCEPT ![c] = "exited"]
  /\ UNCHANGED <<cpc, ckey, closeReq, reader, serveWG, contested, mgrVars, watchVars,
                 updateVars, leaked, spc, crashed, lpc>>

(* Variant: the callback returns early when there is no connection manager. *)
AfterWritePumpReturnsEarly(c) ==
  /\ ~crashed
  /\ tr[c] = "exited"
  /\ CanRLock
  /\ IF NoConnMgr THEN UNCHANGED <<mgrVars, serveWG>>
                  ELSE RemoveConnections({ckey[c]}) /\ serveWG' = serveWG - 1
  /\ tr' = [tr EXCEPT ![c] = "finished"]
  /\ closeReq' = closeReq \cup {c}
  /\ UNCHANGED <<cpc, ckey, reader, contested, watchVars, updateVars, leaked, spc,
                 crashed, lpc>>

AfterWritePump(c) ==
  /\ ~crashed
  /\ tr[c] = "exited"
  /\ CanRLock
  /\ IF NoConnMgr THEN UNCHANGED mgrVars ELSE RemoveConnections({ckey[c]})
  /\ serveWG' = serveWG - 1
  /\ tr' = [tr EXCEPT ![c] = "finished"]
  /\ closeReq' = closeReq \cup {c}
  /\ UNCHANGED <<cpc, ckey, reader, contested, watchVars, updateVars, leaked, spc,
                 crashed, lpc>>

-----------------------------------------------------------------------------
(* The critical sections of the method calls: what they do to the calls is
   module ServerCalls, here they are users of s.mu. *)

LockerAt(h, from, to) ==
  /\ ~crashed
  /\ lpc[h] \in from
  /\ lpc' = [lpc EXCEPT ![h] = to]
  /\ UNCHANGED <<connVars, mgrVars, watchVars, updateVars, leaked, spc, crashed>>

(* The application's Invoke registers its call, or removes it on a timeout. *)
InvokeWantsLock(h) == LockerAt(h, {"idle"}, "invoke")

(* Some handleRead takes a response from its transport. *)
ResponseArrives(h) ==
  /\ \E c \in Conns : reader[c] \in Conns
  /\ LockerAt(h, {"idle"}, "response")

(* A critical section that does not send: Invoke's, or a response for which
   no call is registered. *)
LockAndUnlock(h) == CanLock /\ LockerAt(h, {"invoke", "response"}, "done")

(* handleMessageResponse finds the call and sends to its channel. *)
LockAndSend(h) == CanLock /\ LockerAt(h, {"response"}, "sending")

(* Invoke receives the response; the handler removes the call and unlocks. *)
Handover(h) == LockerAt(h, {"sending"}, "done")

(* Invoke does not receive the response: its context has ended, the select has
   taken that case, and it waits for s.mu itself. *)
ReceiverIsGone(h) == LockerAt(h, {"sending"}, "wedged")

-----------------------------------------------------------------------------
(* UpdatePublicKeys *)

UpdateRequested ==
  /\ ~crashed
  /\ upc = "idle"
  /\ updates < MaxUpdates
  /\ upc' = "locking"
  /\ updates' = updates + 1
  /\ UNCHANGED <<server, allowed, connVars, mgrVars, watchVars, leaked, spc, crashed,
                 lpc>>

(* A malformed key: UpdatePublicKeys returns an error and changes nothing. *)
UpdateRejected(newKeys) ==
  /\ ~crashed
  /\ upc = "locking"
  /\ CanLock
  /\ ~ValidPublicKeys(newKeys)
  /\ upc' = "idle"
  /\ UNCHANGED <<server, allowed, updates, connVars, mgrVars, watchVars, leaked, spc,
                 crashed, lpc>>

(* Variant: the connections of deleted keys are forgotten, not closed. *)
UpdatePublicKeysForgets(newKeys) ==
  /\ ~crashed
  /\ upc = "locking"
  /\ CanLock
  /\ ValidPublicKeys(newKeys)
  /\ ~NoConnMgr /\ server # "unset"
  /\ allowed' = newKeys
  /\ RemoveConnections(ConnectedKeys \ newKeys)
  /\ upc' = "idle"
  /\ UNCHANGED <<connVars, watchVars, server, updates, leaked, spc, crashed, lpc>>

(* Variant: removing the connections is left to afterWritePump. *)
UpdatePublicKeysKeepsEntries(newKeys) ==
  /\ ~crashed
  /\ upc = "locking"
  /\ CanLock
  /\ ValidPublicKeys(newKeys)
  /\ ~NoConnMgr /\ server # "unset"
  /\ allowed' = newKeys
  /\ closeReq' = closeReq \cup {conns[k] : k \in ConnectedKeys \ newKeys}
  /\ upc' = "idle"
  /\ UNCHANGED <<cpc, ckey, tr, reader, serveWG, contested, mgrVars, watchVars, server,
                 updates, leaked, spc, crashed, lpc>>

(* Replace the allowed keys; close and remove the connections of the others. *)
UpdatePublicKeys(newKeys) ==
  /\ ~crashed
  /\ upc = "locking"
  /\ CanLock
  /\ ValidPublicKeys(newKeys)
  /\ ~NoConnMgr /\ server # "unset"
  /\ allowed' = newKeys
  /\ closeReq' = closeReq \cup {conns[k] : k \in ConnectedKeys \ newKeys}
  /\ RemoveConnections(ConnectedKeys \ newKeys)
  /\ upc' = "idle"
  /\ UNCHANGED <<cpc, ckey, tr, reader, serveWG, contested, watchVars, server, updates,
                 leaked, spc, crashed, lpc>>

(* After Stop the keys are replaced, then s.connMgr.mu is a nil dereference;
   without credentials PublicKeys is one. *)
UpdatePanics(newKeys) ==
  /\ ~crashed
  /\ upc = "locking"
  /\ CanLock
  /\ ValidPublicKeys(newKeys)
  /\ NoConnMgr \/ server = "unset"
  /\ allowed' = IF server = "unset" THEN allowed ELSE newKeys
  /\ upc' = "idle"
  /\ crashed' = TRUE
  /\ UNCHANGED <<connVars, mgrVars, watchVars, server, updates, leaked, spc, lpc>>

-----------------------------------------------------------------------------
(* Stop *)

StopAt(from, to) == ~crashed /\ spc = from /\ spc' = to

FireQuit ==
  /\ StopAt("idle", "quit")
  /\ UNCHANGED <<connVars, mgrVars, watchVars, updateVars, leaked, crashed, lpc>>

StopRequestsLock ==
  /\ StopAt("quit", "locking")
  /\ UNCHANGED <<connVars, mgrVars, watchVars, updateVars, leaked, crashed, lpc>>

(* Stop takes the connection manager: s.connMgr is nil from now on. *)
DropConnMgr ==
  /\ StopAt("locking", "closing")
  /\ CanLock
  /\ UNCHANGED <<connVars, mgrVars, watchVars, updateVars, leaked, crashed, lpc>>

(* connMgr.close(): Close on every registered transport. *)
CloseConnections ==
  /\ StopAt("closing", "waiting")
  /\ closeReq' = closeReq \cup {conns[k] : k \in ConnectedKeys}
  /\ UNCHANGED <<cpc, ckey, tr, reader, serveWG, contested, mgrVars, watchVars,
                 updateVars, leaked, crashed, lpc>>

StopReturns ==
  /\ StopAt("waiting", "done")
  /\ serveWG = 0
  /\ UNCHANGED <<connVars, mgrVars, watchVars, updateVars, leaked, crashed, lpc>>

-----------------------------------------------------------------------------
(* The application's watcher: take the notification channel, read the keys,
   wait for the channel to be closed, start again. *)

GetConnectionNotifyChan ==
  /\ ~crashed
  /\ watch = "idle"
  /\ CanRLock
  /\ ~NoConnMgr
  /\ notifyOpen' = TRUE
  /\ watch' = "reading"
  /\ UNCHANGED <<connVars, conns, view, updateVars, leaked, spc, crashed, lpc>>

GetConnectedPeerPublicKeys ==
  /\ ~crashed
  /\ watch = "reading"
  /\ CanRLock
  /\ ~NoConnMgr
  /\ view' = ConnectedKeys
  /\ watch' = "waiting"
  /\ UNCHANGED <<connVars, mgrVars, updateVars, leaked, spc, crashed, lpc>>

(* The channel the watcher holds has been closed.  There is one watcher, so
   it holds an open channel exactly if the manager does. *)
WatcherWakes ==
  /\ ~crashed
  /\ watch = "waiting"
  /\ ~notifyOpen
  /\ watch' = "idle"
  /\ view' = {}
  /\ UNCHANGED <<connVars, mgrVars, updateVars, leaked, spc, crashed, lpc>>

(* Both of them dereference s.connMgr, which is nil. *)
WatcherPanics ==
  /\ ~crashed
  /\ watch \in {"idle", "reading"}
  /\ CanRLock
  /\ NoConnMgr
  /\ crashed' = TRUE
  /\ UNCHANGED <<connVars, mgrVars, watchVars, updateVars, leaked, spc, lpc>>

-----------------------------------------------------------------------------
HandlerStep(c) == \/ EnsureSingleClientConnection(c) \/ EnsureSinglePanics(c)
                  \/ Upgrade(c) \/ StartTransport(c) \/ AbandonUpgraded(c)
                  \/ RegisterConnection(c)

TransportStep(c) == WritePumpCloses(c) \/ AfterWritePump(c)

StopStep == StopRequestsLock \/ DropConnMgr \/ CloseConnections \/ StopReturns

LockerStep(h) == LockAndUnlock(h) \/ LockAndSend(h) \/ Handover(h) \/ ReceiverIsGone(h)

UpdateStep == \E newKeys \in SUBSET (Keys \cup {Malformed}) :
                 UpdateRejected(newKeys) \/ UpdatePublicKeys(newKeys) \/ UpdatePanics(newKeys)

Next ==
  \/ Serve
  \/ \E c \in Conns, rawCerts \in RawCerts : Accept(c, rawCerts)
  \/ \E c \in Conns : HandlerStep(c) \/ TransportStep(c) \/ HandleReadStarts(c) \/ PeerLeaves(c)
  \/ \E h \in Lockers : InvokeWantsLock(h) \/ ResponseArrives(h) \/ LockerStep(h)
  \/ UpdateRequested \/ UpdateStep
  \/ FireQuit \/ StopStep
  \/ GetConnectionNotifyChan \/ GetConnectedPeerPublicKeys
  \/ WatcherWakes \/ WatcherPanics

Spec == Init /\ [][Next]_vars

(* The server's goroutines go on when they can, a caller inside UpdatePublicKeys
   or Stop too; peers and the application owe nothing. *)
Fairness ==
  /\ \A c \in Conns : /\ WF_vars(HandlerStep(c))
                      /\ WF_vars(TransportStep(c))
  /\ \A h \in Lockers : WF_vars(LockerStep(h))
  /\ WF_vars(UpdateStep)
  /\ WF_vars(StopStep)

FairSpec == Spec /\ Fairness

-----------------------------------------------------------------------------
(* Safety *)

(* When Stop has returned no transport is running or has its afterWritePump
   to come: wshandler joins serveWG under the read lock that Stop's lock
   excludes, so no connection slips in behind Stop's back. *)
StopIsComplete ==
  spc = "done" => \A c \in Conns : tr[c] \in {"none", "finished"}

(* A connection that has not been in contest with another of its key is
   registered under that key and has its messages read from its registration
   until its transport ends or is asked to close: neither the remains of an
   earlier connection of the peer, nor other peers' connections, nor changes
   of the allowed keys take its entry or its reader away. *)
UncontestedIsServed ==
  \A c \in Conns \ contested :
     cpc[c] = "serving" /\ tr[c] = "running" /\ c \notin closeReq /\ ~NoConnMgr
        => conns[ckey[c]] = c /\ reader[c] \in {"starting", c}

(* A watcher that takes the channel before it reads the list never waits
   with an outdated list: every change closes the channel it holds. *)
WatcherIsCurrent == watch = "waiting" /\ notifyOpen /\ ~NoConnMgr => view = ConnectedKeys

(* What ensureSingleClientConnection is for: "Ensure there is only a single
   connection per public key". *)
SingleConnectionPerKey ==
  \A c, d \in Conns :
     (/\ cpc[c] = "serving" /\ tr[c] = "running" /\ c \notin closeReq
      /\ cpc[d] = "serving" /\ tr[d] = "running" /\ d \notin closeReq
      /\ ckey[c] = ckey[d])
        => c = d

(* The entry of a key is wrong: its transport has ended, or the key is no
   longer allowed. *)
Wrong(k) == conns[k] # None /\ (tr[conns[k]] = "finished" \/ k \notin allowed)

(* The registry never goes wrong under a registered connection: neither the
   end of a transport, in whatever order the connections of its key end, nor
   a change of the allowed keys leaves a wrong entry behind.  Only wshandler
   creates one, when it registers a transport that has ended, or whose key
   was revoked, since it began. *)
RegistryErrsOnlyInRegistration ==
  [][\A k \in Keys : Wrong(k)' /\ ~Wrong(k) /\ ~NoConnMgr'
        => cpc[conns'[k]] = "starting" /\ conns[k] # conns'[k]]_vars

-----------------------------------------------------------------------------
(* Liveness *)

(* Stop has closed what is registered, and c is not: another connection of
   its key has pushed it out of the registry, and only its peer can end it. *)
Orphaned(c) == spc = "waiting" /\ tr[c] = "running" /\ c \notin closeReq /\ c \in contested

(* A recovered panic in ensureSingleClientConnection has left s.mu read-locked. *)
Leaked == \E c \in Conns : cpc[c] = "panicked"

(* s.mu is locked for ever by a response whose call has timed out, the
   deadlock that ServerCalls is about. *)
Wedged == \E h \in Lockers : lpc[h] = "wedged"

(* Stop returns, unless it waits for an orphan, s.mu is locked for ever by a
   wedged response handler, or a recovered panic has left s.mu read-locked
   with a writer (UpdatePublicKeys, Invoke, a response) queued behind it. *)
StopTerminates ==
  (spc = "quit") ~> \/ spc = "done"
                    \/ crashed
                    \/ Wedged
                    \/ Leaked /\ (upc = "locking" \/ \E h \in Lockers : Awaits(h))
                    \/ \E c \in Conns : Orphaned(c)

(* UpdatePublicKeys gets the lock and returns, unless a recovered panic has
   left s.mu read-locked or a wedged response handler keeps it locked. *)
UpdateTerminates == (upc = "locking") ~> (upc = "idle" \/ Leaked \/ Wedged \/ crashed)
=============================================================================
