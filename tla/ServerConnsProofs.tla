------------------------- MODULE ServerConnsProofs -------------------------
(***************************************************************************)
(* Proofs about ServerConns for any finite number of connections, any set  *)
(* of keys, any users of s.mu and any number of calls of UpdatePublicKeys. *)
(***************************************************************************)
EXTENDS ServerConns, FiniteSetTheorems, TLAPS

(* wshandler has started a transport exactly if it is past that point, and a
   connection that has been accepted keeps its key. *)
HandlerInv ==
  \A c \in Conns : /\ cpc[c] \in {"starting", "serving"} <=> tr[c] # "none"
                   /\ cpc[c] # "new" => ckey[c] \in Keys
                   /\ reader[c] # "none" => cpc[c] = "serving"

(* serveWG counts the transports that have not called afterWritePump, and a
   read lock is lost with each panic. *)
Busy == {c \in Conns : tr[c] \in {"running", "exited"}}
Panicked == {c \in Conns : cpc[c] = "panicked"}
CountInv == serveWG = Cardinality(Busy) /\ leaked = Cardinality(Panicked)

(* What is registered for a key is a connection of that key. *)
RegistryInv ==
  \A k \in Keys : conns[k] # None => cpc[conns[k]] = "serving" /\ ckey[conns[k]] = k

(* Connections of one key that have a transport at the same time are all in
   contest, however many there are and in whatever order they started. *)
ContestInv ==
  \A c, d \in Conns : c # d /\ ckey[c] = ckey[d] /\ Active(c) /\ Active(d) => c \in contested

IInv == /\ TypeOK /\ HandlerInv /\ CountInv /\ RegistryInv /\ ContestInv
        /\ StopIsComplete /\ UncontestedIsServed /\ WatcherIsCurrent
-----------------------------------------------------------------------------
(* Sets of connections are finite, and none is larger than Conns. *)
LEMMA SubsetsAreFinite ==
  ASSUME NEW S \in SUBSET Conns
  PROVE  IsFiniteSet(S) /\ Cardinality(S) \in 0 .. Cardinality(Conns)
<1>1. IsFiniteSet(S) /\ Cardinality(S) <= Cardinality(Conns)
  BY ConnsAssumption, FS_Subset
<1>2. Cardinality(S) \in Nat /\ Cardinality(Conns) \in Nat
  BY <1>1, ConnsAssumption, FS_CardinalityType
<1> QED
  BY <1>1, <1>2

(* The service of a connection goes on through steps that leave the registry
   and the readers alone. *)
LEMMA ServiceGoesOn ==
  ASSUME UncontestedIsServed,
         \A c \in Conns : cpc'[c] = "serving" /\ tr'[c] = "running"
                             => cpc[c] = "serving" /\ tr[c] = "running" /\ ckey'[c] = ckey[c],
         NoConnMgr => NoConnMgr', closeReq \subseteq closeReq', contested \subseteq contested',
         UNCHANGED <<conns, reader>>
  PROVE  UncontestedIsServed'
BY DEF UncontestedIsServed

(* No contest arises where no connection gets a transport. *)
LEMMA NoNewContest ==
  ASSUME ContestInv, contested \subseteq contested',
         \A c \in Conns : Active(c)' => Active(c) /\ ckey'[c] = ckey[c]
  PROVE  ContestInv'
BY DEF ContestInv

(* The initial state satisfies the inductive invariant. *)
LEMMA InitIInv == Init => IInv
<1> SUFFICES ASSUME Init PROVE IInv
  OBVIOUS
<1> USE NoneAssumption, MaxUpdatesAssumption DEF Init
<1>1. allowed \subseteq Keys /\ server \in {"unset", "new"}
  BY MalformedAssumption DEF WithCreds, ValidPublicKeys, ValidPrivateKey
<1>2. Busy = {} /\ Panicked = {} /\ Cardinality(Conns) \in Nat
  BY ConnsAssumption, FS_CardinalityType DEF Busy, Panicked
<1>3. TypeOK
  <2>1. crashed \in BOOLEAN /\ notifyOpen \in BOOLEAN
    OBVIOUS
  <2>2. /\ serveWG \in 0 .. Cardinality(Conns) /\ leaked \in 0 .. Cardinality(Conns)
        /\ updates \in 0 .. MaxUpdates
    BY <1>2
  <2>3. /\ cpc \in [Conns -> {"new", "checking", "upgrading", "upgraded",
                             "starting", "serving", "ended", "panicked"}]
        /\ ckey \in [Conns -> Keys \cup {None}]
        /\ tr \in [Conns -> {"none", "running", "exited", "finished"}]
        /\ reader \in [Conns -> {"none", "starting", "ended"} \cup Conns]
        /\ conns \in [Keys -> Conns \cup {None}]
        /\ lpc \in [Lockers -> {"idle", "invoke", "response", "sending", "wedged", "done"}]
    OBVIOUS
  <2> QED
    BY <1>1, <2>1, <2>2, <2>3 DEF TypeOK
<1>4. CountInv
  BY <1>2, FS_EmptySet DEF CountInv
<1> QED
  BY <1>3, <1>4 DEF IInv, HandlerInv, RegistryInv, StopIsComplete, UncontestedIsServed,
     WatcherIsCurrent, ContestInv, Active

-----------------------------------------------------------------------------
(* wshandler, before it has started a transport, preserves it. *)
LEMMA HandlerIInv ==
  ASSUME IInv, NEW c \in Conns,
         \/ \E rawCerts \in RawCerts : Accept(c, rawCerts)
         \/ EnsureSingleClientConnection(c) \/ EnsureSinglePanics(c) \/ Upgrade(c)
         \/ AbandonUpgraded(c)
  PROVE  IInv'
<1> USE NoneAssumption DEF IInv, TypeOK, mgrVars, watchVars, updateVars
<1>1. /\ cpc[c] \in {"new", "checking", "upgrading", "upgraded"}
      /\ \E label \in {"new", "checking", "upgrading", "upgraded", "ended", "panicked"} :
           cpc' = [cpc EXCEPT ![c] = label] /\ (label # "new" => ckey'[c] \in Keys)
      /\ \E k \in Keys \cup {None} : ckey' = [ckey EXCEPT ![c] = k]
      /\ UNCHANGED <<tr, closeReq, reader, serveWG, contested, conns, notifyOpen, watch, view,
                     server, allowed, upc, updates, spc, crashed, lpc>>
  <2>1. CASE \E rawCerts \in RawCerts : Accept(c, rawCerts)
    <3>1. PICK rawCerts \in RawCerts : Accept(c, rawCerts)
      BY <2>1
    <3>2. PubKeyFromCert(rawCerts[1]) \in Keys
      BY <3>1 DEF Accept, VerifyPeerCertificate
    <3> QED
      BY <3>1, <3>2 DEF Accept, Goto
  <2>2. CASE \/ EnsureSingleClientConnection(c) \/ EnsureSinglePanics(c) \/ Upgrade(c)
             \/ AbandonUpgraded(c)
    <3>1. cpc[c] \in {"checking", "upgrading", "upgraded"}
      BY <2>2 DEF EnsureSingleClientConnection, EnsureSinglePanics, Upgrade, AbandonUpgraded
    <3>2. ckey[c] \in Keys /\ ckey = [ckey EXCEPT ![c] = ckey[c]]
      BY <3>1 DEF HandlerInv
    <3> QED
      BY <2>2, <3>1, <3>2 DEF EnsureSingleClientConnection, EnsureSinglePanics, Upgrade,
         AbandonUpgraded, Refuse, Goto
  <2> QED
    BY <2>1, <2>2
<1>2. tr[c] = "none" /\ reader[c] = "none"
  BY <1>1 DEF HandlerInv
<1>3. HandlerInv'
  BY <1>1, <1>2 DEF HandlerInv
<1>4. leaked' = Cardinality(Panicked')
  <2>1. CASE EnsureSinglePanics(c)
    <3>1. Panicked' = Panicked \cup {c} /\ c \notin Panicked
      BY <2>1 DEF EnsureSinglePanics, Goto, Panicked
    <3>2. IsFiniteSet(Panicked)
      BY SubsetsAreFinite DEF Panicked
    <3> QED
      BY <2>1, <3>1, <3>2, FS_AddElement DEF EnsureSinglePanics, CountInv
  <2>2. CASE ~EnsureSinglePanics(c)
    <3>1. leaked' = leaked /\ cpc'[c] # "panicked"
      BY <2>2 DEF Accept, EnsureSingleClientConnection, Upgrade, AbandonUpgraded, Refuse, Goto
    <3>2. Panicked' = Panicked
      BY <1>1, <3>1 DEF Panicked
    <3> QED
      BY <3>1, <3>2 DEF CountInv
  <2> QED
    BY <2>1, <2>2
<1>5. CountInv'
  BY <1>1, <1>4 DEF CountInv, Busy
<1>6. TypeOK'
  <2>1. leaked' \in 0 .. Cardinality(Conns)
    BY <1>4, SubsetsAreFinite DEF Panicked
  <2> QED
    BY <1>1, <2>1
<1>7. RegistryInv'
  BY <1>1 DEF RegistryInv
<1>8. UncontestedIsServed'
  BY <1>1, <1>2, ServiceGoesOn DEF NoConnMgr
<1>9. StopIsComplete' /\ WatcherIsCurrent'
  BY <1>1 DEF StopIsComplete, WatcherIsCurrent, NoConnMgr, ConnectedKeys
<1>10. ContestInv'
  BY <1>1, <1>2, NoNewContest DEF Active
<1> QED
  BY <1>3, <1>5, <1>6, <1>7, <1>8, <1>9, <1>10

(* So does the start of a transport. *)
LEMMA StartTransportIInv == ASSUME IInv, NEW c \in Conns, StartTransport(c) PROVE IInv'
<1> USE NoneAssumption DEF IInv, TypeOK, mgrVars, watchVars, updateVars, StartTransport, Goto
<1>1. tr[c] = "none" /\ reader[c] = "none" /\ cpc[c] = "upgraded"
  BY DEF HandlerInv
<1>2. Busy' = Busy \cup {c} /\ c \notin Busy /\ Panicked' = Panicked
  BY <1>1 DEF Busy, Panicked
<1>3. CountInv'
  <2>1. IsFiniteSet(Busy)
    BY SubsetsAreFinite DEF Busy
  <2> QED
    BY <1>2, <2>1, FS_AddElement DEF CountInv
<1>4. TypeOK'
  <2>1. serveWG' \in 0 .. Cardinality(Conns)
    BY <1>3, SubsetsAreFinite DEF CountInv, Busy
  <2>2. contested' \subseteq Conns
    BY DEF Contested
  <2> QED
    BY <2>1, <2>2
<1>5. HandlerInv'
  BY <1>1 DEF HandlerInv
<1>6. RegistryInv'
  BY <1>1 DEF RegistryInv
<1>7. UncontestedIsServed'
  BY <1>1, ServiceGoesOn DEF NoConnMgr
(* s.connMgr is not nil: Stop has not got as far as waiting. *)
<1>8. StopIsComplete' /\ WatcherIsCurrent'
  BY DEF StopIsComplete, WatcherIsCurrent, NoConnMgr, ConnectedKeys
(* Those that were in contest before still are; c joins its rivals. *)
<1>9. ContestInv'
  <2>1. contested' = contested \cup Contested(c) /\ ckey' = ckey
    OBVIOUS
  <2>2. \A d \in Conns \ {c} : Active(d)' <=> Active(d)
    BY DEF Active
  <2> HIDE DEF IInv, TypeOK, StartTransport
  <2>3. \A d \in Conns \ {c} : ckey[d] = ckey[c] /\ Active(d) => {c, d} \subseteq Contested(c)
    BY DEF Contested
  <2> QED
    BY <2>1, <2>2, <2>3 DEF ContestInv, IInv
<1> QED
  BY <1>3, <1>4, <1>5, <1>6, <1>7, <1>8, <1>9

(* So does the registration: whoever is pushed out of the registry was in
   contest with the new connection. *)
LEMMA RegisterIInv == ASSUME IInv, NEW c \in Conns, RegisterConnection(c) PROVE IInv'
<1> USE NoneAssumption DEF IInv, TypeOK, mgrVars, watchVars, updateVars, RegisterConnection, Goto,
        Notify
<1>1. ckey[c] \in Keys /\ tr[c] # "none" /\ c # None /\ cpc[c] = "starting"
  BY DEF HandlerInv
<1>2. TypeOK'
  BY <1>1
<1>3. HandlerInv'
  BY <1>1 DEF HandlerInv
<1>4. CountInv'
  BY DEF CountInv, Busy, Panicked
<1>5. RegistryInv'
  BY <1>1 DEF RegistryInv
<1>6. UncontestedIsServed'
  <2> SUFFICES ASSUME NEW d \in Conns, cpc'[d] = "serving", tr'[d] = "running",
                      d \notin closeReq', d \notin contested', ~NoConnMgr'
               PROVE  conns'[ckey'[d]] = d /\ reader'[d] \in {"starting", d}
    BY DEF UncontestedIsServed
  <2>1. CASE d = c
    BY <1>1, <2>1
  <2>2. CASE d # c
    <3>1. ckey[c] # ckey[d]
      BY <1>1, <2>2 DEF ContestInv, Active
    <3>2. cpc[d] = "serving" /\ ckey[d] \in Keys
      BY <2>2 DEF HandlerInv
    <3> QED
      BY <1>1, <2>2, <3>1, <3>2 DEF UncontestedIsServed, NoConnMgr
  <2> QED
    BY <2>1, <2>2
<1>7. StopIsComplete' /\ WatcherIsCurrent'
  BY DEF StopIsComplete, WatcherIsCurrent
<1>8. ContestInv'
  BY <1>1, NoNewContest DEF Active
<1> QED
  BY <1>2, <1>3, <1>4, <1>5, <1>6, <1>7, <1>8

(* handleRead finds the connection's own transport, if it is uncontested. *)
LEMMA HandleReadIInv == ASSUME IInv, NEW c \in Conns, HandleReadStarts(c) PROVE IInv'
<1> USE NoneAssumption DEF IInv, TypeOK, mgrVars, watchVars, updateVars
<1> DEFINE found == IF NoConnMgr THEN None ELSE conns[ckey[c]]
<1>1. /\ reader[c] = "starting"
      /\ reader' = [reader EXCEPT ![c] = IF found = None THEN "ended" ELSE found]
      /\ UNCHANGED <<cpc, ckey, tr, closeReq, serveWG, contested, conns, notifyOpen, watch,
                     view, server, allowed, upc, updates, leaked, spc, crashed, lpc>>
  BY DEF HandleReadStarts
<1>2. cpc[c] = "serving" /\ ckey[c] \in Keys
  BY <1>1 DEF HandlerInv
<1>3. found \in Conns \cup {None}
  BY <1>2
<1> HIDE DEF found
<1>4. TypeOK'
  BY <1>1, <1>3
<1>5. HandlerInv'
  BY <1>1, <1>2 DEF HandlerInv
<1>6. CountInv'
  BY <1>1 DEF CountInv, Busy, Panicked
<1>7. RegistryInv'
  BY <1>1 DEF RegistryInv
<1>8. UncontestedIsServed'
  <2> SUFFICES ASSUME NEW d \in Conns, cpc[d] = "serving", tr[d] = "running",
                      d \notin closeReq, d \notin contested, ~NoConnMgr
               PROVE  conns[ckey[d]] = d /\ reader'[d] \in {"starting", d}
    BY <1>1 DEF UncontestedIsServed, NoConnMgr
  <2>1. conns[ckey[d]] = d /\ reader[d] \in {"starting", d}
    BY DEF UncontestedIsServed
  <2>2. CASE d = c
    BY <1>1, <2>1, <2>2 DEF found
  <2>3. CASE d # c
    BY <1>1, <2>1, <2>3
  <2> QED
    BY <2>2, <2>3
<1>9. StopIsComplete' /\ WatcherIsCurrent'
  BY <1>1 DEF StopIsComplete, WatcherIsCurrent, NoConnMgr, ConnectedKeys
<1>10. ContestInv'
  BY <1>1, NoNewContest DEF Active
<1> QED
  BY <1>4, <1>5, <1>6, <1>7, <1>8, <1>9, <1>10

-----------------------------------------------------------------------------
(* The end of a transport preserves it: the entry that afterWritePump removes
   is that of a connection in contest with it, or its own. *)
LEMMA TransportIInv ==
  ASSUME IInv, NEW c \in Conns, PeerLeaves(c) \/ TransportStep(c)
  PROVE  IInv'
<1> USE NoneAssumption DEF IInv, TypeOK, mgrVars, watchVars, updateVars
<1>1. ASSUME PeerLeaves(c) \/ WritePumpCloses(c)
      PROVE  IInv'
  <2> USE <1>1 DEF PeerLeaves, WritePumpCloses
  <2>1. /\ tr[c] = "running" /\ tr' = [tr EXCEPT ![c] = "exited"]
        /\ UNCHANGED <<cpc, ckey, closeReq, reader, serveWG, contested, conns, notifyOpen, watch,
                       view, server, allowed, upc, updates, leaked, spc, crashed, lpc>>
    OBVIOUS
  <2>2. TypeOK'
    BY <2>1
  <2>3. HandlerInv'
    BY <2>1 DEF HandlerInv
  <2>4. CountInv'
    <3>1. Busy' = Busy /\ Panicked' = Panicked
      BY <2>1 DEF Busy, Panicked
    <3> QED
      BY <2>1, <3>1 DEF CountInv
  <2>5. RegistryInv'
    BY <2>1 DEF RegistryInv
  <2>6. UncontestedIsServed'
    BY <2>1, ServiceGoesOn DEF NoConnMgr
  <2>7. StopIsComplete' /\ WatcherIsCurrent'
    BY <2>1 DEF StopIsComplete, WatcherIsCurrent, NoConnMgr, ConnectedKeys
  <2>8. ContestInv'
    BY <2>1, NoNewContest DEF Active
  <2> QED
    BY <2>2, <2>3, <2>4, <2>5, <2>6, <2>7, <2>8
<1>2. ASSUME AfterWritePump(c)
      PROVE  IInv'
  <2> USE <1>2 DEF AfterWritePump, RemoveConnections, Notify
  <2>1. ckey[c] \in Keys /\ tr[c] = "exited"
    BY DEF HandlerInv
  <2>2. \/ UNCHANGED <<conns, notifyOpen>> /\ NoConnMgr
        \/ /\ conns' = [k \in Keys |-> IF k = ckey[c] THEN None ELSE conns[k]]
           /\ notifyOpen' = FALSE
    OBVIOUS
  <2>3. /\ tr' = [tr EXCEPT ![c] = "finished"] /\ closeReq' = closeReq \cup {c}
        /\ serveWG' = serveWG - 1
        /\ UNCHANGED <<cpc, ckey, reader, contested, watch, view, server, allowed, upc, updates,
                       leaked, spc, crashed, lpc>>
    OBVIOUS
  <2> HIDE <1>2 DEF AfterWritePump, RemoveConnections
  <2>4. CountInv'
    <3>1. Busy' = Busy \ {c} /\ c \in Busy /\ Panicked' = Panicked
      BY <2>1, <2>3 DEF Busy, Panicked
    <3>2. IsFiniteSet(Busy)
      BY SubsetsAreFinite DEF Busy
    <3> QED
      BY <2>3, <3>1, <3>2, FS_RemoveElement DEF CountInv
  <2>5. TypeOK'
    <3>1. serveWG' \in 0 .. Cardinality(Conns)
      BY <2>4, SubsetsAreFinite DEF CountInv, Busy
    <3>2. conns' \in [Keys -> Conns \cup {None}] /\ notifyOpen' \in BOOLEAN
      BY <2>2
    <3> QED
      BY <2>3, <3>1, <3>2
  <2>6. HandlerInv'
    BY <2>1, <2>3 DEF HandlerInv
  <2>7. RegistryInv'
    BY <2>2, <2>3 DEF RegistryInv
  <2>8. UncontestedIsServed'
    <3> SUFFICES ASSUME NEW d \in Conns, cpc'[d] = "serving", tr'[d] = "running",
                        d \notin closeReq', d \notin contested', ~NoConnMgr'
                 PROVE  conns'[ckey'[d]] = d /\ reader'[d] \in {"starting", d}
      BY DEF UncontestedIsServed
    <3>1. d # c /\ tr[d] = "running" /\ d \notin closeReq /\ cpc[d] = "serving" /\ ~NoConnMgr
      BY <2>3 DEF NoConnMgr
    <3>2. ckey[c] # ckey[d]
      BY <2>1, <2>3, <3>1 DEF ContestInv, Active
    <3>3. ckey[d] \in Keys
      BY <3>1 DEF HandlerInv
    <3> QED
      BY <2>2, <2>3, <3>1, <3>2, <3>3 DEF UncontestedIsServed
  <2>9. StopIsComplete'
    BY <2>3 DEF StopIsComplete
  <2>10. WatcherIsCurrent'
    BY <2>2, <2>3 DEF WatcherIsCurrent, NoConnMgr
  <2>11. ContestInv'
    BY <2>1, <2>3, NoNewContest DEF Active
  <2> QED
    BY <2>4, <2>5, <2>6, <2>7, <2>8, <2>9, <2>10, <2>11
<1> QED
  BY <1>1, <1>2 DEF TransportStep

(* UpdatePublicKeys preserves it: what it removes it closes. *)
LEMMA UpdateIInv ==
  ASSUME IInv, NEW newKeys \in SUBSET (Keys \cup {Malformed}), UpdatePublicKeys(newKeys)
  PROVE  IInv'
<1> USE NoneAssumption DEF IInv, TypeOK, mgrVars, watchVars, updateVars
<1> DEFINE gone == ConnectedKeys \ newKeys
<1>1. /\ allowed' = newKeys /\ newKeys \subseteq Keys
      /\ closeReq' = closeReq \cup {conns[k] : k \in gone}
      /\ conns' = [k \in Keys |-> IF k \in gone THEN None ELSE conns[k]]
      /\ notifyOpen' \in BOOLEAN /\ (gone = {} \/ ~notifyOpen') /\ (notifyOpen' => notifyOpen)
      /\ upc' = "idle"
      /\ UNCHANGED <<cpc, ckey, tr, reader, serveWG, contested, watch, view, server, updates,
                     leaked, spc, crashed, lpc>>
  BY DEF UpdatePublicKeys, RemoveConnections, Notify, ValidPublicKeys
<1>2. gone \subseteq Keys /\ \A k \in gone : conns[k] \in Conns
  BY DEF ConnectedKeys
<1> HIDE DEF gone
<1>3. TypeOK'
  BY <1>1, <1>2
<1>4. HandlerInv'
  BY <1>1 DEF HandlerInv
<1>5. CountInv'
  BY <1>1 DEF CountInv, Busy, Panicked
<1>6. RegistryInv'
  BY <1>1 DEF RegistryInv
<1>7. UncontestedIsServed'
  <2> SUFFICES ASSUME NEW d \in Conns, cpc[d] = "serving", tr[d] = "running",
                      d \notin closeReq', d \notin contested, ~NoConnMgr
               PROVE  conns'[ckey[d]] = d /\ reader[d] \in {"starting", d}
    BY <1>1 DEF UncontestedIsServed, NoConnMgr
  <2>1. conns[ckey[d]] = d /\ reader[d] \in {"starting", d} /\ ckey[d] \in Keys
    BY <1>1 DEF UncontestedIsServed, HandlerInv
  <2>2. ckey[d] \notin gone
    BY <1>1, <2>1
  <2> QED
    BY <1>1, <2>1, <2>2
<1>8. StopIsComplete'
  BY <1>1 DEF StopIsComplete
<1>9. WatcherIsCurrent'
  <2>1. CASE gone = {}
    <3>1. conns' = conns
      BY <1>1, <2>1
    <3> QED
      BY <1>1, <3>1 DEF WatcherIsCurrent, NoConnMgr, ConnectedKeys
  <2>2. CASE gone # {}
    BY <1>1, <2>2 DEF WatcherIsCurrent
  <2> QED
    BY <2>1, <2>2
<1>10. ContestInv'
  BY <1>1, NoNewContest DEF Active
<1> QED
  BY <1>3, <1>4, <1>5, <1>6, <1>7, <1>8, <1>9, <1>10

(* The users of s.mu change nothing but their own places. *)
LEMMA LockerIInv ==
  ASSUME IInv, NEW h \in Lockers, InvokeWantsLock(h) \/ ResponseArrives(h) \/ LockerStep(h)
  PROVE  IInv'
<1>1. /\ UNCHANGED <<connVars, mgrVars, watchVars, updateVars, leaked, spc, crashed>>
      /\ \E to \in {"invoke", "response", "sending", "wedged", "done"} :
           lpc' = [lpc EXCEPT ![h] = to]
  BY DEF InvokeWantsLock, ResponseArrives, LockerStep, LockAndUnlock, LockAndSend, Handover,
     ReceiverIsGone, LockerAt
<1> USE <1>1 DEF connVars, mgrVars, watchVars, updateVars
<1>2. TypeOK'
  BY DEF IInv, TypeOK
<1>3. HandlerInv' /\ CountInv' /\ RegistryInv' /\ ContestInv'
  BY DEF IInv, HandlerInv, CountInv, Busy, Panicked, RegistryInv, ContestInv, Active
<1>4. StopIsComplete' /\ UncontestedIsServed' /\ WatcherIsCurrent'
  BY DEF IInv, StopIsComplete, UncontestedIsServed, WatcherIsCurrent, NoConnMgr, ConnectedKeys
<1> QED
  BY <1>2, <1>3, <1>4 DEF IInv

(* So do the steps that change neither connections nor the registry, beyond
   asking transports to close. *)
LEMMA OtherIInv ==
  ASSUME IInv,
         \/ Serve \/ UpdateRequested \/ FireQuit \/ StopStep \/ WatcherPanics
         \/ \E newKeys \in SUBSET (Keys \cup {Malformed}) :
              UpdateRejected(newKeys) \/ UpdatePanics(newKeys)
         \/ GetConnectionNotifyChan \/ GetConnectedPeerPublicKeys \/ WatcherWakes
         \/ UNCHANGED vars
  PROVE  IInv'
<1> USE NoneAssumption, MaxUpdatesAssumption
        DEF IInv, TypeOK, connVars, mgrVars, watchVars, updateVars
<1>1. /\ UNCHANGED <<cpc, ckey, tr, reader, conns, serveWG, contested, leaked, lpc>>
      /\ closeReq \subseteq closeReq' /\ closeReq' \subseteq Conns
  BY DEF Serve, UpdateRequested, FireQuit, StopStep, StopRequestsLock, DropConnMgr,
     CloseConnections, StopReturns, StopAt, UpdateRejected, UpdatePanics, GetConnectionNotifyChan,
     GetConnectedPeerPublicKeys, WatcherWakes, WatcherPanics, vars, ConnectedKeys
<1>2. /\ NoConnMgr => NoConnMgr'
      /\ spc' \in {"idle", "quit", "locking", "closing", "waiting", "done"}
      /\ spc' = "done" => spc = "done" \/ serveWG = 0
  BY DEF Serve, UpdateRequested, FireQuit, StopStep, StopRequestsLock, DropConnMgr,
     CloseConnections, StopReturns, StopAt, UpdateRejected, UpdatePanics, GetConnectionNotifyChan,
     GetConnectedPeerPublicKeys, WatcherWakes, WatcherPanics, vars, NoConnMgr
<1>3. /\ server' \in {"unset", "new", "listening"} /\ allowed' \subseteq Keys
      /\ upc' \in {"idle", "locking"} /\ updates' \in 0 .. MaxUpdates /\ crashed' \in BOOLEAN
  <2>1. CASE \E newKeys \in SUBSET (Keys \cup {Malformed}) :
               UpdateRejected(newKeys) \/ UpdatePanics(newKeys)
    BY <2>1 DEF UpdateRejected, UpdatePanics, ValidPublicKeys
  <2>2. CASE UpdateRequested
    BY <2>2 DEF UpdateRequested
  <2>3. CASE \/ Serve \/ FireQuit \/ StopStep \/ WatcherPanics \/ GetConnectionNotifyChan
             \/ GetConnectedPeerPublicKeys \/ WatcherWakes \/ UNCHANGED vars
    BY <2>3 DEF Serve, FireQuit, StopStep, StopRequestsLock, DropConnMgr, CloseConnections,
       StopReturns, StopAt, GetConnectionNotifyChan, GetConnectedPeerPublicKeys, WatcherWakes,
       WatcherPanics, vars
  <2> QED
    BY <2>1, <2>2, <2>3
<1>4. /\ notifyOpen' \in BOOLEAN /\ watch' \in {"idle", "reading", "waiting"} /\ view' \subseteq Keys
      /\ watch' = "waiting" => \/ view' = ConnectedKeys
                               \/ watch = "waiting" /\ UNCHANGED <<view, notifyOpen>>
  BY DEF Serve, UpdateRequested, FireQuit, StopStep, StopRequestsLock, DropConnMgr,
     CloseConnections, StopReturns, StopAt, UpdateRejected, UpdatePanics, GetConnectionNotifyChan,
     GetConnectedPeerPublicKeys, WatcherWakes, WatcherPanics, vars, ConnectedKeys
<1>5. TypeOK'
  BY <1>1, <1>2, <1>3, <1>4
<1>6. HandlerInv' /\ CountInv' /\ RegistryInv' /\ ContestInv'
  BY <1>1 DEF HandlerInv, CountInv, Busy, Panicked, RegistryInv, ContestInv, Active
<1>7. UncontestedIsServed'
  BY <1>1, <1>2, ServiceGoesOn
(* The wait group is at zero: every transport has called afterWritePump. *)
<1>8. StopIsComplete'
  <2>1. serveWG = 0 => Busy = {}
    BY SubsetsAreFinite, FS_EmptySet DEF CountInv, Busy
  <2>2. Busy = {} => \A c \in Conns : tr[c] \in {"none", "finished"}
    BY DEF Busy
  <2> QED
    BY <1>1, <1>2, <2>1, <2>2 DEF StopIsComplete
<1>9. WatcherIsCurrent'
  BY <1>1, <1>2, <1>4 DEF WatcherIsCurrent, ConnectedKeys
<1> QED
  BY <1>5, <1>6, <1>7, <1>8, <1>9

(* Every step preserves it. *)
LEMMA StepIInv == IInv /\ [Next]_vars => IInv'
BY HandlerIInv, StartTransportIInv, RegisterIInv, HandleReadIInv, TransportIInv, UpdateIInv,
   LockerIInv, OtherIInv DEF Next, HandlerStep, UpdateStep

(* IInv holds in every reachable state. *)
LEMMA Invariant == Spec => []IInv
BY InitIInv, StepIInv, PTL DEF Spec

-----------------------------------------------------------------------------
(* Every variable keeps its type; the wait group, in particular, never goes
   below zero, which would be a panic. *)
THEOREM TypeCorrect == Spec => []TypeOK
<1>1. IInv => TypeOK
  BY DEF IInv
<1> QED
  BY <1>1, Invariant, PTL

(* When Stop has returned no transport is left running, however its steps
   interleave with connections that are being set up. *)
THEOREM NothingRunsAfterStop == Spec => []StopIsComplete
<1>1. IInv => StopIsComplete
  BY DEF IInv
<1> QED
  BY <1>1, Invariant, PTL

(* A connection that has met no other of its key is registered and read as
   long as it runs, one that reconnects after an earlier one included. *)
THEOREM UncontestedConnectionsAreServed == Spec => []UncontestedIsServed
<1>1. IInv => UncontestedIsServed
  BY DEF IInv
<1> QED
  BY <1>1, Invariant, PTL

(* The watcher misses no change of the list of connected peers. *)
THEOREM WatcherMissesNothing == Spec => []WatcherIsCurrent
<1>1. IInv => WatcherIsCurrent
  BY DEF IInv
<1> QED
  BY <1>1, Invariant, PTL

(* An entry of the registry goes wrong only when wshandler registers a
   transport that has ended or whose key was revoked meanwhile. *)
THEOREM OnlyRegistrationErrs == Spec => RegistryErrsOnlyInRegistration
<1>1. IInv /\ [Next]_vars =>
        [\A k \in Keys : Wrong(k)' /\ ~Wrong(k) /\ ~NoConnMgr'
            => cpc[conns'[k]] = "starting" /\ conns[k] # conns'[k]]_vars
  <2> SUFFICES ASSUME IInv, Next, NEW k \in Keys, Wrong(k)', ~Wrong(k), ~NoConnMgr'
               PROVE  cpc[conns'[k]] = "starting" /\ conns[k] # conns'[k]
    OBVIOUS
  <2> USE NoneAssumption DEF IInv, TypeOK, connVars, mgrVars, watchVars, updateVars, Wrong
  (* Without a change of what Wrong depends on, nothing goes wrong. *)
  <2>1. ~UNCHANGED <<conns, tr, allowed>>
    OBVIOUS
  <2>2. ASSUME NEW c \in Conns, RegisterConnection(c)
        PROVE  cpc[conns'[k]] = "starting" /\ conns[k] # conns'[k]
    <3>1. conns'[k] = c
      BY <2>2 DEF RegisterConnection, HandlerInv
    <3> QED
      BY <2>2, <3>1 DEF RegisterConnection, RegistryInv
  <2>3. ASSUME NEW c \in Conns, StartTransport(c) \/ PeerLeaves(c) \/ WritePumpCloses(c)
        PROVE  FALSE
    <3>1. UNCHANGED <<conns, allowed>> /\ (\A d \in Conns : tr'[d] = "finished" => tr[d] = "finished")
      BY <2>3 DEF StartTransport, PeerLeaves, WritePumpCloses
    <3> QED
      BY <3>1
  (* afterWritePump removes the entry of the key, so none is left of c. *)
  <2>4. ASSUME NEW c \in Conns, AfterWritePump(c)
        PROVE  FALSE
    <3>1. /\ conns' = [j \in Keys |-> IF j = ckey[c] THEN None ELSE conns[j]]
          /\ tr' = [tr EXCEPT ![c] = "finished"] /\ allowed' = allowed
      BY <2>4 DEF AfterWritePump, RemoveConnections, NoConnMgr
    <3>2. k # ckey[c] /\ conns'[k] = conns[k] /\ conns[k] # None
      BY <3>1
    <3>3. conns[k] # c
      BY <3>2 DEF RegistryInv
    <3> QED
      BY <3>1, <3>2, <3>3
  (* UpdatePublicKeys leaves no entry of a key that it disallows. *)
  <2>5. ASSUME NEW newKeys \in SUBSET (Keys \cup {Malformed}), UpdatePublicKeys(newKeys)
        PROVE  FALSE
    BY <2>5 DEF UpdatePublicKeys, RemoveConnections, ConnectedKeys
  <2>6. ASSUME NEW newKeys \in SUBSET (Keys \cup {Malformed}),
               UpdateRejected(newKeys) \/ UpdatePanics(newKeys)
        PROVE  FALSE
    BY <2>1, <2>6 DEF UpdateRejected, UpdatePanics, NoConnMgr
  <2>7. ASSUME NEW c \in Conns,
               \/ \E rawCerts \in RawCerts : Accept(c, rawCerts)
               \/ EnsureSingleClientConnection(c) \/ EnsureSinglePanics(c) \/ Upgrade(c)
               \/ AbandonUpgraded(c) \/ HandleReadStarts(c)
        PROVE  FALSE
    BY <2>1, <2>7 DEF Accept, EnsureSingleClientConnection, EnsureSinglePanics, Upgrade,
       AbandonUpgraded, HandleReadStarts
  <2>8. ASSUME \/ Serve \/ UpdateRequested \/ FireQuit \/ StopStep \/ WatcherPanics
               \/ GetConnectionNotifyChan \/ GetConnectedPeerPublicKeys \/ WatcherWakes
        PROVE  FALSE
    BY <2>1, <2>8 DEF Serve, UpdateRequested, FireQuit, StopStep, StopRequestsLock, DropConnMgr,
       CloseConnections, StopReturns, WatcherPanics, GetConnectionNotifyChan,
       GetConnectedPeerPublicKeys, WatcherWakes
  <2>9. ASSUME NEW h \in Lockers, InvokeWantsLock(h) \/ ResponseArrives(h) \/ LockerStep(h)
        PROVE  FALSE
    BY <2>1, <2>9 DEF InvokeWantsLock, ResponseArrives, LockerStep, LockAndUnlock, LockAndSend,
       Handover, ReceiverIsGone, LockerAt
  <2> QED
    BY <2>2, <2>3, <2>4, <2>5, <2>6, <2>7, <2>8, <2>9
       DEF Next, HandlerStep, TransportStep, UpdateStep
<1> QED
  BY <1>1, Invariant, PTL DEF Spec, RegistryErrsOnlyInRegistration
=============================================================================
