---------------------------- MODULE Connections ----------------------------
(***************************************************************************)
(* Who a torrent is connected to: Engine.sessions and Engine.connecting    *)
(* (torrente/torrent.go, peer.go, discovery.go).                           *)
(*                                                                         *)
(* Announces run next to each other (two loops, the user, the end of a     *)
(* download), and connectPeers gives Engine.mu up after every peer it      *)
(* dials, with its count of free places in hand.  connectDiscovered (PEX,  *)
(* DHT) keeps the lock.  A dial is a goroutine that holds its key in       *)
(* connecting until its session has ended.                                 *)
(*                                                                         *)
(*   none -> dial -> run -> ended -> none      a peer we dial              *)
(*   none -> hello -> run -> none              a peer that dials us        *)
(*                                                                         *)
(* One torrent.  Left out: our own addresses, malformed ones, the cached   *)
(* Torrent.PeersConnected, what a session does (see PeerSession, Metadata).*)
(***************************************************************************)
EXTENDS Integers, FiniteSets, FiniteSetsExt, Functions

CONSTANTS Peers,           \* addresses that trackers and peers tell us
          Dials,           \* goroutines that dial, numbered
          Incoming,        \* connections that peers open to us
          Announces,      \* announces under way at once
          MaxConnections,  \* Engine.MaxConnections, 200 in the code
          NoPeer

ASSUME ConnectionsAssumption ==
  /\ IsFiniteSet(Peers) /\ IsFiniteSet(Dials) /\ IsFiniteSet(Incoming)
  /\ IsFiniteSet(Announces)
  /\ Dials \subseteq Nat
  /\ Dials \intersect Incoming = {} /\ NoPeer \notin Peers
  /\ MaxConnections \in Nat \ {0}

VARIABLES connecting,  \* Engine.connecting: the peers we dialled
          phase,       \* where each connection is
          peer,        \* the peer that a dial is for
          room,        \* connectPeers: places left, as it counted
          todo,        \* connectPeers: peers it has not come to
          listed       \* the torrent is in Engine.torrents

connectionsVars == <<connecting, phase, peer, room, todo, listed>>

Conns    == Dials \union Incoming
Phases   == {"none", "dial", "hello", "run", "ended"}
Sessions == {c \in Conns : phase[c] = "run"}

ConnectionsTypeOK ==
  /\ connecting \subseteq Peers
  /\ phase \in [Conns -> Phases]
  /\ peer \in [Dials -> Peers \union {NoPeer}]
  /\ room \in [Announces -> 0 .. MaxConnections]
  /\ todo \in [Announces -> SUBSET Peers]
  /\ listed \in BOOLEAN

ConnectionsInit ==
  /\ connecting = {}
  /\ phase = [c \in Conns |-> "none"]
  /\ peer = [d \in Dials |-> NoPeer]
  /\ room = [a \in Announces |-> 0]
  /\ todo = [a \in Announces |-> {}]
  /\ listed = TRUE

-----------------------------------------------------------------------------
\* Variant with the bug: places that dials hold are counted as free.
FreeOfSessions == MaxConnections - Cardinality(Sessions)

Free == MaxConnections - Cardinality(Sessions) - Cardinality(connecting)

Unused == {d \in Dials : phase[d] = "none"}

\* Goroutines start for the peers in new, one each; which ones is of no matter.
Launch(new) ==
  /\ connecting' = connecting \union new
  /\ LET ds == {d \in Unused : Cardinality({e \in Unused : e < d}) < Cardinality(new)}
     IN  \E f \in Bijection(ds, new) :
           /\ phase' = [c \in Conns |-> IF c \in ds THEN "dial" ELSE phase[c]]
           /\ peer' = [d \in Dials |-> IF d \in ds THEN f[d] ELSE peer[d]]

\* One critical section of connectPeers: from the peers left it drops some that
\* are being connected to, dials another one and gives the lock up with the
\* places it has left; or nobody is left to dial.
Batch(a, places, peers) ==
  \/ \E p \in peers \ connecting, known \in SUBSET (peers \intersect connecting) :
       LET rest == peers \ (known \union {p})
       IN  /\ Launch({p})
           /\ room' = [room EXCEPT ![a] = IF rest = {} THEN 0 ELSE places - 1]
           /\ todo' = [todo EXCEPT ![a] = IF places = 1 THEN {} ELSE rest]
  \/ /\ peers \subseteq connecting
     /\ room' = [room EXCEPT ![a] = 0]
     /\ todo' = [todo EXCEPT ![a] = {}]
     /\ UNCHANGED <<connecting, phase, peer>>

\* An announce was answered with peers.  Announces of a torrent that was removed
\* in the meantime go on.
Announced(a, peers) ==
  /\ room[a] = 0 /\ Free > 0
  /\ Batch(a, Free, peers)
  /\ UNCHANGED listed

\* Variant with the bug: the places are not counted down.
TakeNextUncounted(a) ==
  /\ room[a] > 0
  /\ Batch(a, room[a] + 1, todo[a])
  /\ UNCHANGED listed

TakeNext(a) ==
  /\ room[a] > 0
  /\ Batch(a, room[a], todo[a])
  /\ UNCHANGED listed

\* connectDiscovered: a session with the address exists only under its key.
Discovered(peers) ==
  /\ Free > 0
  /\ \E new \in SUBSET (peers \ connecting) :
       /\ Cardinality(new) = Min({Free, Cardinality(peers \ connecting)})
       /\ Launch(new)
  /\ UNCHANGED <<room, todo, listed>>

-----------------------------------------------------------------------------
\* connectToPeer reached the peer and registerSession added the session.
DialOpens(d) ==
  /\ phase[d] = "dial"
  /\ phase' = [phase EXCEPT ![d] = "run"]
  /\ UNCHANGED <<connecting, peer, room, todo, listed>>

\* The goroutine ends: it could not reach the peer, or its session is over.
Finish(d) ==
  /\ d \in Dials /\ phase[d] \in {"dial", "ended"}
  /\ phase' = [phase EXCEPT ![d] = "none"]
  /\ peer' = [peer EXCEPT ![d] = NoPeer]
  /\ connecting' = connecting \ {peer[d]}
  /\ UNCHANGED <<room, todo, listed>>

\* Variant with the bug: unregisterSession gives the key back, and the end of
\* the goroutine does so again.
LeaveWithKey(c) ==
  /\ phase[c] = "run"
  /\ phase' = [phase EXCEPT ![c] = IF c \in Dials THEN "ended" ELSE "none"]
  /\ connecting' = IF c \in Dials THEN connecting \ {peer[c]} ELSE connecting
  /\ UNCHANGED <<peer, room, todo, listed>>

\* unregisterSession.
Leave(c) ==
  /\ phase[c] = "run"
  /\ phase' = [phase EXCEPT ![c] = IF c \in Dials THEN "ended" ELSE "none"]
  /\ UNCHANGED <<connecting, peer, room, todo, listed>>

\* handleIncoming: no limit; the torrent is looked up once ...
Hello(c) ==
  /\ c \in Incoming /\ phase[c] = "none" /\ listed
  /\ phase' = [phase EXCEPT ![c] = "hello"]
  /\ UNCHANGED <<connecting, peer, room, todo, listed>>

\* ... and the session is registered after our answer, or the connection is lost.
Accept(c) ==
  /\ phase[c] = "hello"
  /\ phase' = [phase EXCEPT ![c] = "run"]
  /\ UNCHANGED <<connecting, peer, room, todo, listed>>

HelloFails(c) ==
  /\ phase[c] = "hello"
  /\ phase' = [phase EXCEPT ![c] = "none"]
  /\ UNCHANGED <<connecting, peer, room, todo, listed>>

\* RemoveTorrent: its stop reaches no session (the loop polls the channel and
\* never waits on it), so the connections stay.
Remove ==
  /\ listed
  /\ listed' = FALSE
  /\ UNCHANGED <<connecting, phase, peer, room, todo>>

ConnectionsNext ==
  \/ \E a \in Announces : TakeNext(a) \/ \E peers \in SUBSET Peers : Announced(a, peers)
  \/ \E peers \in SUBSET Peers : Discovered(peers)
  \/ \E c \in Conns :
       DialOpens(c) \/ Finish(c) \/ Leave(c) \/ Hello(c) \/ Accept(c) \/ HelloFails(c)
  \/ Remove

ConnectionsSpec == ConnectionsInit /\ [][ConnectionsNext]_connectionsVars

-----------------------------------------------------------------------------
\* A key is held exactly as long as the goroutine that dials, and talks to, its
\* peer, and no two goroutines have the same peer.
KeysMatchDials ==
  /\ connecting = {peer[d] : d \in {e \in Dials : phase[e] # "none"}}
  /\ \A d, e \in Dials : peer[d] = peer[e] /\ peer[d] # NoPeer => d = e

\* Batches count their places once and spend them later, so dials can exceed
\* MaxConnections, but only by what the batches under way still had in hand.
DialsBounded ==
  Cardinality(connecting) <=
    MaxConnections + Cardinality(Announces) * (MaxConnections - 1)
=============================================================================
