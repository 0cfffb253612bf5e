-------------------------- MODULE Discovery_proofs ---------------------------
(***************************************************************************)
(* Proofs about the two parts that find peers and connect to them: the     *)
(* connections of a torrent, and the client of the DHT.                    *)
(***************************************************************************)
EXTENDS Connections, Dht, FiniteSetTheorems, TLAPS

(***************************************************************************)
(* Connections, for any number of peers, dials, incoming connections,      *)
(* announces and places.                                                   *)
(***************************************************************************)
(* A goroutine has a peer exactly while it runs, so the second part of      *)
(* KeysMatchDials speaks of those that run.  It never waits for a hello.    *)
DialType ==
  /\ connecting \subseteq Peers /\ listed \in BOOLEAN
  /\ phase \in [Conns -> Phases]
  /\ peer \in [Dials -> Peers \union {NoPeer}]
  /\ \A d \in Dials : phase[d] # "hello" /\ (peer[d] = NoPeer <=> phase[d] = "none")

(* The places an announce has in hand are at most all of them. *)
RoomType == room \in [Announces -> 0 .. MaxConnections] /\ todo \in [Announces -> SUBSET Peers]

DialInv == DialType /\ RoomType /\ KeysMatchDials

-----------------------------------------------------------------------------
LEMMA FreeTyped ==
  ASSUME DialType
  PROVE  Free \in Int /\ Free <= MaxConnections
<1>1. IsFiniteSet(connecting)
  BY FS_Subset, ConnectionsAssumption DEF DialType
<1>2. IsFiniteSet(Conns)
  BY FS_Union, ConnectionsAssumption DEF Conns
<1>3. IsFiniteSet(Sessions)
  BY <1>2, FS_Subset DEF Sessions
<1>4. Cardinality(connecting) \in Nat /\ Cardinality(Sessions) \in Nat
  BY <1>1, <1>3, FS_CardinalityType
<1>5. MaxConnections \in Nat
  BY ConnectionsAssumption, Zenon
<1> QED
  BY <1>4, <1>5 DEF Free

(* New goroutines have new peers, one each. *)
LEMMA LaunchKeeps ==
  ASSUME DialInv, NEW new \in SUBSET (Peers \ connecting), Launch(new), UNCHANGED listed
  PROVE  DialType' /\ KeysMatchDials'
<1>0. PICK ds \in SUBSET Unused : \E f \in Bijection(ds, new) :
        /\ phase' = [c \in Conns |-> IF c \in ds THEN "dial" ELSE phase[c]]
        /\ peer' = [d \in Dials |-> IF d \in ds THEN f[d] ELSE peer[d]]
  BY DEF Launch
<1>1. PICK f \in Bijection(ds, new) :
        /\ phase' = [c \in Conns |-> IF c \in ds THEN "dial" ELSE phase[c]]
        /\ peer' = [d \in Dials |-> IF d \in ds THEN f[d] ELSE peer[d]]
  BY <1>0
<1>2. /\ f \in [ds -> new] /\ (\A d, e \in ds : f[d] = f[e] => d = e)
      /\ \A p \in new : \E d \in ds : f[d] = p
  BY DEF Bijection, Injection, Surjection, IsInjective
<1>3. connecting' = connecting \union new
  BY DEF Launch
<1>4. ds \subseteq Dials /\ (\A d \in ds : phase[d] = "none" /\ peer[d] = NoPeer)
  BY DEF Unused, DialInv, DialType
<1>5. \A d \in Dials : d \in Conns
  BY DEF Conns
<1>6. /\ \A d \in ds : phase'[d] = "dial" /\ peer'[d] = f[d] /\ f[d] \in new
      /\ \A d \in Dials \ ds : phase'[d] = phase[d] /\ peer'[d] = peer[d]
  BY <1>1, <1>2, <1>4, <1>5
<1>7. NoPeer \notin Peers
  BY ConnectionsAssumption
<1>8. DialType'
  <2>1. phase' \in [Conns -> Phases]
    BY <1>1 DEF DialInv, DialType, Phases
  <2>2. peer' \in [Dials -> Peers \union {NoPeer}]
    BY <1>1, <1>2 DEF DialInv, DialType
  <2>3. \A d \in Dials : phase'[d] # "hello" /\ (peer'[d] = NoPeer <=> phase'[d] = "none")
    BY <1>6, <1>7 DEF DialInv, DialType
  <2> QED
    BY <1>3, <2>1, <2>2, <2>3 DEF DialInv, DialType
<1>9. connecting' = {peer'[d] : d \in {e \in Dials : phase'[e] # "none"}}
  <2>1. ASSUME NEW p \in connecting'
        PROVE  \E d \in Dials : phase'[d] # "none" /\ peer'[d] = p
    <3>1. CASE p \in connecting
      <4> PICK d \in Dials : phase[d] # "none" /\ peer[d] = p
        BY <3>1 DEF DialInv, KeysMatchDials
      <4> QED
        BY <1>4, <1>6
    <3>2. CASE p \in new
      BY <1>2, <1>4, <1>6, <3>2
    <3> QED
      BY <1>3, <2>1, <3>1, <3>2
  <2>2. ASSUME NEW d \in Dials, phase'[d] # "none"
        PROVE  peer'[d] \in connecting'
    <3>1. CASE d \in ds
      BY <1>3, <1>6, <3>1
    <3>2. CASE d \notin ds
      BY <1>3, <1>6, <2>2, <3>2 DEF DialInv, KeysMatchDials
    <3> QED
      BY <3>1, <3>2
  <2> QED
    BY <2>1, <2>2
<1>10. ASSUME NEW d \in Dials, NEW e \in Dials, peer'[d] = peer'[e], peer'[d] # NoPeer
       PROVE  d = e
  <2>1. CASE d \in ds /\ e \in ds
    BY <1>2, <1>6, <1>10, <2>1
  <2>2. CASE d \notin ds /\ e \notin ds
    BY <1>6, <1>10, <2>2 DEF DialInv, KeysMatchDials
  <2>3. \A x, y \in Dials : x \in ds /\ y \notin ds /\ peer'[y] # NoPeer => peer'[x] # peer'[y]
    BY <1>6 DEF DialInv, DialType, KeysMatchDials
  <2> QED
    BY <1>10, <2>1, <2>2, <2>3
<1> QED
  BY <1>8, <1>9, <1>10 DEF KeysMatchDials

LEMMA BatchKeeps ==
  ASSUME DialInv, NEW a \in Announces, NEW places \in 1 .. MaxConnections,
         NEW peers \in SUBSET Peers, Batch(a, places, peers), UNCHANGED listed
  PROVE  DialInv'
<1>0. MaxConnections \in Nat
  BY ConnectionsAssumption, Zenon
<1>1. ASSUME NEW p \in peers \ connecting, Launch({p}) PROVE DialType' /\ KeysMatchDials'
  <2>1. {p} \in SUBSET (Peers \ connecting)
    OBVIOUS
  <2> QED
    BY <1>1, <2>1, LaunchKeeps
<1>2. ASSUME UNCHANGED <<connecting, phase, peer>> PROVE DialType' /\ KeysMatchDials'
  BY <1>2 DEF DialInv, DialType, KeysMatchDials
<1>3. \E left \in 0 .. MaxConnections, rest \in SUBSET Peers :
        room' = [room EXCEPT ![a] = left] /\ todo' = [todo EXCEPT ![a] = rest]
  <2>1. CASE room' = [room EXCEPT ![a] = 0] /\ todo' = [todo EXCEPT ![a] = {}]
    <3> 0 \in 0 .. MaxConnections /\ {} \in SUBSET Peers
      BY <1>0
    <3> QED
      BY <2>1, Zenon
  <2>2. ASSUME NEW p \in peers \ connecting, NEW known \in SUBSET (peers \intersect connecting),
               room' = [room EXCEPT ![a] = IF peers \ (known \union {p}) = {} THEN 0 ELSE places - 1],
               todo' = [todo EXCEPT ![a] = IF places = 1 THEN {} ELSE peers \ (known \union {p})]
        PROVE  \E left \in 0 .. MaxConnections, rest \in SUBSET Peers :
                 room' = [room EXCEPT ![a] = left] /\ todo' = [todo EXCEPT ![a] = rest]
    <3> DEFINE rest == peers \ (known \union {p})
               left == IF rest = {} THEN 0 ELSE places - 1
               keep == IF places = 1 THEN {} ELSE rest
    <3>1. left \in 0 .. MaxConnections
      BY <1>0
    <3>2. keep \in SUBSET Peers
      OBVIOUS
    <3>3. room' = [room EXCEPT ![a] = left] /\ todo' = [todo EXCEPT ![a] = keep]
      BY <2>2
    <3> HIDE DEF left, keep
    <3> QED
      BY <3>1, <3>2, <3>3
  <2> QED
    BY <2>1, <2>2 DEF Batch
<1>4. RoomType'
  BY <1>3 DEF DialInv, RoomType
<1> QED
  BY <1>1, <1>2, <1>4 DEF Batch, DialInv

(* The goroutine that ends was the only one with its peer. *)
LEMMA FinishKeeps ==
  ASSUME DialInv, NEW d \in Dials, Finish(d)
  PROVE  DialInv'
<1>1. /\ phase[d] \in {"dial", "ended"}
      /\ phase' = [phase EXCEPT ![d] = "none"]
      /\ peer' = [peer EXCEPT ![d] = NoPeer]
      /\ connecting' = connecting \ {peer[d]}
      /\ UNCHANGED <<room, todo, listed>>
  BY DEF Finish
<1>2. d \in Conns
  BY DEF Conns
<1>3. /\ phase'[d] = "none" /\ peer'[d] = NoPeer
      /\ \A e \in Dials \ {d} : phase'[e] = phase[e] /\ peer'[e] = peer[e]
  BY <1>1, <1>2 DEF DialInv, DialType, Conns
<1>4. DialType'
  BY <1>1, <1>3 DEF DialInv, DialType, Phases
<1>5. peer[d] # NoPeer
  BY <1>1 DEF DialInv, DialType
<1>6. connecting' = {peer'[e] : e \in {x \in Dials : phase'[x] # "none"}}
  <2>1. ASSUME NEW p \in connecting'
        PROVE  \E e \in Dials : phase'[e] # "none" /\ peer'[e] = p
    <3> PICK e \in Dials : phase[e] # "none" /\ peer[e] = p
      BY <1>1, <2>1 DEF DialInv, KeysMatchDials
    <3> QED
      BY <1>1, <1>3
  <2>2. ASSUME NEW e \in Dials, phase'[e] # "none"
        PROVE  peer'[e] \in connecting'
    BY <1>1, <1>3, <1>5, <2>2 DEF DialInv, KeysMatchDials
  <2> QED
    BY <2>1, <2>2
<1>7. \A x, y \in Dials : peer'[x] = peer'[y] /\ peer'[x] # NoPeer => x = y
  BY <1>3 DEF DialInv, KeysMatchDials
<1> QED
  BY <1>1, <1>4, <1>6, <1>7 DEF DialInv, RoomType, KeysMatchDials

(* Every other step of a connection leaves the keys alone, and a goroutine  *)
(* that runs running.                                                       *)
LEMMA StepKeeps ==
  ASSUME DialInv, NEW c \in Conns,
         DialOpens(c) \/ Leave(c) \/ Hello(c) \/ Accept(c) \/ HelloFails(c)
  PROVE  DialInv'
<1>1. PICK to \in Phases :
        /\ phase' = [phase EXCEPT ![c] = to]
        /\ c \in Dials => to # "hello" /\ (to = "none" <=> phase[c] = "none")
  <2>1. c \in Incoming => c \notin Dials
    BY ConnectionsAssumption
  <2>2. CASE DialOpens(c)
    BY <2>2 DEF DialOpens, Phases
  <2>3. CASE Leave(c)
    BY <2>3 DEF Leave, Phases
  <2>4. CASE Hello(c)
    BY <2>1, <2>4 DEF Hello, Phases
  <2>5. CASE Accept(c)
    BY <2>5 DEF Accept, Phases
  <2>6. CASE HelloFails(c)
    BY <2>6 DEF HelloFails, Phases, DialInv, DialType
  <2> QED
    BY <2>2, <2>3, <2>4, <2>5, <2>6
<1>2. UNCHANGED <<connecting, peer, room, todo, listed>>
  BY DEF DialOpens, Leave, Hello, Accept, HelloFails
<1>3. \A d \in Dials : phase'[d] # "hello" /\ (phase'[d] = "none" <=> phase[d] = "none")
  BY <1>1 DEF DialInv, DialType, Conns
<1>4. DialType'
  BY <1>1, <1>2, <1>3 DEF DialInv, DialType
<1>5. {e \in Dials : phase'[e] # "none"} = {e \in Dials : phase[e] # "none"}
  BY <1>3
<1> QED
  BY <1>2, <1>4, <1>5 DEF DialInv, RoomType, KeysMatchDials

-----------------------------------------------------------------------------
LEMMA DialStep == DialInv /\ [ConnectionsNext]_connectionsVars => DialInv'
<1> SUFFICES ASSUME DialInv, [ConnectionsNext]_connectionsVars PROVE DialInv'
  OBVIOUS
<1>0. MaxConnections \in Nat
  BY ConnectionsAssumption, Zenon
<1>1. ASSUME NEW a \in Announces, TakeNext(a) PROVE DialInv'
  <2>1. room[a] \in 1 .. MaxConnections /\ todo[a] \in SUBSET Peers
    BY <1>0, <1>1 DEF TakeNext, DialInv, RoomType
  <2> QED
    BY <1>1, <2>1, BatchKeeps DEF TakeNext
<1>2. ASSUME NEW a \in Announces, NEW peers \in SUBSET Peers, Announced(a, peers) PROVE DialInv'
  <2>1. Free \in 1 .. MaxConnections
    BY <1>0, <1>2, FreeTyped DEF Announced, DialInv
  <2> QED
    BY <1>2, <2>1, BatchKeeps DEF Announced
<1>3. ASSUME NEW peers \in SUBSET Peers, Discovered(peers) PROVE DialInv'
  <2>1. UNCHANGED <<room, todo, listed>>
    BY <1>3 DEF Discovered
  <2>2. PICK new \in SUBSET (peers \ connecting) : Launch(new)
    BY <1>3 DEF Discovered
  <2> QED
    BY <2>1, <2>2, LaunchKeeps DEF DialInv, RoomType
<1>4. ASSUME NEW c \in Conns, DialOpens(c) \/ Leave(c) \/ Hello(c) \/ Accept(c) \/ HelloFails(c)
      PROVE  DialInv'
  BY <1>4, StepKeeps
<1>5. ASSUME NEW c \in Conns, Finish(c) PROVE DialInv'
  BY <1>5, FinishKeeps DEF Finish
<1>6. CASE Remove
  BY <1>6 DEF Remove, DialInv, DialType, RoomType, KeysMatchDials
<1>7. CASE UNCHANGED connectionsVars
  BY <1>7 DEF connectionsVars, DialInv, DialType, RoomType, KeysMatchDials
<1> QED
  BY <1>1, <1>2, <1>3, <1>4, <1>5, <1>6, <1>7 DEF ConnectionsNext

LEMMA DialInit == ConnectionsInit => DialInv
<1> SUFFICES ASSUME ConnectionsInit PROVE DialInv
  OBVIOUS
<1>1. MaxConnections \in Nat
  BY ConnectionsAssumption, Zenon
<1>2. DialType
  BY DEF ConnectionsInit, DialType, Phases, Conns
<1>3. RoomType
  BY <1>1 DEF ConnectionsInit, RoomType
<1>4. KeysMatchDials
  BY DEF ConnectionsInit, KeysMatchDials, Conns
<1> QED
  BY <1>2, <1>3, <1>4 DEF DialInv

THEOREM ConnectionsInductive == ConnectionsSpec => []DialInv
BY DialInit, DialStep, PTL DEF ConnectionsSpec

(* The type of the connections; an announce never has more than             *)
(* MaxConnections places in hand (connectPeers).                            *)
THEOREM ConnectionsTypeCorrect == ConnectionsSpec => []ConnectionsTypeOK
<1>1. DialInv => ConnectionsTypeOK
  BY DEF DialInv, DialType, RoomType, ConnectionsTypeOK
<1> QED
  BY <1>1, ConnectionsInductive, PTL

(* A peer is in connecting exactly while one goroutine dials or talks to it *)
(* (connectPeers, connectDiscovered, the goroutine they start).             *)
THEOREM KeysAreHeldByDials == ConnectionsSpec => []KeysMatchDials
<1>1. DialInv => KeysMatchDials
  BY DEF DialInv
<1> QED
  BY <1>1, ConnectionsInductive, PTL

-----------------------------------------------------------------------------
(* The places that all announces have in hand, one element each: a sum      *)
(* that can be counted.                                                     *)
HandOf(places) ==
  {h \in Announces \X (1 .. MaxConnections - 1) : h[2] <= places[h[1]]}

PlacesInv ==
  /\ \A a \in Announces : room[a] < MaxConnections
  /\ Cardinality(connecting) + Cardinality(HandOf(room))
       <= MaxConnections + Cardinality(Announces) * (MaxConnections - 1)

LEMMA MaxTyped == MaxConnections \in Nat /\ MaxConnections - 1 \in Nat
<1>1. MaxConnections \in Nat \ {0}
  BY ConnectionsAssumption, Zenon
<1> QED
  BY <1>1

LEMMA FirstNumbers ==
  ASSUME NEW n \in Nat
  PROVE  IsFiniteSet(1 .. n) /\ Cardinality(1 .. n) = n
BY FS_Interval

LEMMA ConnectingFinite ==
  ASSUME DialType
  PROVE  IsFiniteSet(connecting) /\ Cardinality(connecting) \in Nat
BY FS_Subset, FS_CardinalityType, ConnectionsAssumption DEF DialType

LEMMA AnnouncesFinite == IsFiniteSet(Announces) /\ Cardinality(Announces) \in Nat
BY FS_CardinalityType, ConnectionsAssumption

(* An announce has at most MaxConnections - 1 places in hand. *)
LEMMA HandFinite ==
  ASSUME NEW places
  PROVE  /\ IsFiniteSet(HandOf(places)) /\ Cardinality(HandOf(places)) \in Nat
         /\ Cardinality(HandOf(places)) <= Cardinality(Announces) * (MaxConnections - 1)
<1> DEFINE All == Announces \X (1 .. MaxConnections - 1)
<1>1. /\ IsFiniteSet(1 .. MaxConnections - 1)
      /\ Cardinality(1 .. MaxConnections - 1) = MaxConnections - 1
  BY MaxTyped, FirstNumbers, Zenon
<1>2. IsFiniteSet(All) /\ Cardinality(All) = Cardinality(Announces) * (MaxConnections - 1)
  BY <1>1, AnnouncesFinite, FS_Product
<1>3. HandOf(places) \in SUBSET All
  BY DEF HandOf
<1>4. IsFiniteSet(HandOf(places)) /\ Cardinality(HandOf(places)) <= Cardinality(All)
  BY <1>2, <1>3, FS_Subset
<1> QED
  BY <1>2, <1>4, FS_CardinalityType

(* Once one announce has counted its places, the others' are at most theirs. *)
LEMMA HandCounted ==
  ASSUME NEW a \in Announces, NEW left \in 0 .. MaxConnections - 1,
         room \in [Announces -> 0 .. MaxConnections], room[a] = 0
  PROVE  Cardinality(HandOf([room EXCEPT ![a] = left]))
           <= left + (Cardinality(Announces) - 1) * (MaxConnections - 1)
<1> DEFINE others == (Announces \ {a}) \X (1 .. MaxConnections - 1)
           own == {a} \X (1 .. left)
           hand == HandOf([room EXCEPT ![a] = left])
<1>1. /\ IsFiniteSet(1 .. MaxConnections - 1)
      /\ Cardinality(1 .. MaxConnections - 1) = MaxConnections - 1
  BY MaxTyped, FirstNumbers, Zenon
<1>0. left \in Nat
  BY MaxTyped
<1>2. IsFiniteSet(1 .. left) /\ Cardinality(1 .. left) = left
  BY <1>0, FirstNumbers, Zenon
<1>3. /\ IsFiniteSet(Announces \ {a})
      /\ Cardinality(Announces \ {a}) = Cardinality(Announces) - 1
  BY AnnouncesFinite, FS_RemoveElement
<1>4. /\ IsFiniteSet(others)
      /\ Cardinality(others) = (Cardinality(Announces) - 1) * (MaxConnections - 1)
  BY <1>1, <1>3, FS_Product
<1>5. IsFiniteSet(own) /\ Cardinality(own) = left
  <2>1. IsFiniteSet({a}) /\ Cardinality({a}) = 1
    BY FS_Singleton, Zenon
  <2>2. IsFiniteSet(own) /\ Cardinality(own) = 1 * left
    BY <1>2, <2>1, FS_Product
  <2> QED
    BY <1>0, <2>2
<1>6. /\ IsFiniteSet(others \union own)
      /\ Cardinality(others \union own) = Cardinality(others) + Cardinality(own)
                                            - Cardinality(others \intersect own)
  BY <1>4, <1>5, FS_Union
<1>7. others \intersect own = {}
  OBVIOUS
<1>8. Cardinality(others \union own)
        = left + (Cardinality(Announces) - 1) * (MaxConnections - 1)
  <2>1. Cardinality(others \intersect own) = 0
    BY <1>7, FS_EmptySet
  <2> HIDE DEF others, own
  <2>2. Cardinality(others) \in Int
    BY <1>4, FS_CardinalityType
  <2> QED
    BY <1>4, <1>5, <1>6, <2>1, <2>2
<1>9. hand \in SUBSET (others \union own)
  <2> SUFFICES ASSUME NEW h \in hand PROVE h \in others \union own
    OBVIOUS
  <2>1. h \in Announces \X (1 .. MaxConnections - 1) /\ h[2] <= [room EXCEPT ![a] = left][h[1]]
    BY DEF HandOf
  <2>2. CASE h[1] = a
    BY <2>1, <2>2
  <2>3. CASE h[1] # a
    BY <2>1, <2>3
  <2> QED
    BY <2>2, <2>3
<1> HIDE DEF others, own, hand
<1>10. IsFiniteSet(others \union own) => Cardinality(hand) <= Cardinality(others \union own)
  BY <1>9, FS_Subset
<1> QED
  BY <1>6, <1>8, <1>10 DEF hand

(* A place that is spent, or given up, leaves the hand. *)
LEMMA HandSpent ==
  ASSUME NEW a \in Announces, NEW left \in 0 .. MaxConnections - 1,
         room \in [Announces -> 0 .. MaxConnections],
         left < room[a], room[a] < MaxConnections
  PROVE  Cardinality(HandOf([room EXCEPT ![a] = left])) <= Cardinality(HandOf(room)) - 1
<1> DEFINE last == <<a, room[a]>>
<1>1. last \in HandOf(room)
  BY MaxTyped DEF HandOf
<1>2. /\ IsFiniteSet(HandOf(room) \ {last})
      /\ Cardinality(HandOf(room) \ {last}) = Cardinality(HandOf(room)) - 1
  BY <1>1, HandFinite, FS_RemoveElement
<1>3. HandOf([room EXCEPT ![a] = left]) \in SUBSET (HandOf(room) \ {last})
  <2> SUFFICES ASSUME NEW h \in HandOf([room EXCEPT ![a] = left])
               PROVE  h \in HandOf(room) \ {last}
    OBVIOUS
  <2>1. h \in Announces \X (1 .. MaxConnections - 1) /\ h[2] <= [room EXCEPT ![a] = left][h[1]]
    BY DEF HandOf
  <2>2. CASE h[1] = a
    BY <2>1, <2>2 DEF HandOf
  <2>3. CASE h[1] # a
    BY <2>1, <2>3 DEF HandOf
  <2> QED
    BY <2>2, <2>3
<1> QED
  BY <1>2, <1>3, FS_Subset

LEMMA DialTaken ==
  ASSUME DialType, NEW p \in Peers \ connecting, Launch({p})
  PROVE  Cardinality(connecting') = Cardinality(connecting) + 1
BY ConnectingFinite, FS_AddElement DEF Launch

LEMMA FreeSpelled ==
  ASSUME DialType
  PROVE  Free \in Int /\ Cardinality(connecting) + Free <= MaxConnections
<1>1. IsFiniteSet(Conns)
  BY FS_Union, ConnectionsAssumption DEF Conns
<1>2. IsFiniteSet(Sessions)
  BY <1>1, FS_Subset DEF Sessions
<1>3. Cardinality(Sessions) \in Nat
  BY <1>2, FS_CardinalityType
<1> QED
  BY <1>3, ConnectingFinite, MaxTyped DEF Free

(* The bound on the dials is the same for all steps: one name for it. *)
LEMMA HandShare ==
  /\ Cardinality(Announces) * (MaxConnections - 1) \in Nat
  /\ \A a \in Announces :
       (Cardinality(Announces) - 1) * (MaxConnections - 1)
         <= Cardinality(Announces) * (MaxConnections - 1) - (MaxConnections - 1)
BY AnnouncesFinite, MaxTyped

LEMMA PlacesInit == ConnectionsInit => PlacesInv
<1> SUFFICES ASSUME ConnectionsInit PROVE PlacesInv
  OBVIOUS
<1>1. Cardinality(connecting) = 0
  BY FS_EmptySet DEF ConnectionsInit
<1>2. \A a \in Announces : room[a] < MaxConnections
  BY MaxTyped DEF ConnectionsInit
<1> QED
  BY <1>1, <1>2, HandFinite, HandShare, MaxTyped DEF PlacesInv

(* What the places in hand cannot tell: a step that dials nobody. *)
LEMMA PlacesKept ==
  ASSUME DialInv, PlacesInv, connecting' \subseteq connecting, room' = room
  PROVE  PlacesInv'
<1>1. IsFiniteSet(connecting') /\ Cardinality(connecting') <= Cardinality(connecting)
  BY ConnectingFinite, FS_Subset DEF DialInv
<1>2. Cardinality(connecting') \in Nat
  BY <1>1, FS_CardinalityType
<1>3. HandOf(room') = HandOf(room)
  BY DEF HandOf
<1> QED
  BY <1>1, <1>2, <1>3, ConnectingFinite, HandFinite, HandShare, MaxTyped DEF PlacesInv, DialInv

LEMMA AnnouncedPlaces ==
  ASSUME DialInv, PlacesInv, NEW a \in Announces, NEW peers \in SUBSET Peers, Announced(a, peers)
  PROVE  PlacesInv'
<1>1. room \in [Announces -> 0 .. MaxConnections] /\ room[a] = 0 /\ Free > 0
  BY DEF DialInv, RoomType, Announced
<1>2. Batch(a, Free, peers)
  BY DEF Announced
<1>3. CASE peers \subseteq connecting /\ room' = [room EXCEPT ![a] = 0] /\ UNCHANGED connecting
  BY <1>1, <1>3, PlacesKept
<1>4. ASSUME NEW p \in peers \ connecting, NEW rest, Launch({p}),
             room' = [room EXCEPT ![a] = IF rest = {} THEN 0 ELSE Free - 1]
      PROVE  PlacesInv'
  <2> DEFINE left == IF rest = {} THEN 0 ELSE Free - 1
             share == Cardinality(Announces) * (MaxConnections - 1)
  <2>1. Free \in Int /\ Cardinality(connecting) + Free <= MaxConnections
    BY FreeSpelled DEF DialInv
  <2>2. Cardinality(connecting) \in Nat /\ Cardinality(connecting') = Cardinality(connecting) + 1
    BY <1>4, ConnectingFinite, DialTaken DEF DialInv
  <2>3. left \in 0 .. MaxConnections - 1 /\ left <= Free - 1
    BY <1>1, <2>1, <2>2, MaxTyped
  <2> HIDE DEF left
  <2>4. room' = [room EXCEPT ![a] = left]
    BY <1>4 DEF left
  <2>5. Cardinality(HandOf(room'))
          <= left + (Cardinality(Announces) - 1) * (MaxConnections - 1)
    BY <1>1, <2>3, <2>4, HandCounted
  <2>6. /\ Cardinality(HandOf(room')) \in Nat /\ share \in Nat
        /\ Cardinality(HandOf(room')) <= left + share - (MaxConnections - 1)
    BY <2>3, <2>5, HandFinite, HandShare, AnnouncesFinite, MaxTyped
  <2>7. \A b \in Announces : room'[b] < MaxConnections
    BY <1>1, <2>3, <2>4, MaxTyped DEF PlacesInv
  <2> HIDE DEF share
  <2>8. Cardinality(connecting') + Cardinality(HandOf(room')) <= MaxConnections + share
    BY <2>1, <2>2, <2>3, <2>6, MaxTyped
  <2> QED
    BY <2>7, <2>8 DEF PlacesInv, share
<1> QED
  BY <1>2, <1>3, <1>4 DEF Batch

LEMMA TakeNextPlaces ==
  ASSUME DialInv, PlacesInv, NEW a \in Announces, TakeNext(a)
  PROVE  PlacesInv'
<1> DEFINE share == Cardinality(Announces) * (MaxConnections - 1)
<1>1. /\ room \in [Announces -> 0 .. MaxConnections] /\ todo[a] \in SUBSET Peers
      /\ room[a] > 0 /\ room[a] < MaxConnections
  BY DEF DialInv, RoomType, TakeNext, PlacesInv
<1>2. Batch(a, room[a], todo[a])
  BY DEF TakeNext
<1>3. Cardinality(connecting) \in Nat /\ share \in Nat
  BY ConnectingFinite, HandShare DEF DialInv
<1>4. PICK left \in 0 .. MaxConnections - 1 :
        /\ room' = [room EXCEPT ![a] = left] /\ left < room[a]
        /\ Cardinality(connecting') \in Nat
        /\ Cardinality(connecting') <= Cardinality(connecting) + 1
  <2>1. CASE room' = [room EXCEPT ![a] = 0] /\ UNCHANGED connecting
    <3>1. 0 \in 0 .. MaxConnections - 1 /\ 0 < room[a]
      BY <1>1, MaxTyped
    <3>2. Cardinality(connecting') = Cardinality(connecting)
      BY <2>1
    <3>3. Cardinality(connecting') \in Nat /\ Cardinality(connecting') <= Cardinality(connecting) + 1
      BY <1>3, <3>2
    <3> QED
      BY <2>1, <3>1, <3>3, Zenon
  <2>2. ASSUME NEW p \in todo[a] \ connecting, NEW rest, Launch({p}),
               room' = [room EXCEPT ![a] = IF rest = {} THEN 0 ELSE room[a] - 1]
        PROVE  \E left \in 0 .. MaxConnections - 1 :
                 /\ room' = [room EXCEPT ![a] = left] /\ left < room[a]
                 /\ Cardinality(connecting') \in Nat
                 /\ Cardinality(connecting') <= Cardinality(connecting) + 1
    <3> DEFINE left == IF rest = {} THEN 0 ELSE room[a] - 1
    <3>1. left \in 0 .. MaxConnections - 1 /\ left < room[a]
      BY <1>1, MaxTyped
    <3>2. Cardinality(connecting') = Cardinality(connecting) + 1
      BY <1>1, <2>2, DialTaken DEF DialInv
    <3>3. room' = [room EXCEPT ![a] = left]
      BY <2>2
    <3>4. Cardinality(connecting') \in Nat /\ Cardinality(connecting') <= Cardinality(connecting) + 1
      BY <1>3, <3>2
    <3> HIDE DEF left
    <3> QED
      BY <3>1, <3>3, <3>4, Zenon
  <2> QED
    BY <1>2, <2>1, <2>2 DEF Batch
<1>5. Cardinality(HandOf(room')) <= Cardinality(HandOf(room)) - 1
  BY <1>1, <1>4, HandSpent
<1>6. Cardinality(HandOf(room')) \in Nat /\ Cardinality(HandOf(room)) \in Nat
  BY HandFinite
<1>7. Cardinality(connecting) + Cardinality(HandOf(room)) <= MaxConnections + share
  BY DEF PlacesInv
<1>8. \A b \in Announces : room'[b] < MaxConnections
  BY <1>1, <1>4, MaxTyped DEF PlacesInv
<1> HIDE DEF share
<1>9. Cardinality(connecting') + Cardinality(HandOf(room')) <= MaxConnections + share
  BY <1>3, <1>4, <1>5, <1>6, <1>7, MaxTyped
<1> QED
  BY <1>8, <1>9 DEF PlacesInv, share

(* connectDiscovered dials no more than there are places free. *)
LEMMA DiscoveredPlaces ==
  ASSUME DialInv, PlacesInv, NEW peers \in SUBSET Peers, Discovered(peers)
  PROVE  PlacesInv'
<1>1. PICK new \in SUBSET (peers \ connecting) :
        Cardinality(new) = Min({Free, Cardinality(peers \ connecting)}) /\ Launch(new)
  BY DEF Discovered
<1>2. IsFiniteSet(new) /\ Cardinality(new) \in Nat
  BY <1>1, FS_Subset, FS_CardinalityType, ConnectionsAssumption
<1>3. Cardinality(peers \ connecting) \in Nat
  <2>1. IsFiniteSet(peers \ connecting)
    BY FS_Subset, ConnectionsAssumption
  <2> QED
    BY <2>1, FS_CardinalityType
<1>4. Free \in Int /\ Cardinality(connecting) + Free <= MaxConnections
  BY FreeSpelled DEF DialInv
<1>5. \A m \in Int, n \in Int : Min({m, n}) <= m
  <2> TAKE m \in Int, n \in Int
  <2>1. \E x \in {m, n} : \A y \in {m, n} : x =< y
    BY SMT
  <2>2. Min({m, n}) \in {m, n} /\ \A y \in {m, n} : Min({m, n}) =< y
    BY <2>1 DEF Min
  <2> QED
    BY <2>2
<1>6. Cardinality(new) <= Free
  BY <1>1, <1>3, <1>4, <1>5
<1>7. /\ IsFiniteSet(connecting)
      /\ Cardinality(connecting') = Cardinality(connecting) + Cardinality(new)
  <2>1. connecting' = connecting \union new /\ connecting \intersect new = {}
    BY <1>1 DEF Launch
  <2>2. IsFiniteSet(connecting) /\ Cardinality(connecting) \in Nat
    BY ConnectingFinite DEF DialInv
  <2>3. Cardinality(connecting \union new)
          = Cardinality(connecting) + Cardinality(new) - Cardinality(connecting \intersect new)
    BY <1>2, <2>2, FS_Union
  <2>4. Cardinality(connecting \intersect new) = 0
    BY <2>1, FS_EmptySet
  <2> QED
    BY <1>2, <2>1, <2>2, <2>3, <2>4
<1>8. Cardinality(connecting) \in Nat /\ Cardinality(connecting') <= MaxConnections
  BY <1>2, <1>4, <1>6, <1>7, FS_CardinalityType, MaxTyped
<1>9. room' = room
  BY DEF Discovered
<1> QED
  BY <1>2, <1>7, <1>8, <1>9, HandFinite, HandShare, MaxTyped DEF PlacesInv

LEMMA PlacesStep ==
  ASSUME DialInv, PlacesInv, [ConnectionsNext]_connectionsVars
  PROVE  PlacesInv'
<1>1. ASSUME NEW a \in Announces, TakeNext(a) PROVE PlacesInv'
  BY <1>1, TakeNextPlaces
<1>2. ASSUME NEW a \in Announces, NEW peers \in SUBSET Peers, Announced(a, peers)
      PROVE  PlacesInv'
  BY <1>2, AnnouncedPlaces
<1>3. ASSUME NEW peers \in SUBSET Peers, Discovered(peers) PROVE PlacesInv'
  BY <1>3, DiscoveredPlaces
<1>4. ASSUME NEW c \in Conns,
             DialOpens(c) \/ Finish(c) \/ Leave(c) \/ Hello(c) \/ Accept(c) \/ HelloFails(c)
      PROVE  connecting' \subseteq connecting /\ room' = room
  BY <1>4 DEF DialOpens, Finish, Leave, Hello, Accept, HelloFails
<1>5. Remove \/ UNCHANGED connectionsVars => connecting' \subseteq connecting /\ room' = room
  BY DEF Remove, connectionsVars
<1> QED
  BY <1>1, <1>2, <1>3, <1>4, <1>5, PlacesKept DEF ConnectionsNext

(* Dials exceed MaxConnections at most by what the announces under way had   *)
(* in hand when others dialled (connectPeers gives Engine.mu up between two  *)
(* peers, with its count kept).                                              *)
THEOREM DialsStayBounded == ConnectionsSpec => []DialsBounded
<1>1. DialInv /\ PlacesInv => DialsBounded
  BY ConnectingFinite, HandFinite, HandShare, MaxTyped DEF DialInv, PlacesInv, DialsBounded
<1>2. ConnectionsSpec => []PlacesInv
  <2>1. DialInv /\ PlacesInv /\ [ConnectionsNext]_connectionsVars => PlacesInv'
    BY PlacesStep
  <2> QED
    BY <2>1, PlacesInit, ConnectionsInductive, PTL DEF ConnectionsSpec
<1> QED
  BY <1>1, <1>2, ConnectionsInductive, PTL

-----------------------------------------------------------------------------
(***************************************************************************)
(* Dht, for any number of searches, announcers, nodes and numbers, any     *)
(* answers, and datagrams lost, late and doubled at will.                  *)
(***************************************************************************)
(* The types of the client, one conjunct of TypeOK each. *)
QueryType == [at : {"quiet", "ready", "wait"}, num : Numbers, got : SUBSET Reply]
SearchType == [at : {"idle", "test", "round"}, rounds : 0 .. MaxRounds,
               frontier : SUBSET Nodes, heard : SUBSET Nodes, found : BOOLEAN]
AnnounceType == [at : {"idle", "boot", "probe", "tell"}, todo : SUBSET Nodes,
                 probes : SUBSET Nodes, targets : [Nodes -> Nodes \union {None}]]

ClientType ==
  /\ next \in Numbers /\ reused \in BOOLEAN
  /\ pend \in [Numbers -> Queries \union {None}]
  /\ flight \subseteq Numbers \X Nodes
  /\ query \in [Queries -> QueryType]
  /\ \A q \in Queries : query[q].got = {} \/ \E r \in Reply : query[q].got = {r}

LoopType ==
  /\ search \in [Searches -> SearchType] /\ announce \in [Announcers -> AnnounceType]
  /\ \A s \in Searches : search[s].at = "round" => search[s].rounds < MaxRounds

(* Whoever is listed waits under that number and has no answer yet.  The    *)
(* queries of a search are made and return within a round.                  *)
ListedInv ==
  /\ \A n \in Numbers : pend[n] # None =>
       /\ Waiting(pend[n]) /\ query[pend[n]].num = n /\ query[pend[n]].got = {}
  /\ \A s \in Searches, n \in Nodes : query[<<s, n>>].at # "quiet" => search[s].at = "round"

(* While no number is reused, who waits is listed, under a number of its    *)
(* own, and what comes under that number comes from the node it asked.      *)
OwnInv ==
  ~reused =>
    /\ \A q \in Queries : Waiting(q) /\ query[q].got = {} => pend[query[q].num] = q
    /\ \A q, r \in Queries : Waiting(q) /\ Waiting(r) /\ query[q].num = query[r].num => q = r
    /\ \A m \in flight : pend[m[1]] # None => pend[m[1]][2] = m[2]
    /\ \A q \in Queries : \A r \in query[q].got : r.from \in {q[2], None}

ClientInv == ClientType /\ LoopType /\ ListedInv /\ OwnInv

-----------------------------------------------------------------------------
LEMMA NumbersTyped == 1 \in Numbers /\ \A n \in Numbers : Succ(n) \in Numbers
BY DhtAssumption DEF Numbers, Succ

LEMMA QueriesTyped ==
  /\ \A x \in Searches \union Announcers, n \in Nodes :
       <<x, n>> \in Queries /\ <<x, n>>[1] = x /\ <<x, n>>[2] = n
  /\ \A q \in Queries : q # None /\ q[1] \in Searches \union Announcers /\ q[2] \in Nodes
  /\ \A q, r \in Queries : q[1] = r[1] /\ q[2] = r[2] => q = r
BY DhtAssumption DEF Queries

LEMMA ErrorTyped == Error \in Reply
BY DEF Error, Reply

LEMMA QuietTyped == Quiet \in QueryType /\ [Quiet EXCEPT !.at = "ready"] \in QueryType
BY NumbersTyped DEF Quiet, QueryType

LEMMA OffTyped ==
  /\ Off \in SearchType /\ Off.at = "idle"
  /\ [Off EXCEPT !.at = "test", !.frontier = Bootstrap] \in SearchType
<1>1. MaxRounds \in Nat /\ Bootstrap \subseteq Nodes
  BY DhtAssumption, Zenon
<1>2. Off \in SearchType /\ Off.at = "idle"
  BY <1>1 DEF Off, SearchType
<1>3. \A o \in SearchType : [o EXCEPT !.at = "test", !.frontier = Bootstrap] \in SearchType
  BY <1>1 DEF SearchType
<1> QED
  BY <1>2, <1>3

LEMMA StillTyped ==
  /\ Still \in AnnounceType
  /\ [Still EXCEPT !.at = "boot", !.todo = Bootstrap] \in AnnounceType
BY DhtAssumption DEF Still, AnnounceType

LEMMA SomeTyped == ASSUME NEW nodes, NEW some \in Some(nodes) PROVE some \subseteq nodes
BY DEF Some, kSubset

(* The channel of a query holds no more than one answer. *)
LEMMA TypesImplyTypeOK == ClientType /\ LoopType => TypeOK
<1> SUFFICES ASSUME ClientType, LoopType PROVE TypeOK
  OBVIOUS
<1>1. ASSUME NEW q \in Queries PROVE Cardinality(query[q].got) <= 1
  <2>1. Cardinality({}) = 0 /\ \A r : Cardinality({r}) = 1
    BY FS_EmptySet, FS_Singleton, Zenon
  <2>2. CASE query[q].got = {}
    BY <2>1, <2>2
  <2>3. CASE \E r \in Reply : query[q].got = {r}
    <3> PICK r \in Reply : query[q].got = {r}
      BY <2>3
    <3> Cardinality({r}) = 1
      BY <2>1
    <3> QED
      OBVIOUS
  <2> QED
    BY <2>2, <2>3 DEF ClientType
<1>2. /\ next \in Numbers /\ reused \in BOOLEAN
      /\ pend \in [Numbers -> Queries \union {None}]
      /\ flight \subseteq Numbers \X Nodes
  BY DEF ClientType
<1>3. query \in [Queries -> QueryType]
  BY DEF ClientType
<1>4. search \in [Searches -> SearchType] /\ announce \in [Announcers -> AnnounceType]
  BY DEF LoopType
<1> QED
  BY <1>1, <1>2, <1>3, <1>4, Zenon DEF TypeOK, QueryType, SearchType, AnnounceType

LEMMA ClientInit == Init => ClientInv
<1> SUFFICES ASSUME Init PROVE ClientInv
  OBVIOUS
<1>1. ClientType
  BY NumbersTyped, QuietTyped DEF Init, ClientType, Quiet
<1>2. LoopType
  BY DhtAssumption DEF Init, LoopType, SearchType, AnnounceType, Off, Still
<1>3. ListedInv
  BY QueriesTyped DEF Init, ListedInv, Quiet
<1>4. OwnInv
  BY DEF Init, OwnInv, Quiet, Waiting
<1> QED
  BY <1>1, <1>2, <1>3, <1>4 DEF ClientInv

-----------------------------------------------------------------------------
(* The three things that happen to the table. *)
LEMMA EnterKeeps ==
  ASSUME ClientInv, NEW q \in Queries, ~Waiting(q), Enter(q), UNCHANGED search,
         q[1] \in Searches => search[q[1]].at = "round"
  PROVE  ClientType' /\ ListedInv' /\ OwnInv'
<1> DEFINE n == Succ(next)
<1>1. /\ n \in Numbers /\ next' = n
      /\ pend' = [pend EXCEPT ![n] = q]
      /\ query' = [query EXCEPT ![q] = [at |-> "wait", num |-> n, got |-> {}]]
  BY NumbersTyped DEF Enter, ClientInv, ClientType
<1>2. PICK late \in SUBSET flight :
        /\ flight' = {m \in flight : m[1] # n} \union late \union {<<n, q[2]>>}
        /\ reused' = (reused \/ late # {} \/ \E r \in Queries : Waiting(r) /\ query[r].num = n)
  BY DEF Enter
<1> HIDE DEF n
<1>3. ClientType'
  <2>1. [at |-> "wait", num |-> n, got |-> {}] \in QueryType
    BY <1>1 DEF QueryType
  <2>2. query' \in [Queries -> QueryType]
    BY <1>1, <2>1 DEF ClientInv, ClientType
  <2>3. flight' \subseteq Numbers \X Nodes
    BY <1>1, <1>2, QueriesTyped DEF ClientInv, ClientType
  <2>4. \A p \in Queries : query'[p].got = {} \/ \E r \in Reply : query'[p].got = {r}
    BY <1>1 DEF ClientInv, ClientType
  <2> QED
    BY <1>1, <1>2, <2>2, <2>3, <2>4 DEF ClientInv, ClientType
<1>4. \A m \in Numbers : m # n => pend'[m] = pend[m] /\ pend[m] # q
  BY <1>1, QueriesTyped DEF ClientInv, ClientType, ListedInv
<1>5. pend'[n] = q /\ query'[q].at = "wait" /\ query'[q].num = n /\ query'[q].got = {}
  BY <1>1 DEF ClientInv, ClientType
<1>6. \A p \in Queries \ {q} : query'[p] = query[p]
  BY <1>1 DEF ClientInv, ClientType
<1>7. ListedInv'
  <2>1. \A m \in Numbers : pend'[m] # None =>
          query'[pend'[m]].at = "wait" /\ query'[pend'[m]].num = m /\ query'[pend'[m]].got = {}
    BY <1>4, <1>5, <1>6 DEF ClientInv, ClientType, ListedInv, Waiting
  <2>2. \A s \in Searches, k \in Nodes : query'[<<s, k>>].at # "quiet" => search'[s].at = "round"
    BY <1>6, QueriesTyped DEF ClientInv, ListedInv
  <2> QED
    BY <2>1, <2>2 DEF ListedInv, Waiting
<1>8. OwnInv'
  <2> SUFFICES ASSUME ~reused' PROVE OwnInv'
    BY DEF OwnInv
  <2>1. ~reused /\ late = {} /\ \A r \in Queries : Waiting(r) => query[r].num # n
    BY <1>2
  <2>2. \A p \in Queries : query'[p].at = "wait" /\ query'[p].got = {} => pend'[query'[p].num] = p
    BY <1>4, <1>5, <1>6, <2>1 DEF ClientInv, ClientType, OwnInv, QueryType, Waiting
  <2>3. \A p, r \in Queries : query'[p].at = "wait" /\ query'[r].at = "wait" /\ query'[p].num = query'[r].num => p = r
    BY <1>5, <1>6, <2>1 DEF ClientInv, OwnInv, Waiting
  <2>4. \A m \in flight' : pend'[m[1]] # None => pend'[m[1]][2] = m[2]
    BY <1>2, <1>4, <1>5, <2>1 DEF ClientInv, ClientType, OwnInv
  <2>5. \A p \in Queries : \A r \in query'[p].got : r.from \in {p[2], None}
    BY <1>5, <1>6, <2>1 DEF ClientInv, OwnInv
  <2> QED
    BY <2>2, <2>3, <2>4, <2>5 DEF OwnInv, Waiting
<1> QED
  BY <1>3, <1>7, <1>8

LEMMA ReturnKeeps ==
  ASSUME ClientInv, NEW q \in Queries, Return(q),
         \A s \in Searches : search'[s].at = search[s].at
  PROVE  ClientType' /\ ListedInv' /\ OwnInv'
<1> DEFINE n == query[q].num
<1>1. /\ n \in Numbers /\ Waiting(q)
      /\ pend' = [pend EXCEPT ![n] = None]
      /\ query' = [query EXCEPT ![q] = Quiet]
      /\ UNCHANGED <<next, flight, reused>>
  BY DEF Return, ClientInv, ClientType, QueryType
<1> HIDE DEF n
<1>2. ClientType'
  <2>1. query' \in [Queries -> QueryType]
    BY <1>1, QuietTyped DEF ClientInv, ClientType
  <2>2. \A p \in Queries : query'[p].got = {} \/ \E r \in Reply : query'[p].got = {r}
    BY <1>1 DEF ClientInv, ClientType, Quiet
  <2> QED
    BY <1>1, <2>1, <2>2 DEF ClientInv, ClientType
<1>3. \A p \in Queries \ {q} : query'[p] = query[p]
  BY <1>1 DEF ClientInv, ClientType
<1>4. query'[q].at = "quiet" /\ query'[q].got = {}
  BY <1>1 DEF ClientInv, ClientType, Quiet
<1>5. pend'[n] = None /\ \A m \in Numbers : m # n => pend'[m] = pend[m] /\ pend[m] # q
  BY <1>1, QueriesTyped DEF ClientInv, ClientType, ListedInv, n
<1>6. ListedInv'
  <2>1. \A m \in Numbers : pend'[m] # None =>
          query'[pend'[m]].at = "wait" /\ query'[pend'[m]].num = m /\ query'[pend'[m]].got = {}
    BY <1>3, <1>5 DEF ClientInv, ClientType, ListedInv, Waiting
  <2>2. \A s \in Searches, k \in Nodes : query'[<<s, k>>].at # "quiet" => search'[s].at = "round"
    BY <1>3, <1>4, QueriesTyped DEF ClientInv, ListedInv
  <2> QED
    BY <2>1, <2>2 DEF ListedInv, Waiting
<1>7. OwnInv'
  <2> SUFFICES ASSUME ~reused PROVE OwnInv'
    BY <1>1 DEF OwnInv
  <2>1. \A p \in Queries : query'[p].at = "wait" /\ query'[p].got = {} => pend'[query'[p].num] = p
    <3> SUFFICES ASSUME NEW p \in Queries, query'[p].at = "wait", query'[p].got = {}
                 PROVE  pend'[query'[p].num] = p
      OBVIOUS
    <3>1. p # q /\ query'[p] = query[p]
      BY <1>3, <1>4
    <3>2. query[p].num # n /\ query[p].num \in Numbers
      BY <1>1, <3>1 DEF ClientInv, ClientType, QueryType, OwnInv, Waiting, n
    <3>3. pend[query[p].num] = p
      BY <3>1 DEF ClientInv, OwnInv, Waiting
    <3> QED
      BY <1>5, <3>1, <3>2, <3>3
  <2>2. \A p, r \in Queries :
          query'[p].at = "wait" /\ query'[r].at = "wait" /\ query'[p].num = query'[r].num => p = r
    BY <1>3, <1>4 DEF ClientInv, OwnInv, Waiting
  <2>3. \A m \in flight' : pend'[m[1]] # None => pend'[m[1]][2] = m[2]
    BY <1>1, <1>5 DEF ClientInv, ClientType, OwnInv
  <2>4. \A p \in Queries : \A r \in query'[p].got : r.from \in {p[2], None}
    BY <1>3, <1>4 DEF ClientInv, OwnInv
  <2> QED
    BY <2>1, <2>2, <2>3, <2>4 DEF OwnInv, Waiting
<1> QED
  BY <1>2, <1>6, <1>7

LEMMA DeliverKeeps ==
  ASSUME ClientInv, NEW n \in Numbers, NEW reply \in Reply, Deliver(n, reply),
         ~reused => reply.from \in {pend[n][2], None}
  PROVE  ClientType' /\ ListedInv' /\ OwnInv'
<1> DEFINE q == pend[n]
<1>1. q \in Queries /\ Waiting(q) /\ query[q].num = n /\ query[q].got = {}
  BY DEF Deliver, ClientInv, ClientType, ListedInv
<1>2. /\ query' = [query EXCEPT ![q].got = {reply}]
      /\ pend' = [pend EXCEPT ![n] = None]
      /\ UNCHANGED <<next, flight, reused, search, announce>>
  BY <1>1 DEF Deliver, ClientInv, ClientType, QueryType
<1>3. /\ query'[q].at = "wait" /\ query'[q].num = n /\ query'[q].got = {reply}
      /\ \A p \in Queries \ {q} : query'[p] = query[p]
      /\ query' \in [Queries -> QueryType]
  BY <1>1, <1>2 DEF ClientInv, ClientType, QueryType, Waiting
<1>4. pend'[n] = None /\ \A m \in Numbers : m # n => pend'[m] = pend[m] /\ pend[m] # q
  BY <1>1, <1>2, QueriesTyped DEF ClientInv, ClientType, ListedInv
<1>5. ~reused => reply.from \in {q[2], None}
  OBVIOUS
<1> HIDE DEF q
<1>6. ClientType'
  BY <1>2, <1>3 DEF ClientInv, ClientType
<1>7. ListedInv'
  <2>1. \A m \in Numbers : pend'[m] # None =>
          query'[pend'[m]].at = "wait" /\ query'[pend'[m]].num = m /\ query'[pend'[m]].got = {}
    BY <1>3, <1>4 DEF ClientInv, ClientType, ListedInv, Waiting
  <2>2. \A s \in Searches, k \in Nodes : query'[<<s, k>>].at # "quiet" => search'[s].at = "round"
    BY <1>1, <1>2, <1>3, QueriesTyped DEF ClientInv, ListedInv, Waiting
  <2> QED
    BY <2>1, <2>2 DEF ListedInv, Waiting
<1>8. OwnInv'
  <2> SUFFICES ASSUME ~reused PROVE OwnInv'
    BY <1>2 DEF OwnInv
  <2>1. \A p \in Queries : query'[p].at = "wait" /\ query'[p].got = {} => pend'[query'[p].num] = p
    <3> SUFFICES ASSUME NEW p \in Queries, query'[p].at = "wait", query'[p].got = {}
                 PROVE  pend'[query'[p].num] = p
      OBVIOUS
    <3>1. p # q /\ query'[p] = query[p]
      BY <1>3
    <3>2. query[p].num # n /\ query[p].num \in Numbers
      BY <1>1, <3>1 DEF ClientInv, ClientType, QueryType, OwnInv, Waiting
    <3>3. pend[query[p].num] = p
      BY <3>1 DEF ClientInv, OwnInv, Waiting
    <3> QED
      BY <1>4, <3>1, <3>2, <3>3
  <2>2. \A p, r \in Queries :
          query'[p].at = "wait" /\ query'[r].at = "wait" /\ query'[p].num = query'[r].num => p = r
    BY <1>1, <1>3 DEF ClientInv, OwnInv, Waiting
  <2>3. \A m \in flight' : pend'[m[1]] # None => pend'[m[1]][2] = m[2]
    BY <1>2, <1>4 DEF ClientInv, ClientType, OwnInv
  <2>4. \A p \in Queries : \A r \in query'[p].got : r.from \in {p[2], None}
    BY <1>3, <1>5 DEF ClientInv, OwnInv
  <2> QED
    BY <2>1, <2>2, <2>3, <2>4 DEF OwnInv, Waiting
<1> QED
  BY <1>6, <1>7, <1>8

-----------------------------------------------------------------------------
(* The loops.  What a query brings is typed, and from the node it asked. *)
LEMMA ResultsTyped ==
  ASSUME ClientInv, NEW q \in Queries, NEW r \in Results(q)
  PROVE  /\ r \in Reply /\ r.nodes \subseteq Nodes /\ r.peers \in BOOLEAN
         /\ ~reused => r.from \in {q[2], None}
<1>1. Results(q) = query[q].got \union {Error}
  BY DEF Results
<1>2. CASE r = Error
  BY <1>2, ErrorTyped DEF Error
<1>3. CASE r \in query[q].got
  <2>1. r \in Reply
    BY <1>3 DEF ClientInv, ClientType
  <2> QED
    BY <1>3, <2>1 DEF Reply, ClientInv, OwnInv
<1> QED
  BY <1>1, <1>2, <1>3

LEMMA SearchKeeps ==
  ASSUME ClientInv, NEW s \in Searches,
         StartSearch(s) \/ SearchStep(s) \/ \E n \in Nodes : AskStep(s, n)
  PROVE  ClientInv' /\ UNCHANGED announce
<1> USE DEF ClientInv
<1>1. CASE StartSearch(s)
  <2>1. LoopType'
    <3>1. search' \in [Searches -> SearchType]
      BY <1>1, OffTyped DEF StartSearch, LoopType
    <3> QED
      BY <1>1, <3>1 DEF StartSearch, LoopType, Off
  <2>2. ListedInv'
    BY <1>1 DEF StartSearch, LoopType, SearchType, ListedInv, clientVars, Off, Waiting
  <2> QED
    BY <1>1, <2>1, <2>2 DEF StartSearch, ClientType, OwnInv, clientVars, Waiting
<1>2. CASE BeginRound(s)
  <2>1. PICK chosen \in Some(search[s].frontier) :
          query' = [q \in Queries |-> IF q[1] = s /\ q[2] \in chosen
                                      THEN [Quiet EXCEPT !.at = "ready"] ELSE query[q]]
    BY <1>2 DEF BeginRound
  <2>2. /\ search[s].at = "test" /\ UNCHANGED <<next, pend, flight, reused, announce>>
        /\ search' = [search EXCEPT ![s].at = "round", ![s].heard = {}]
    BY <1>2 DEF BeginRound
  <2>3. \A q \in Queries : q[1] = s => query[q].at = "quiet"
    BY <2>2, QueriesTyped DEF ListedInv, Queries
  <2>4. \A q \in Queries :
          \/ query'[q] = query[q]
          \/ q[1] = s /\ query'[q] = [Quiet EXCEPT !.at = "ready"]
    BY <2>1
  <2>5. \A q \in Queries : query'[q].at = "wait" \/ query[q].at = "wait" => query'[q] = query[q]
    BY <2>3, <2>4 DEF Quiet
  <2>6. LoopType'
    <3> DEFINE on == [search[s] EXCEPT !.at = "round", !.heard = {}]
    <3>1. search' = [search EXCEPT ![s] = on] /\ search[s] \in SearchType
      BY <2>2 DEF LoopType
    <3>2. on \in SearchType /\ on.rounds = search[s].rounds
      BY <3>1 DEF SearchType
    <3>3. on.rounds < MaxRounds
      BY <1>2, <3>2 DEF BeginRound
    <3> HIDE DEF on
    <3> QED
      BY <2>2, <3>1, <3>2, <3>3 DEF LoopType
  <2>7. ClientType'
    <3>1. query' \in [Queries -> QueryType]
      BY <2>1, QuietTyped DEF ClientType
    <3>2. \A q \in Queries : query'[q].got = {} \/ \E r \in Reply : query'[q].got = {r}
      BY <2>4 DEF ClientType, Quiet
    <3> QED
      BY <2>2, <3>1, <3>2 DEF ClientType
  <2>8. ListedInv'
    <3>1. \A n \in Numbers : pend'[n] # None =>
            query'[pend'[n]].at = "wait" /\ query'[pend'[n]].num = n /\ query'[pend'[n]].got = {}
      BY <2>2, <2>5 DEF ListedInv, ClientType, Waiting
    <3>2. \A t \in Searches, n \in Nodes : query'[<<t, n>>].at # "quiet" => search'[t].at = "round"
      BY <2>2, <2>4, QueriesTyped DEF ListedInv, LoopType, SearchType
    <3> QED
      BY <3>1, <3>2 DEF ListedInv, Waiting
  <2>9. OwnInv'
    <3> SUFFICES ASSUME ~reused PROVE OwnInv'
      BY <2>2 DEF OwnInv
    <3>1. \A q \in Queries : query'[q].at = "wait" /\ query'[q].got = {} => pend'[query'[q].num] = q
      BY <2>2, <2>5 DEF OwnInv, Waiting
    <3>2. \A q, r \in Queries :
            query'[q].at = "wait" /\ query'[r].at = "wait" /\ query'[q].num = query'[r].num => q = r
      BY <2>5 DEF OwnInv, Waiting
    <3>3. \A m \in flight' : pend'[m[1]] # None => pend'[m[1]][2] = m[2]
      BY <2>2 DEF OwnInv
    <3>4. \A q \in Queries : \A r \in query'[q].got : r.from \in {q[2], None}
      BY <2>4 DEF OwnInv, Quiet
    <3> QED
      BY <3>1, <3>2, <3>3, <3>4 DEF OwnInv, Waiting
  <2> QED
    BY <2>2, <2>6, <2>7, <2>8, <2>9
<1>3. CASE EndSearch(s)
  <2>1. LoopType'
    <3>1. search' \in [Searches -> SearchType]
      BY <1>3, OffTyped DEF EndSearch, LoopType
    <3> QED
      BY <1>3, <3>1, OffTyped DEF EndSearch, LoopType
  <2>2. ListedInv'
    BY <1>3 DEF EndSearch, LoopType, SearchType, ListedInv, clientVars, Off, Waiting
  <2> QED
    BY <1>3, <2>1, <2>2 DEF EndSearch, ClientType, OwnInv, clientVars, Waiting
<1>4. CASE EndRound(s)
  <2>1. /\ search[s] \in SearchType /\ search[s].rounds < MaxRounds
        /\ UNCHANGED <<clientVars, announce>>
    BY <1>4 DEF EndRound, LoopType
  <2>2. LoopType'
    <3>1. CASE search[s].found
      BY <1>4, <2>1, <3>1, OffTyped DEF EndRound, LoopType
    <3>2. CASE ~search[s].found
      <4> DEFINE on == [search[s] EXCEPT !.at = "test", !.rounds = @ + 1,
                                         !.frontier = search[s].heard, !.heard = {}]
      <4>1. on \in SearchType /\ on.at = "test"
        <5>1. search[s].rounds + 1 \in 0 .. MaxRounds
          BY <2>1, DhtAssumption DEF SearchType
        <5> QED
          BY <2>1, <5>1 DEF SearchType
      <4>2. search' = [search EXCEPT ![s] = on]
        BY <1>4, <3>2 DEF EndRound, LoopType
      <4> HIDE DEF on
      <4> QED
        BY <2>1, <4>1, <4>2 DEF LoopType
    <3> QED
      BY <3>1, <3>2
  <2>3. ListedInv'
    BY <1>4 DEF EndRound, LoopType, SearchType, ListedInv, clientVars, Waiting
  <2> QED
    BY <1>4, <2>2, <2>3 DEF EndRound, ClientType, OwnInv, clientVars, Waiting
<1>5. ASSUME NEW n \in Nodes, SearchAsk(s, n) PROVE ClientInv' /\ UNCHANGED announce
  <2>1. /\ <<s, n>> \in Queries /\ ~Waiting(<<s, n>>) /\ Enter(<<s, n>>)
        /\ UNCHANGED <<search, announce>> /\ search[s].at = "round"
    BY <1>5, QueriesTyped DEF SearchAsk, ListedInv, Waiting
  <2>2. ClientType' /\ ListedInv' /\ OwnInv'
    BY <2>1, EnterKeeps, QueriesTyped
  <2> QED
    BY <2>1, <2>2 DEF LoopType
<1>6. ASSUME NEW n \in Nodes, SearchReturn(s, n) PROVE ClientInv' /\ UNCHANGED announce
  <2>1. <<s, n>> \in Queries /\ Return(<<s, n>>) /\ UNCHANGED announce
    BY <1>6, QueriesTyped DEF SearchReturn
  <2>2. PICK r \in Results(<<s, n>>) :
          search' = [search EXCEPT ![s].found = @ \/ r.peers, ![s].heard = @ \union r.nodes]
    BY <1>6 DEF SearchReturn
  <2>3. r.nodes \subseteq Nodes /\ r.peers \in BOOLEAN
    BY <2>1, <2>2, ResultsTyped
  <2>4. LoopType' /\ \A t \in Searches : search'[t].at = search[t].at
    <3> DEFINE on == [search[s] EXCEPT !.found = @ \/ r.peers, !.heard = @ \union r.nodes]
    <3>1. search' = [search EXCEPT ![s] = on] /\ search[s] \in SearchType
      BY <2>2 DEF LoopType
    <3>2. on \in SearchType /\ on.at = search[s].at /\ on.rounds = search[s].rounds
      BY <2>3, <3>1 DEF SearchType
    <3> HIDE DEF on
    <3> QED
      BY <2>1, <3>1, <3>2 DEF LoopType
  <2> QED
    BY <2>1, <2>4, ReturnKeeps
<1> QED
  BY <1>1, <1>2, <1>3, <1>4, <1>5, <1>6 DEF SearchStep, AskStep

(* An announcer's step, and what it leaves alone. *)
LEMMA AskKeeps ==
  ASSUME ClientInv, TokensAreOwn, NEW a \in Announcers, AnnounceAsk(a)
  PROVE  ClientInv' /\ TokensAreOwn'
<1>1. PICK n \in Due(a) : Enter(<<a, n>>)
  BY DEF AnnounceAsk
<1>2. n \in Nodes
  BY DEF Due, ClientInv, LoopType, AnnounceType
<1>3. <<a, n>> \in Queries /\ ~Waiting(<<a, n>>) /\ <<a, n>>[1] \notin Searches
  BY <1>2, QueriesTyped, DhtAssumption DEF AnnounceAsk
<1>4. UNCHANGED <<search, announce>>
  BY DEF AnnounceAsk
<1>5. ClientType' /\ ListedInv' /\ OwnInv'
  BY <1>1, <1>3, <1>4, EnterKeeps
<1>6. reused => reused'
  BY <1>1 DEF Enter
<1> QED
  BY <1>4, <1>5, <1>6 DEF ClientInv, LoopType, TokensAreOwn

LEMMA TokensTyped ==
  ASSUME ClientInv, TokensAreOwn, NEW a \in Announcers, NEW n \in Nodes,
         NEW r \in Results(<<a, n>>)
  PROVE  /\ Tokens(a, n, r) \in [Nodes -> Nodes \union {None}]
         /\ ~reused => \A k \in Nodes : Tokens(a, n, r)[k] \in {k, None}
<1>1. r.from \in Nodes \union {None} /\ (~reused => r.from \in {n, None})
  BY ResultsTyped, QueriesTyped DEF Reply
<1>2. announce[a].targets \in [Nodes -> Nodes \union {None}]
  BY DEF ClientInv, LoopType, AnnounceType
<1> QED
  BY <1>1, <1>2 DEF Tokens, TokensAreOwn

LEMMA AnswerKeeps ==
  ASSUME ClientInv, TokensAreOwn, NEW a \in Announcers, NEW n \in Nodes,
         BootReturn(a, n) \/ ProbeReturn(a, n) \/ TellReturn(a, n)
  PROVE  ClientInv' /\ TokensAreOwn'
<1>1. <<a, n>> \in Queries /\ Return(<<a, n>>) /\ UNCHANGED <<search, reused>>
  BY QueriesTyped DEF BootReturn, ProbeReturn, TellReturn, Return
<1>2. ClientType' /\ ListedInv' /\ OwnInv'
  BY <1>1, ReturnKeeps
<1>3. announce[a] \in AnnounceType
  BY DEF ClientInv, LoopType
<1>4. PICK on \in AnnounceType :
        /\ announce' = [announce EXCEPT ![a] = on]
        /\ ~reused => \A k \in Nodes : on.targets[k] \in {k, None}
  <2>1. CASE BootReturn(a, n)
    <3>1. PICK r \in Results(<<a, n>>) : \E probes \in Some(r.nodes) :
            announce' = [announce EXCEPT ![a] =
              [at |-> IF probes = {} THEN "boot" ELSE "probe",
               todo |-> announce[a].todo \ {n}, probes |-> probes,
               targets |-> IF probes = {} THEN Tokens(a, n, r) ELSE announce[a].targets]]
      BY <2>1 DEF BootReturn
    <3>2. PICK probes \in Some(r.nodes) :
            announce' = [announce EXCEPT ![a] =
              [at |-> IF probes = {} THEN "boot" ELSE "probe",
               todo |-> announce[a].todo \ {n}, probes |-> probes,
               targets |-> IF probes = {} THEN Tokens(a, n, r) ELSE announce[a].targets]]
      BY <3>1
    <3> DEFINE targets == IF probes = {} THEN Tokens(a, n, r) ELSE announce[a].targets
               on == [at |-> IF probes = {} THEN "boot" ELSE "probe",
                      todo |-> announce[a].todo \ {n}, probes |-> probes, targets |-> targets]
    <3>3. probes \subseteq Nodes
      BY <1>1, ResultsTyped, SomeTyped
    <3>4. /\ targets \in [Nodes -> Nodes \union {None}]
          /\ ~reused => \A k \in Nodes : targets[k] \in {k, None}
      BY <1>3, TokensTyped DEF TokensAreOwn, AnnounceType
    <3> HIDE DEF targets
    <3>5. on \in AnnounceType /\ on.targets = targets
      BY <1>3, <3>3, <3>4 DEF AnnounceType
    <3>6. announce' = [announce EXCEPT ![a] = on]
      BY <3>2 DEF targets
    <3> HIDE DEF on
    <3> QED
      BY <3>4, <3>5, <3>6
  <2>2. CASE ProbeReturn(a, n)
    <3>1. PICK r \in Results(<<a, n>>) :
            announce' = [announce EXCEPT ![a] =
              [at |-> IF announce[a].probes = {n} THEN "boot" ELSE "probe",
               todo |-> announce[a].todo, probes |-> announce[a].probes \ {n},
               targets |-> Tokens(a, n, r)]]
      BY <2>2 DEF ProbeReturn
    <3> DEFINE targets == Tokens(a, n, r)
               on == [at |-> IF announce[a].probes = {n} THEN "boot" ELSE "probe",
                      todo |-> announce[a].todo, probes |-> announce[a].probes \ {n},
                      targets |-> targets]
    <3>2. /\ targets \in [Nodes -> Nodes \union {None}]
          /\ ~reused => \A k \in Nodes : targets[k] \in {k, None}
      BY TokensTyped
    <3>3. announce' = [announce EXCEPT ![a] = on]
      BY <3>1
    <3> HIDE DEF targets
    <3>4. on \in AnnounceType /\ on.targets = targets
      BY <1>3, <3>2 DEF AnnounceType
    <3> HIDE DEF on
    <3> QED
      BY <3>2, <3>3, <3>4
  <2>3. CASE TellReturn(a, n)
    <3>1. CASE announce[a].todo = {n}
      BY <2>3, <3>1, StillTyped DEF TellReturn, Still
    <3>2. CASE announce[a].todo # {n}
      <4> DEFINE on == [announce[a] EXCEPT !.todo = announce[a].todo \ {n}]
      <4>1. announce' = [announce EXCEPT ![a] = on]
        BY <2>3, <3>2 DEF TellReturn
      <4>2. on \in AnnounceType /\ on.targets = announce[a].targets
        BY <1>3 DEF AnnounceType
      <4> HIDE DEF on
      <4> QED
        BY <4>1, <4>2 DEF TokensAreOwn
    <3> QED
      BY <3>1, <3>2
  <2> QED
    BY <2>1, <2>2, <2>3
<1>5. LoopType'
  BY <1>1, <1>4 DEF ClientInv, LoopType
<1>6. TokensAreOwn'
  BY <1>1, <1>4 DEF ClientInv, LoopType, TokensAreOwn
<1> QED
  BY <1>2, <1>5, <1>6 DEF ClientInv

LEMMA ScheduleKeeps ==
  ASSUME ClientInv, TokensAreOwn, NEW a \in Announcers, StartAnnounce(a) \/ StartTell(a)
  PROVE  ClientInv' /\ TokensAreOwn'
<1>1. UNCHANGED <<clientVars, search>>
  BY DEF StartAnnounce, StartTell
<1>2. announce[a] \in AnnounceType
  BY DEF ClientInv, LoopType
<1>3. PICK on \in AnnounceType :
        /\ announce' = [announce EXCEPT ![a] = on]
        /\ ~reused => \A k \in Nodes : on.targets[k] \in {k, None}
  <2>1. CASE StartAnnounce(a)
    BY <2>1, StillTyped DEF StartAnnounce, Still
  <2>2. CASE StartTell(a)
    <3>1. PICK told \in Some({k \in Nodes : announce[a].targets[k] # None}) :
            announce' = [announce EXCEPT ![a] =
              IF told = {} THEN Still ELSE [announce[a] EXCEPT !.at = "tell", !.todo = told]]
      BY <2>2 DEF StartTell
    <3>2. told \subseteq Nodes
      BY SomeTyped
    <3>3. CASE told = {}
      BY <3>1, <3>3, StillTyped DEF Still
    <3>4. CASE told # {}
      <4> DEFINE on == [announce[a] EXCEPT !.at = "tell", !.todo = told]
      <4>1. announce' = [announce EXCEPT ![a] = on]
        BY <3>1, <3>4
      <4>2. on \in AnnounceType /\ on.targets = announce[a].targets
        BY <1>2, <3>2 DEF AnnounceType
      <4> HIDE DEF on
      <4> QED
        BY <4>1, <4>2 DEF TokensAreOwn
    <3> QED
      BY <3>3, <3>4
  <2> QED
    BY <2>1, <2>2
<1>4. LoopType'
  BY <1>1, <1>3 DEF ClientInv, LoopType
<1>5. TokensAreOwn'
  BY <1>1, <1>3 DEF ClientInv, LoopType, TokensAreOwn, clientVars
<1> QED
  BY <1>1, <1>4, <1>5 DEF ClientInv, ClientType, ListedInv, OwnInv, clientVars, Waiting

(* What readLoop delivers: an answer from the node that sent it, under the  *)
(* number it bears, or an error under any.                                  *)
LEMMA ReceiveKeeps ==
  ASSUME ClientInv, TokensAreOwn,
         (\E m \in flight : Receive(m)) \/ \E n \in Numbers : ReceiveOther(n)
  PROVE  ClientInv' /\ TokensAreOwn'
<1>1. PICK n \in Numbers, reply \in Reply :
        Deliver(n, reply) /\ (~reused => reply.from \in {pend[n][2], None})
  <2>1. ASSUME NEW m \in flight, Receive(m)
        PROVE  \E n \in Numbers, reply \in Reply :
                 Deliver(n, reply) /\ (~reused => reply.from \in {pend[n][2], None})
    <3>1. PICK r \in Answers :
            Deliver(m[1], [from |-> m[2], peers |-> r.peers, token |-> r.token, nodes |-> r.nodes])
      BY <2>1 DEF Receive
    <3> DEFINE reply == [from |-> m[2], peers |-> r.peers, token |-> r.token, nodes |-> r.nodes]
    <3>2. m[1] \in Numbers /\ m[2] \in Nodes
      BY DEF ClientInv, ClientType
    <3>3. r \in [peers : BOOLEAN, token : BOOLEAN, nodes : SUBSET Nodes]
      BY DhtAssumption
    <3>4. reply \in Reply /\ reply.from = m[2]
      BY <3>2, <3>3 DEF Reply
    <3>5. ~reused => m[2] = pend[m[1]][2]
      BY <3>1 DEF Deliver, ClientInv, OwnInv
    <3> QED
      BY <3>1, <3>2, <3>4, <3>5
  <2>2. ASSUME NEW n \in Numbers, ReceiveOther(n)
        PROVE  \E reply \in Reply :
                 Deliver(n, reply) /\ (~reused => reply.from \in {pend[n][2], None})
    BY <2>2, ErrorTyped DEF ReceiveOther, Error
  <2> QED
    BY <2>1, <2>2
<1>2. ClientType' /\ ListedInv' /\ OwnInv'
  BY <1>1, DeliverKeeps
<1>3. UNCHANGED <<search, announce, reused>>
  BY <1>1 DEF Deliver
<1> QED
  BY <1>2, <1>3 DEF ClientInv, LoopType, TokensAreOwn

-----------------------------------------------------------------------------
LEMMA ClientStep ==
  ASSUME ClientInv, TokensAreOwn, [Next]_vars
  PROVE  ClientInv' /\ TokensAreOwn'
<1>1. CASE UNCHANGED vars
  BY <1>1 DEF vars, clientVars, ClientInv, ClientType, LoopType, ListedInv, OwnInv, Waiting, TokensAreOwn
<1>2. CASE (\E m \in flight : Receive(m)) \/ \E n \in Numbers : ReceiveOther(n)
  BY <1>2, ReceiveKeeps
<1>3. ASSUME NEW s \in Searches,
             StartSearch(s) \/ SearchStep(s) \/ \E n \in Nodes : AskStep(s, n)
      PROVE  ClientInv' /\ TokensAreOwn'
  <2>1. ClientInv' /\ UNCHANGED announce
    BY <1>3, SearchKeeps
  <2>2. reused => reused'
    BY <1>3 DEF StartSearch, SearchStep, BeginRound, EndSearch, EndRound, AskStep, SearchAsk,
                SearchReturn, Enter, Return, clientVars
  <2> QED
    BY <2>1, <2>2 DEF TokensAreOwn
<1>4. ASSUME NEW a \in Announcers, StartAnnounce(a) \/ AnnounceStep(a)
      PROVE  ClientInv' /\ TokensAreOwn'
  BY <1>4, AskKeeps, AnswerKeeps, ScheduleKeeps DEF AnnounceStep
<1> QED
  BY <1>1, <1>2, <1>3, <1>4 DEF Next

(* The invariant of the client, of which the theorems below are parts. *)
THEOREM ClientAlways == Spec => [](ClientInv /\ TokensAreOwn)
<1>1. Init => ClientInv /\ TokensAreOwn
  BY ClientInit DEF Init, TokensAreOwn, Still
<1>2. (ClientInv /\ TokensAreOwn) /\ [Next]_vars => (ClientInv /\ TokensAreOwn)'
  BY ClientStep
<1> QED
  BY <1>1, <1>2, PTL DEF Spec

(* Every number, query, search and announcer has its type, and the channel  *)
(* of a query holds no more than the one answer it has room for (query).    *)
THEOREM DhtTypeCorrect == Spec => []TypeOK
<1>1. ClientInv => TypeOK
  BY TypesImplyTypeOK DEF ClientInv
<1> QED
  BY <1>1, ClientAlways, PTL

(* The table lists exactly the queries that wait without an answer, as long *)
(* as no number is used twice at a time (query, readLoop).                  *)
THEOREM TableListsTheWaiting == Spec => []PendingAreWaiting
<1>1. ClientInv => PendingAreWaiting
  BY DEF ClientInv, ListedInv, OwnInv, PendingAreWaiting
<1> QED
  BY <1>1, ClientAlways, PTL

(* A node is announced to with a token of its own, as long as no number is  *)
(* used twice at a time (Announce, readLoop).                               *)
THEOREM TokensComeFromTheirNode == Spec => []TokensAreOwn
BY ClientAlways, PTL

=============================================================================
