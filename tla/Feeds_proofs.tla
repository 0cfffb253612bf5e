---------------------------- MODULE Feeds_proofs ------------------------------
(***************************************************************************)
(* Proofs about Feeds, for any number of feeds, polls and entries, any     *)
(* filters, and any lengths of a document and of the list of what is seen. *)
(***************************************************************************)
EXTENDS Feeds, FiniteSetTheorems, TLAPS

PollType == [at : {"idle", "fetch", "walk"}, feed : Ids \union {NoFeed}, slot : Nat,
             source : Ids \union {NoFeed}, by : {"loop", "all", "user"},
             todo : Seq(Entries), known : SUBSET Entries, matched : 0 .. RecentMax]

FeedsType ==
  /\ feeds \in Seq(Ids) /\ IsInjective(feeds) /\ Range(feeds) \subseteq created
  /\ created \subseteq Ids
  /\ last \in [Ids -> 0 .. MaxEntries]
  /\ seen \in [Ids -> Seq(Entries)] /\ \A f \in Ids : Len(seen[f]) <= SeenMax
  /\ poll \in [Pollers -> PollType] /\ polls \in 0 .. MaxPolls
  /\ handed \in [Entries -> Nat]
  /\ met \subseteq Ids /\ mixed \subseteq Ids

(* The feeds that a poll has to do with: it reads one, and may show another. *)
On(p) == {poll[p].feed, poll[p].source}

(* The feeds of which little can be promised. *)
Spoilt == met \union mixed

(* Only a pointer of the user's shows a feed that was not polled, and what a *)
(* poll walks over is from the feed that it fetched.                        *)
Polling(p) ==
  /\ ~Active(p) => poll[p] = Idle
  /\ Active(p) => On(p) \subseteq created
  /\ poll[p].feed # poll[p].source => On(p) \subseteq mixed
  /\ poll[p].slot > 0 => poll[p].by = "user"
  /\ poll[p].at = "fetch" => poll[p].matched = 0
  /\ poll[p].matched = RecentMax => poll[p].todo = <<>>
  /\ \A i \in DOMAIN poll[p].todo : poll[p].todo[i][1] = poll[p].source

Alone ==
  \A p, q \in Pollers : p # q => On(p) \intersect On(q) \subseteq {NoFeed} \union Spoilt

(* A mark is of an entry that was published, and an entry that is marked     *)
(* later than another was still in the document with that other one.        *)
Marked(f) ==
  /\ IsInjective(seen[f])
  /\ \A k \in DOMAIN seen[f] :
       /\ seen[f][k][2] <= last[f]
       /\ \A m \in DOMAIN seen[f] : k < m => seen[f][m][2] > seen[f][k][2] - Window

MarkInv == 2 * Window - 1 <= SeenMax => \A f \in Ids \ Spoilt : Marked(f)

(* An entry that a document of its feed can still show. *)
InReach(e) == e[2] > last[e[1]] - Window

(* What was handed over and may be shown again is marked, while its feed is  *)
(* there: those marks are not forgotten.                                    *)
Once(e) ==
  /\ handed[e] <= 1
  /\ e[1] \notin created => handed[e] = 0
  /\ handed[e] > 0 /\ e[1] \in Range(feeds) /\ InReach(e) => e \in Range(seen[e[1]])

(* A poll knows of each such entry, also of those that it handed over itself. *)
Knows(p, e) ==
  e[1] = poll[p].source /\ handed[e] > 0 /\ InReach(e) => e \in poll[p].known

Walking(p) ==
  poll[p].at = "walk" /\ poll[p].source \notin Spoilt =>
    /\ \A i \in DOMAIN poll[p].todo :
         InReach(poll[p].todo[i]) /\ poll[p].todo[i][2] <= last[poll[p].source]
    /\ \A e \in Entries : Knows(p, e)

OnceInv ==
  2 * Window - 1 <= SeenMax => \A e \in Entries : e[1] \notin Spoilt => Once(e)

WalkInv == 2 * Window - 1 <= SeenMax => \A p \in Pollers : Walking(p)

FeedsInv ==
  /\ FeedsType /\ (\A p \in Pollers : Polling(p)) /\ Alone /\ SeenAreOwn
  /\ MarkInv /\ OnceInv /\ WalkInv

-----------------------------------------------------------------------------
(* Constants, entries and sequences.                                        *)

LEMMA Constants ==
  /\ Window \in Nat /\ Window > 0 /\ SeenMax \in Nat /\ SeenMax > 0
  /\ RecentMax \in Nat /\ RecentMax > 0 /\ MaxEntries \in Nat /\ MaxPolls \in Nat
  /\ NoFeed \notin Ids
BY FeedsAssumption

LEMMA EntryTyped ==
  /\ \A e \in Entries : e[1] \in Ids /\ e[2] \in 1 .. MaxEntries /\ e[2] \in Nat
  /\ \A f \in Ids, n \in 1 .. MaxEntries :
       <<f, n>> \in Entries /\ <<f, n>>[1] = f /\ <<f, n>>[2] = n
  /\ \A e, d \in Entries : e[1] = d[1] /\ e[2] = d[2] => e = d
BY Constants DEF Entries

LEMMA IdleTyped ==
  /\ Idle \in PollType /\ Idle.at = "idle" /\ Idle.feed = NoFeed /\ Idle.source = NoFeed
  /\ Idle.slot = 0 /\ Idle.todo = <<>> /\ Idle.matched = 0 /\ Idle.by = "loop"
BY Constants DEF Idle, PollType

LEMMA PopTyped ==
  ASSUME NEW S, NEW list \in Seq(S), list # <<>>
  PROVE  /\ Head(list) \in S /\ Head(list) = list[1] /\ 1 \in DOMAIN list
         /\ Tail(list) \in Seq(S)
         /\ \A i \in DOMAIN Tail(list) : i + 1 \in DOMAIN list /\ Tail(list)[i] = list[i + 1]
OBVIOUS

LEMMA DocumentTyped ==
  ASSUME NEW f \in Ids, NEW n \in 0 .. MaxEntries
  PROVE  /\ Document(f, n) \in Seq(Entries)
         /\ \A i \in DOMAIN Document(f, n) :
              /\ Document(f, n)[i][1] = f
              /\ Document(f, n)[i][2] <= n /\ Document(f, n)[i][2] > n - Window
<1> DEFINE size == IF n < Window THEN n ELSE Window
           doc == [i \in 1 .. size |-> <<f, n + 1 - i>>]
<1>1. n \in Nat /\ n <= MaxEntries /\ size \in Nat /\ size <= n /\ size <= Window
  BY Constants
<1>2. \A i \in 1 .. size : n + 1 - i \in 1 .. MaxEntries /\ n + 1 - i <= n
                           /\ n + 1 - i > n - Window
  BY <1>1, Constants
<1>3. Document(f, n) = doc
  BY DEF Document
<1> HIDE DEF size
<1>4. doc \in Seq(Entries) /\ DOMAIN doc = 1 .. size
  BY <1>1, <1>2, EntryTyped
<1>5. \A i \in 1 .. size : doc[i] = <<f, n + 1 - i>>
  OBVIOUS
<1> QED
  BY <1>2, <1>3, <1>4, <1>5, EntryTyped

(* Lists, of feeds and of marks.  A new one goes to the end ...              *)
LEMMA Appended ==
  ASSUME NEW S, NEW list \in Seq(S), NEW e \in S
  PROVE  /\ Append(list, e) \in Seq(S) /\ Len(Append(list, e)) = Len(list) + 1
         /\ Range(Append(list, e)) = Range(list) \union {e}
         /\ IsInjective(list) /\ e \notin Range(list) => IsInjective(Append(list, e))
         /\ \A k \in DOMAIN Append(list, e) :
              \/ k \in DOMAIN list /\ Append(list, e)[k] = list[k]
              \/ k = Len(list) + 1 /\ Append(list, e)[k] = e
<1> DEFINE more == Append(list, e)
<1>1. /\ more \in Seq(S) /\ Len(list) \in Nat /\ Len(more) = Len(list) + 1
      /\ DOMAIN list = 1 .. Len(list) /\ DOMAIN more = 1 .. Len(list) + 1
      /\ more[Len(list) + 1] = e /\ \A i \in 1 .. Len(list) : more[i] = list[i]
  OBVIOUS
<1> HIDE DEF more
<1>2. Range(more) = Range(list) \union {e}
  BY <1>1 DEF Range
<1>3. ASSUME IsInjective(list), e \notin Range(list) PROVE IsInjective(more)
  <2> SUFFICES ASSUME NEW i \in 1 .. Len(list) + 1, NEW j \in 1 .. Len(list) + 1,
                      more[i] = more[j]
               PROVE  i = j
    BY <1>1 DEF IsInjective
  <2>1. CASE i \in 1 .. Len(list) /\ j \in 1 .. Len(list)
    BY <2>1, <1>1, <1>3 DEF IsInjective
  <2>2. CASE i = Len(list) + 1 /\ j \in 1 .. Len(list)
    BY <2>2, <1>1, <1>3 DEF Range
  <2>3. CASE j = Len(list) + 1 /\ i \in 1 .. Len(list)
    BY <2>3, <1>1, <1>3 DEF Range
  <2> QED
    BY <2>1, <2>2, <2>3, <1>1
<1>4. \A k \in DOMAIN more :
        \/ k \in DOMAIN list /\ more[k] = list[k]
        \/ k = Len(list) + 1 /\ more[k] = e
  BY <1>1
<1> QED
  BY <1>1, <1>2, <1>3, <1>4 DEF more

(* ... and the oldest mark may go. *)
LEMMA Forgotten ==
  ASSUME NEW list \in Seq(Entries), list # <<>>
  PROVE  /\ Tail(list) \in Seq(Entries) /\ Len(Tail(list)) = Len(list) - 1
         /\ Range(list) \subseteq Range(Tail(list)) \union {list[1]}
         /\ Range(Tail(list)) \subseteq Range(list)
         /\ IsInjective(list) => IsInjective(Tail(list))
         /\ DOMAIN Tail(list) = 1 .. Len(list) - 1
         /\ \A k \in DOMAIN Tail(list) : k + 1 \in DOMAIN list /\ Tail(list)[k] = list[k + 1]
<1>1. /\ Tail(list) \in Seq(Entries) /\ Len(Tail(list)) = Len(list) - 1
      /\ Len(list) \in Nat /\ Len(list) > 0
      /\ DOMAIN list = 1 .. Len(list) /\ DOMAIN Tail(list) = 1 .. Len(list) - 1
      /\ \A k \in 1 .. Len(list) - 1 : Tail(list)[k] = list[k + 1]
  OBVIOUS
<1>2. \A k \in 1 .. Len(list) - 1 : k + 1 \in 1 .. Len(list)
  BY <1>1
<1>3. Range(Tail(list)) \subseteq Range(list)
  BY <1>1, <1>2 DEF Range
<1>4. Range(list) \subseteq Range(Tail(list)) \union {list[1]}
  <2>1. ASSUME NEW k \in 1 .. Len(list), k # 1 PROVE list[k] \in Range(Tail(list))
    <3>1. k - 1 \in DOMAIN Tail(list) /\ Tail(list)[k - 1] = list[k]
      BY <1>1, <2>1
    <3> QED
      BY <3>1 DEF Range
  <2>2. \A k \in 1 .. Len(list) : list[k] \in Range(Tail(list)) \union {list[1]}
    BY <2>1
  <2> QED
    BY <1>1, <2>2 DEF Range
<1>5. IsInjective(list) => IsInjective(Tail(list))
  BY <1>1, <1>2 DEF IsInjective
<1> QED
  BY <1>1, <1>2, <1>3, <1>4, <1>5


(* A full list of marks of f, and a new one that its document shows: the     *)
(* oldest is of an entry that no document shows any more.  For if it were,   *)
(* all the others would be of entries published within two documents of it,  *)
(* and those are fewer.                                                     *)
LEMMA OldestIsOut ==
  ASSUME NEW f \in Ids, NEW list \in Seq(Entries), NEW e \in Entries, NEW l \in Nat,
         2 * Window - 1 <= SeenMax, Len(list) = SeenMax,
         IsInjective(list), e \notin Range(list), e[1] = f, e[2] <= l, e[2] > l - Window,
         \A k \in DOMAIN list : list[k][1] = f /\ list[k][2] <= l,
         \A k, m \in DOMAIN list : k < m => list[m][2] > list[k][2] - Window
  PROVE  list[1][2] <= l - Window
<1> SUFFICES ASSUME list[1][2] > l - Window PROVE FALSE
  <2>1. list[1] \in Entries
    BY Constants
  <2> QED
    BY <2>1, EntryTyped, Constants
<1> DEFINE more == Append(list, e)
           oldest == list[1][2]
           S == 1 .. SeenMax + 1
           T == oldest - Window + 1 .. l
           number == [k \in S |-> more[k][2]]
<1>1. /\ more \in Seq(Entries) /\ DOMAIN more = S /\ DOMAIN list = 1 .. SeenMax
      /\ IsInjective(more) /\ 1 \in DOMAIN list /\ SeenMax \in Nat
      /\ \A k \in S : \/ k \in 1 .. SeenMax /\ more[k] = list[k]
                      \/ k = SeenMax + 1 /\ more[k] = e
  <2>1. more \in Seq(Entries) /\ Len(more) = SeenMax + 1 /\ IsInjective(more)
    BY Appended
  <2>2. SeenMax \in Nat /\ SeenMax > 0
    BY Constants
  <2>3. DOMAIN list = 1 .. SeenMax /\ DOMAIN more = S /\ 1 \in DOMAIN list
    BY <2>1, <2>2
  <2>4. \A k \in DOMAIN more :
          \/ k \in DOMAIN list /\ more[k] = list[k]
          \/ k = Len(list) + 1 /\ more[k] = e
    BY Appended, Zenon
  <2> HIDE DEF more, S
  <2>5. \A k \in S : \/ k \in 1 .. SeenMax /\ more[k] = list[k]
                     \/ k = SeenMax + 1 /\ more[k] = e
    BY <2>3, <2>4, Zenon
  <2> QED
    BY <2>1, <2>2, <2>3, <2>5, Zenon
<1>2. oldest \in Nat /\ oldest <= l /\ Window \in Nat
  <2>1. list[1] \in Entries /\ list[1][2] <= l
    BY <1>1
  <2> QED
    BY <2>1, EntryTyped, Constants
<1>3. ASSUME NEW k \in S
      PROVE  /\ more[k] \in Entries /\ more[k][1] = f
             /\ more[k][2] \in T
  <2>1. more[k] \in Entries /\ more[k][2] \in Nat
    BY <1>1, EntryTyped
  <2>2. CASE k = SeenMax + 1
    <3>1. more[k] = e /\ e[2] \in Nat
      BY <1>1, <2>2, EntryTyped
    <3> QED
      BY <1>2, <2>1, <3>1
  <2>3. CASE k = 1
    <3>1. more[k] = list[1]
      BY <1>1, <2>3
    <3> QED
      BY <1>1, <1>2, <2>1, <3>1, Constants
  <2>4. CASE k \in 2 .. SeenMax
    <3>1. k \in DOMAIN list /\ 1 < k /\ more[k] = list[k]
      BY <1>1, <2>4
    <3>2. list[k][2] > oldest - Window /\ list[k][2] <= l /\ list[k][1] = f
      BY <1>1, <3>1
    <3> QED
      BY <1>2, <2>1, <3>1, <3>2
  <2> QED
    BY <1>1, <2>2, <2>3, <2>4
<1>4. number \in [S -> T]
  BY <1>3
<1>5. /\ IsFiniteSet(S) /\ Cardinality(S) = SeenMax + 1
      /\ IsFiniteSet(T) /\ Cardinality(T) <= 2 * Window - 1
  <2>1. IsFiniteSet(S) /\ Cardinality(S) = SeenMax + 1
    BY <1>1, FS_Interval
  <2>2. /\ IsFiniteSet(T)
        /\ Cardinality(T) = IF oldest - Window + 1 > l THEN 0
                            ELSE l - (oldest - Window + 1) + 1
    <3>1. oldest - Window + 1 \in Int /\ l \in Int
      BY <1>2
    <3> HIDE DEF oldest
    <3> QED
      BY <3>1, FS_Interval
  <2>3. l - oldest < Window
    BY <1>2, Constants
  <2> HIDE DEF oldest, T, S
  <2> QED
    BY <1>2, <2>1, <2>2, <2>3, Constants
<1> HIDE DEF S, T
<1>6. Cardinality(T) < Cardinality(S)
  <2>1. Cardinality(T) \in Nat
    BY <1>5, FS_CardinalityType
  <2> QED
    BY <1>1, <1>2, <1>5, <2>1
<1>7. \A k \in S : number[k] = more[k][2]
  OBVIOUS
<1> HIDE DEF number
<1>8. PICK j \in S, k \in S : j # k /\ number[j] = number[k]
  <2>1. \E x, y \in S : x # y /\ number[x] = number[y]
    BY <1>4, <1>5, <1>6, FS_PigeonHole
  <2> QED
    BY <2>1
<1> HIDE DEF more
<1>9. more[j] = more[k]
  <2>1. /\ more[j] \in Entries /\ more[k] \in Entries /\ more[j][1] = more[k][1]
        /\ more[j][2] = more[k][2]
    BY <1>3, <1>7, <1>8
  <2> QED
    BY <2>1, EntryTyped
<1>10. j \in DOMAIN more /\ k \in DOMAIN more /\ j # k /\ IsInjective(more)
  BY <1>1, <1>8
<1> QED
  BY <1>9, <1>10 DEF IsInjective


-----------------------------------------------------------------------------
(* Steps.                                                                   *)

LEMMA SourceTyped ==
  ASSUME FeedsInv, NEW p \in Pollers
  PROVE  /\ poll[p] \in PollType /\ poll[p].todo \in Seq(Entries)
         /\ poll[p].source \in Ids \union {NoFeed} /\ poll[p].feed \in Ids \union {NoFeed}
         /\ Active(p) => poll[p].source \in Ids /\ poll[p].feed \in Ids
         /\ poll[p].source \notin Spoilt => poll[p].feed = poll[p].source
<1>1. poll[p] \in PollType /\ Polling(p) /\ created \subseteq Ids
  BY DEF FeedsInv, FeedsType
<1> QED
  BY <1>1 DEF PollType, Polling, On, Spoilt

(* What is handed over stays as good as it is while its feed gets no mark. *)
LEMMA OnceKept ==
  ASSUME FeedsType, NEW e \in Entries, Once(e),
         handed'[e] = handed[e], seen'[e[1]] = seen[e[1]],
         last' \in [Ids -> 0 .. MaxEntries], last'[e[1]] >= last[e[1]],
         created \subseteq created',
         e[1] \in Range(feeds') => e[1] \in Range(feeds) \/ handed[e] = 0
  PROVE  Once(e)'
<1>1. e[1] \in Ids /\ e[2] \in Nat /\ handed[e] \in Nat
  BY EntryTyped DEF FeedsType
<1>2. last[e[1]] \in Nat /\ last'[e[1]] \in Nat
  BY <1>1, Constants DEF FeedsType
<1>3. InReach(e)' => InReach(e)
  BY <1>1, <1>2, Constants DEF InReach
<1> QED
  BY <1>1, <1>3 DEF Once

LEMMA MarkedKept ==
  ASSUME FeedsType, NEW f \in Ids, Marked(f), seen'[f] = seen[f],
         last' \in [Ids -> 0 .. MaxEntries], last'[f] >= last[f]
  PROVE  Marked(f)'
<1>1. last[f] \in Nat /\ last'[f] \in Nat /\ seen[f] \in Seq(Entries)
  BY Constants DEF FeedsType
<1>2. ASSUME NEW k \in DOMAIN seen[f] PROVE seen[f][k][2] \in Nat
  <2>1. seen[f][k] \in Entries
    BY <1>1
  <2> QED
    BY <2>1, EntryTyped
<1> QED
  BY <1>1, <1>2 DEF Marked

(* So does what a poll knows, if it stays where it is. *)
LEMMA WalkingKept ==
  ASSUME FeedsInv, NEW p \in Pollers, Walking(p), poll'[p].at = poll[p].at,
         poll'[p].source = poll[p].source, poll'[p].todo = poll[p].todo,
         poll'[p].known = poll[p].known, Spoilt \subseteq Spoilt',
         poll[p].source \in Ids /\ poll[p].source \notin Spoilt =>
           /\ last'[poll[p].source] = last[poll[p].source]
           /\ \A e \in Entries : e[1] = poll[p].source => handed'[e] = handed[e]
  PROVE  Walking(p)'
<1> SUFFICES ASSUME poll[p].at = "walk", poll[p].source \notin Spoilt
             PROVE  Walking(p)'
  BY DEF Walking
<1>1. /\ poll[p].todo \in Seq(Entries) /\ poll[p].source \in Ids
      /\ \A i \in DOMAIN poll[p].todo : poll[p].todo[i][1] = poll[p].source
  BY SourceTyped DEF Active, FeedsInv, Polling
<1>2. ASSUME NEW i \in DOMAIN poll[p].todo
      PROVE  /\ InReach(poll[p].todo[i])'
             /\ poll[p].todo[i][2] <= last'[poll[p].source]
  BY <1>1, <1>2 DEF Walking, InReach
<1>3. ASSUME NEW e \in Entries PROVE Knows(p, e)'
  BY <1>1, <1>3 DEF Walking, Knows, InReach
<1> QED
  BY <1>2, <1>3 DEF Walking

(* One poll moves on by itself, and its feed may have published more. *)
LEMMA PollMoves ==
  ASSUME FeedsInv, NEW p \in Pollers, NEW new \in PollType,
         poll' = [poll EXCEPT ![p] = new],
         UNCHANGED <<feeds, created, seen, polls, handed, met, mixed>>,
         last' \in [Ids -> 0 .. MaxEntries],
         \A f \in Ids : /\ last'[f] >= last[f]
                        /\ f # poll[p].source => last'[f] = last[f],
         {new.feed, new.source} \subseteq On(p) \union {NoFeed},
         Polling(p)', 2 * Window - 1 <= SeenMax => Walking(p)'
  PROVE  FeedsInv'
<1>1. FeedsType /\ FeedsType'
  BY DEF FeedsInv, FeedsType
<1>2. \A q \in Pollers : poll'[q] = IF q = p THEN new ELSE poll[q]
  BY <1>1 DEF FeedsType
<1>3. Spoilt' = Spoilt
  BY DEF Spoilt
<1>4. \A q \in Pollers : Polling(q)'
  <2>1. ASSUME NEW q \in Pollers, q # p PROVE Polling(q)'
    BY <1>2, <2>1 DEF FeedsInv, Polling, Active, On
  <2> QED
    BY <2>1
<1>5. Alone'
  <2>1. \A q \in Pollers : On(q)' \subseteq On(q) \union {NoFeed}
    BY <1>2 DEF On
  <2> QED
    BY <1>3, <2>1 DEF FeedsInv, Alone
<1>6. SeenAreOwn'
  BY DEF FeedsInv, SeenAreOwn
<1>7. MarkInv'
  BY <1>1, <1>3, MarkedKept DEF FeedsInv, MarkInv
<1>8. OnceInv'
  <2>1. ASSUME NEW e \in Entries, Once(e) PROVE Once(e)'
    <3>1. e[1] \in Ids
      BY EntryTyped
    <3> QED
      BY <1>1, <2>1, <3>1, OnceKept
  <2> QED
    BY <1>3, <2>1 DEF FeedsInv, OnceInv
<1>9. WalkInv'
  <2> SUFFICES ASSUME 2 * Window - 1 <= SeenMax PROVE \A q \in Pollers : Walking(q)'
    BY DEF WalkInv
  <2>1. ASSUME NEW q \in Pollers, q # p PROVE Walking(q)'
    <3>1. /\ Walking(q) /\ poll'[q] = poll[q]
      BY <1>2, <2>1 DEF FeedsInv, WalkInv
    <3>2. poll[q].source \in Ids /\ poll[q].source \notin Spoilt =>
            poll[q].source # poll[p].source
      BY <2>1, Constants DEF FeedsInv, Alone, On
    <3> QED
      BY <1>3, <3>1, <3>2, WalkingKept
  <2> QED
    BY <2>1
<1> QED
  BY <1>1, <1>4, <1>5, <1>6, <1>7, <1>8, <1>9 DEF FeedsInv


LEMMA IdlePolls ==
  ASSUME NEW p \in Pollers, poll'[p] = Idle
  PROVE  Polling(p)' /\ Walking(p)'
<1>1. DOMAIN <<>> = {}
  OBVIOUS
<1> QED
  BY <1>1, IdleTyped, Constants DEF Polling, Active, Walking

(* A poll ends, and its feed may have published more. *)
LEMMA PollLeaves ==
  ASSUME FeedsInv, NEW p \in Pollers, poll' = [poll EXCEPT ![p] = Idle],
         UNCHANGED <<feeds, created, seen, polls, handed, met, mixed>>,
         last' \in [Ids -> 0 .. MaxEntries],
         \A f \in Ids : /\ last'[f] >= last[f]
                        /\ f # poll[p].source => last'[f] = last[f]
  PROVE  FeedsInv'
<1>1. poll'[p] = Idle
  BY DEF FeedsInv, FeedsType
<1>2. Polling(p)' /\ Walking(p)'
  BY <1>1, IdlePolls
<1>3. Idle \in PollType /\ {Idle.feed, Idle.source} \subseteq On(p) \union {NoFeed}
  BY IdleTyped
<1> QED
  BY <1>2, <1>3, PollMoves

LEMMA SameLast ==
  ASSUME FeedsInv, UNCHANGED siteVars
  PROVE  /\ last' \in [Ids -> 0 .. MaxEntries] /\ created' = created
         /\ \A f \in Ids : last'[f] >= last[f] /\ last'[f] = last[f]
BY Constants DEF FeedsInv, FeedsType, siteVars

LEMMA EndsGood ==
  ASSUME FeedsInv, NEW p \in Pollers, FetchFails(p) \/ PollEnds(p)
  PROVE  FeedsInv'
<1>1. /\ poll' = [poll EXCEPT ![p] = Idle] /\ UNCHANGED siteVars
      /\ UNCHANGED <<feeds, seen, polls, handed, met, mixed>>
  BY DEF FetchFails, PollEnds, historyVars
<1> QED
  BY <1>1, SameLast, PollLeaves

(* The document shows entries within reach; the poll knows those that were   *)
(* handed over, as their marks are there.                                   *)
LEMMA FetchedGood ==
  ASSUME FeedsInv, NEW p \in Pollers, NEW n \in 0 .. MaxEntries, Fetched(p, n)
  PROVE  FeedsInv'
<1> DEFINE f == poll[p].source
           old == poll[p]
           new == [old EXCEPT !.at = "walk", !.todo = Document(f, n),
                              !.known = Range(seen[old.feed])]
<1>1. /\ old.at = "fetch" /\ n >= last[f] /\ last' = [last EXCEPT ![f] = n]
      /\ poll' = [poll EXCEPT ![p] = IF old.feed \in Range(feeds) THEN new ELSE Idle]
      /\ UNCHANGED <<feeds, created, seen, polls, handed, met, mixed>>
  BY DEF Fetched, historyVars
<1>2. /\ old \in PollType /\ f \in Ids /\ old.feed \in Ids /\ FeedsType /\ Polling(p)
      /\ On(p) \subseteq created /\ (f \notin Spoilt => old.feed = f)
  BY <1>1, SourceTyped DEF FeedsInv, Polling, Active
<1>3. /\ last' \in [Ids -> 0 .. MaxEntries]
      /\ \A g \in Ids : last'[g] >= last[g] /\ (g # f => last'[g] = last[g])
      /\ last'[f] = n
  BY <1>1, <1>2, Constants DEF FeedsType
<1>4. CASE old.feed \notin Range(feeds)
  BY <1>1, <1>3, <1>4, PollLeaves
<1>5. CASE old.feed \in Range(feeds)
  <2>1. /\ Document(f, n) \in Seq(Entries)
        /\ \A i \in DOMAIN Document(f, n) :
             /\ Document(f, n)[i][1] = f
             /\ Document(f, n)[i][2] <= n /\ Document(f, n)[i][2] > n - Window
    BY <1>2, DocumentTyped
  <2>2. Range(seen[old.feed]) \subseteq Entries
    <3>1. seen[old.feed] \in Seq(Entries)
      BY <1>2 DEF FeedsType
    <3> QED
      BY <3>1 DEF Range
  <2> HIDE DEF old
  <2>3. /\ new \in PollType /\ new.at = "walk" /\ new.todo = Document(f, n)
        /\ new.known = Range(seen[old.feed]) /\ new.source = old.source /\ new.feed = old.feed
        /\ new.slot = old.slot /\ new.by = old.by /\ new.matched = old.matched
    BY <1>2, <2>1, <2>2 DEF PollType
  <2> HIDE DEF new
  <2>4. poll' = [poll EXCEPT ![p] = new] /\ poll'[p] = new
    BY <1>1, <1>2, <1>5 DEF FeedsType
  <2>5. Spoilt' = Spoilt /\ old.matched # RecentMax
    BY <1>1, <1>2, Constants DEF Spoilt, Polling, old
  <2>6. Polling(p)'
    <3>1. Active(p)' /\ On(p)' = On(p)
      BY <2>3, <2>4 DEF Active, On, old
    <3>2. \A i \in DOMAIN new.todo : new.todo[i][1] = new.source
      BY <2>1, <2>3 DEF old
    <3> QED
      BY <1>1, <1>2, <2>3, <2>4, <2>5, <3>1, <3>2 DEF Polling, old
  <2>7. ASSUME 2 * Window - 1 <= SeenMax PROVE Walking(p)'
    <3> SUFFICES ASSUME f \notin Spoilt PROVE Walking(p)'
      BY <2>3, <2>4, <2>5 DEF Walking, old
    <3>1. ASSUME NEW i \in DOMAIN new.todo
          PROVE  /\ new.todo[i][2] > last'[new.todo[i][1]] - Window
                 /\ new.todo[i][2] <= last'[f]
      BY <1>3, <2>1, <2>3, <3>1
    <3>2. ASSUME NEW e \in Entries, e[1] = f, handed[e] > 0, InReach(e)'
          PROVE  e \in new.known
      <4>1. e[2] \in Nat /\ last[f] \in Nat /\ n \in Nat
        BY <1>2, EntryTyped, Constants DEF FeedsType
      <4>2. InReach(e)
        BY <1>1, <1>3, <3>2, <4>1, Constants DEF InReach
      <4>3. Once(e)
        BY <2>7, <3>2 DEF FeedsInv, OnceInv
      <4> QED
        BY <1>2, <1>5, <2>3, <3>2, <4>2, <4>3 DEF Once
    <3>3. \A e \in Entries : Knows(p, e)'
      BY <1>1, <2>3, <2>4, <3>2 DEF Knows, old
    <3> QED
      BY <2>3, <2>4, <3>1, <3>3 DEF Walking, InReach, old
  <2> QED
    BY <1>1, <1>3, <2>3, <2>4, <2>6, <2>7, PollMoves DEF old, On
<1> QED
  BY <1>4, <1>5


(* recordSeen: nothing changes, or a new mark goes to the end, in the place of *)
(* the oldest if the list is full.                                          *)
Fresh(f, e)   == e \notin Range(seen[f]) /\ seen'[f] = Append(seen[f], e)
Replaced(f, e) == /\ e \notin Range(seen[f]) /\ Len(seen[f]) = SeenMax
                  /\ seen'[f] = Append(Tail(seen[f]), e)

LEMMA Recorded ==
  ASSUME FeedsType, NEW f \in Ids, NEW e \in Entries, RecordSeen(f, e)
  PROVE  /\ seen' \in [Ids -> Seq(Entries)] /\ \A g \in Ids : Len(seen'[g]) <= SeenMax
         /\ \A g \in Ids : g # f => seen'[g] = seen[g]
         /\ seen'[f] = seen[f] \/ Fresh(f, e) \/ Replaced(f, e)
         /\ Range(seen'[f]) \subseteq Range(seen[f]) \union {e}
         /\ f \in Range(feeds) => e \in Range(seen'[f])
<1>1. /\ seen[f] \in Seq(Entries) /\ Len(seen[f]) <= SeenMax /\ Len(seen[f]) \in Nat
      /\ SeenMax \in Nat /\ SeenMax > 0
  BY Constants DEF FeedsType
<1>2. CASE ~(f \in Range(feeds) /\ e \notin Range(seen[f]))
  <2>1. seen' = seen
    BY <1>2 DEF RecordSeen
  <2> QED
    BY <1>2, <2>1 DEF FeedsType
<1>3. CASE f \in Range(feeds) /\ e \notin Range(seen[f]) /\ Len(seen[f]) # SeenMax
  <2> DEFINE list == Append(seen[f], e)
  <2>1. seen' = [seen EXCEPT ![f] = list]
    BY <1>3 DEF RecordSeen
  <2>2. /\ list \in Seq(Entries) /\ Len(list) = Len(seen[f]) + 1
        /\ Range(list) = Range(seen[f]) \union {e}
    BY <1>1, Appended
  <2>3. list = Append(seen[f], e)
    OBVIOUS
  <2> HIDE DEF list
  <2>4. seen'[f] = list /\ \A g \in Ids : g # f => seen'[g] = seen[g]
    BY <2>1 DEF FeedsType
  <2>5. Len(list) <= SeenMax
    BY <1>1, <1>3, <2>2
  <2>6. seen' \in [Ids -> Seq(Entries)] /\ \A g \in Ids : Len(seen'[g]) <= SeenMax
    BY <2>1, <2>2, <2>4, <2>5 DEF FeedsType
  <2> QED
    BY <1>3, <2>2, <2>3, <2>4, <2>6 DEF Fresh
<1>4. CASE f \in Range(feeds) /\ e \notin Range(seen[f]) /\ Len(seen[f]) = SeenMax
  <2> DEFINE rest == Tail(seen[f])
             list == Append(rest, e)
  <2>1. seen' = [seen EXCEPT ![f] = list]
    BY <1>4 DEF RecordSeen
  <2>2. seen[f] # <<>>
    BY <1>1, <1>4
  <2>3. /\ rest \in Seq(Entries) /\ Len(rest) = Len(seen[f]) - 1
        /\ Range(rest) \subseteq Range(seen[f])
    BY <1>1, <2>2, Forgotten
  <2>4. /\ list \in Seq(Entries) /\ Len(list) = Len(rest) + 1
        /\ Range(list) = Range(rest) \union {e}
    <3> HIDE DEF rest
    <3> QED
      BY <2>3, Appended
  <2>5. list = Append(Tail(seen[f]), e)
    OBVIOUS
  <2> HIDE DEF list
  <2>6. seen'[f] = list /\ \A g \in Ids : g # f => seen'[g] = seen[g]
    BY <2>1 DEF FeedsType
  <2>7. Len(list) <= SeenMax
    BY <1>1, <2>3, <2>4
  <2>8. seen' \in [Ids -> Seq(Entries)] /\ \A g \in Ids : Len(seen'[g]) <= SeenMax
    BY <2>1, <2>4, <2>6, <2>7 DEF FeedsType
  <2> QED
    BY <1>4, <2>3, <2>4, <2>5, <2>6, <2>8 DEF Replaced
<1> QED
  BY <1>2, <1>3, <1>4

(* The marks of a list of which each is of an entry within reach of those before *)
(* stay so with a new one.                                                  *)
LEMMA MarkedAppend ==
  ASSUME NEW list \in Seq(Entries), NEW e \in Entries, NEW l \in Nat,
         e[2] <= l, e[2] > l - Window,
         \A k \in DOMAIN list :
           /\ list[k][2] <= l
           /\ \A m \in DOMAIN list : k < m => list[m][2] > list[k][2] - Window
  PROVE  \A k \in DOMAIN Append(list, e) :
           /\ Append(list, e)[k][2] <= l
           /\ \A m \in DOMAIN Append(list, e) :
                k < m => Append(list, e)[m][2] > Append(list, e)[k][2] - Window
<1> DEFINE more == Append(list, e)
<1>1. /\ \A k \in DOMAIN more : \/ k \in DOMAIN list /\ more[k] = list[k]
                                \/ k = Len(list) + 1 /\ more[k] = e
      /\ DOMAIN list = 1 .. Len(list) /\ Len(list) \in Nat
      /\ e[2] \in Nat /\ Window \in Nat
      /\ \A k \in DOMAIN list : list[k][2] \in Nat
  <2>1. \A k \in DOMAIN list : list[k] \in Entries
    OBVIOUS
  <2> QED
    BY <2>1, Appended, EntryTyped, Constants
<1> HIDE DEF more
<1>2. ASSUME NEW k \in DOMAIN more
      PROVE  /\ more[k][2] <= l
             /\ \A m \in DOMAIN more : k < m => more[m][2] > more[k][2] - Window
  <2>1. CASE k \in DOMAIN list
    <3>1. more[k] = list[k] /\ list[k][2] <= l
      BY <1>1, <1>2, <2>1
    <3>2. ASSUME NEW m \in DOMAIN more, k < m PROVE more[m][2] > more[k][2] - Window
      <4>1. CASE m \in DOMAIN list
        BY <1>1, <2>1, <3>1, <3>2, <4>1
      <4>2. CASE m \notin DOMAIN list
        <5>1. more[m] = e
          BY <1>1, <3>2, <4>2
        <5> QED
          BY <1>1, <2>1, <3>1, <5>1
      <4> QED
        BY <4>1, <4>2
    <3> QED
      BY <3>1, <3>2
  <2>2. CASE k \notin DOMAIN list
    <3>1. k = Len(list) + 1 /\ more[k] = e
      BY <1>1, <1>2, <2>2
    <3>2. \A m \in DOMAIN more : ~(k < m)
      BY <1>1, <3>1
    <3> QED
      BY <3>1, <3>2
  <2> QED
    BY <2>1, <2>2
<1> QED
  BY <1>2 DEF more

LEMMA MarkedRecorded ==
  ASSUME FeedsType, NEW f \in Ids, NEW e \in Entries, RecordSeen(f, e), Marked(f),
         e[1] = f, e[2] <= last[f], InReach(e), last' = last
  PROVE  Marked(f)'
<1> DEFINE list == seen[f]
<1>1. /\ list \in Seq(Entries) /\ IsInjective(list) /\ last[f] \in Nat
      /\ e[2] > last[f] - Window
      /\ \A k \in DOMAIN list :
           /\ list[k][2] <= last[f]
           /\ \A m \in DOMAIN list : k < m => list[m][2] > list[k][2] - Window
  BY Constants DEF FeedsType, Marked, InReach
<1>2. CASE seen'[f] = list
  BY <1>2 DEF Marked
<1>3. CASE Fresh(f, e)
  <2>1. seen'[f] = Append(list, e) /\ e \notin Range(list)
    BY <1>3 DEF Fresh
  <2> HIDE DEF list
  <2>2. IsInjective(Append(list, e))
    BY <1>1, <2>1, Appended
  <2>3. \A k \in DOMAIN Append(list, e) :
          /\ Append(list, e)[k][2] <= last[f]
          /\ \A m \in DOMAIN Append(list, e) :
               k < m => Append(list, e)[m][2] > Append(list, e)[k][2] - Window
    BY <1>1, MarkedAppend
  <2> QED
    BY <2>1, <2>2, <2>3, Zenon DEF Marked
<1>4. CASE Replaced(f, e)
  <2> DEFINE rest == Tail(list)
  <2>1. seen'[f] = Append(rest, e) /\ e \notin Range(list) /\ list # <<>>
    BY <1>1, <1>4, Constants DEF Replaced
  <2> HIDE DEF list
  <2>2. /\ rest \in Seq(Entries) /\ IsInjective(rest) /\ Range(rest) \subseteq Range(list)
        /\ DOMAIN rest = 1 .. Len(list) - 1
        /\ \A k \in DOMAIN rest : k + 1 \in DOMAIN list /\ rest[k] = list[k + 1]
    BY <1>1, <2>1, Forgotten
  <2> HIDE DEF rest
  <2>3. \A k \in DOMAIN rest :
           /\ rest[k][2] <= last[f]
           /\ \A m \in DOMAIN rest : k < m => rest[m][2] > rest[k][2] - Window
    <3> SUFFICES ASSUME NEW k \in DOMAIN rest
                 PROVE  /\ rest[k][2] <= last[f]
                        /\ \A m \in DOMAIN rest : k < m => rest[m][2] > rest[k][2] - Window
      OBVIOUS
    <3>1. k + 1 \in DOMAIN list /\ rest[k] = list[k + 1]
      BY <2>2
    <3>2. ASSUME NEW m \in DOMAIN rest, k < m PROVE rest[m][2] > rest[k][2] - Window
      <4>1. m + 1 \in DOMAIN list /\ rest[m] = list[m + 1] /\ k + 1 < m + 1
        BY <1>1, <2>2, <3>2
      <4> QED
        BY <1>1, <3>1, <4>1
    <3> QED
      BY <1>1, <3>1, <3>2
  <2>4. IsInjective(Append(rest, e))
    BY <2>1, <2>2, Appended
  <2>5. \A k \in DOMAIN Append(rest, e) :
          /\ Append(rest, e)[k][2] <= last[f]
          /\ \A m \in DOMAIN Append(rest, e) :
               k < m => Append(rest, e)[m][2] > Append(rest, e)[k][2] - Window
    BY <1>1, <2>2, <2>3, MarkedAppend
  <2> QED
    BY <2>1, <2>4, <2>5, Zenon DEF Marked
<1> QED
  BY <1>2, <1>3, <1>4, Recorded


(* No mark within reach is lost. *)
LEMMA RecordedKeeps ==
  ASSUME FeedsType, NEW f \in Ids, NEW e \in Entries, RecordSeen(f, e), Marked(f),
         e[1] = f, e[2] <= last[f], InReach(e), 2 * Window - 1 <= SeenMax,
         \A d \in Range(seen[f]) : d[1] = f,
         NEW d \in Range(seen[f]), InReach(d)
  PROVE  d \in Range(seen'[f])
<1> DEFINE list == seen[f]
<1>1. CASE seen'[f] = list
  BY <1>1
<1>2. /\ list \in Seq(Entries) /\ IsInjective(list) /\ last[f] \in Nat
      /\ e[2] > last[f] - Window /\ d[2] > last[f] - Window
      /\ \A k \in DOMAIN list : list[k][1] = f /\ list[k][2] <= last[f]
      /\ \A k, m \in DOMAIN list : k < m => list[m][2] > list[k][2] - Window
  <2>1. list \in Seq(Entries) /\ IsInjective(list) /\ last[f] \in Nat
    BY Constants DEF FeedsType, Marked
  <2>2. e[2] > last[f] - Window /\ d[1] = f /\ d[2] > last[f] - Window
    BY DEF InReach
  <2>3. \A k \in DOMAIN list : list[k][1] = f
    BY DEF Range
  <2>4. /\ \A k \in DOMAIN list : list[k][2] <= last[f]
        /\ \A k, m \in DOMAIN list : k < m => list[m][2] > list[k][2] - Window
    BY DEF Marked
  <2> QED
    BY <2>1, <2>2, <2>3, <2>4
<1>3. CASE Fresh(f, e)
  <2>1. seen'[f] = Append(list, e)
    BY <1>3 DEF Fresh
  <2> HIDE DEF list
  <2>2. Range(Append(list, e)) = Range(list) \union {e}
    BY <1>2, Appended
  <2> QED
    BY <2>1, <2>2 DEF list
<1>4. CASE Replaced(f, e)
  <2> DEFINE rest == Tail(list)
  <2>1. /\ seen'[f] = Append(rest, e) /\ e \notin Range(list) /\ Len(list) = SeenMax
        /\ list # <<>>
    BY <1>2, <1>4, Constants DEF Replaced
  <2> HIDE DEF list
  <2>2. rest \in Seq(Entries) /\ Range(list) \subseteq Range(rest) \union {list[1]}
    BY <1>2, <2>1, Forgotten
  <2> HIDE DEF rest
  <2>3. Range(Append(rest, e)) = Range(rest) \union {e}
    BY <2>2, Appended
  <2>4. list[1][2] <= last[f] - Window
    BY <1>2, <2>1, OldestIsOut
  <2>5. list[1] \in Entries /\ d \in Range(list)
    BY <1>2, <2>1 DEF list
  <2>6. d # list[1]
    BY <1>2, <2>4, <2>5, EntryTyped, Constants
  <2> QED
    BY <2>1, <2>2, <2>3, <2>5, <2>6
<1> QED
  BY <1>1, <1>3, <1>4, Recorded


(* A walk goes over an entry that its poll knows, *)
LEMMA KnownGood ==
  ASSUME FeedsInv, NEW p \in Pollers, Entry(p), Head(poll[p].todo) \in poll[p].known
  PROVE  FeedsInv'
<1> DEFINE old == poll[p]
           new == [old EXCEPT !.todo = Tail(old.todo)]
<1>1. /\ old.at = "walk" /\ old.todo # <<>> /\ UNCHANGED siteVars
      /\ UNCHANGED <<feeds, seen, polls, handed, met, mixed>>
      /\ poll' = [poll EXCEPT ![p] = new]
  BY DEF Entry, historyVars, FeedsInv, FeedsType
<1>2. /\ old \in PollType /\ old.todo \in Seq(Entries) /\ Polling(p) /\ old.matched # RecentMax
  BY <1>1, SourceTyped DEF FeedsInv, Polling
<1> HIDE DEF old
<1>3. /\ Tail(old.todo) \in Seq(Entries)
      /\ \A i \in DOMAIN Tail(old.todo) :
           i + 1 \in DOMAIN old.todo /\ Tail(old.todo)[i] = old.todo[i + 1]
  BY <1>1, <1>2, PopTyped
<1>4. /\ new \in PollType /\ new.at = "walk" /\ new.todo = Tail(old.todo)
      /\ new.known = old.known /\ new.source = old.source /\ new.feed = old.feed
      /\ new.slot = old.slot /\ new.by = old.by /\ new.matched = old.matched
  BY <1>1, <1>2, <1>3 DEF PollType
<1> HIDE DEF new
<1>5. poll'[p] = new /\ Spoilt' = Spoilt
  BY <1>1 DEF FeedsInv, FeedsType, Spoilt
<1>6. created' = created /\ last' = last
  BY <1>1 DEF siteVars
<1>7. Polling(p)'
  <2>1. Active(p) /\ Active(p)' /\ On(p)' = On(p)
    BY <1>1, <1>4, <1>5 DEF Active, On, old
  <2>2. \A i \in DOMAIN new.todo : new.todo[i][1] = new.source
    BY <1>2, <1>3, <1>4 DEF Polling, old
  <2> QED
    BY <1>1, <1>2, <1>4, <1>5, <1>6, <2>1, <2>2 DEF Polling, old
<1>8. ASSUME 2 * Window - 1 <= SeenMax PROVE Walking(p)'
  <2>1. Walking(p)
    BY <1>8 DEF FeedsInv, WalkInv
  <2> SUFFICES ASSUME old.source \notin Spoilt PROVE Walking(p)'
    BY <1>4, <1>5 DEF Walking
  <2>2. /\ \A i \in DOMAIN old.todo :
             InReach(old.todo[i]) /\ old.todo[i][2] <= last[old.source]
        /\ \A e \in Entries : Knows(p, e)
    BY <1>1, <2>1 DEF Walking, old
  <2>3. ASSUME NEW i \in DOMAIN new.todo
        PROVE  new.todo[i][2] > last[new.todo[i][1]] - Window /\ new.todo[i][2] <= last[old.source]
    BY <1>3, <1>4, <2>2, <2>3 DEF InReach
  <2>4. \A e \in Entries : Knows(p, e)'
    BY <1>1, <1>4, <1>5, <1>6, <2>2 DEF Knows, InReach, old
  <2> QED
    BY <1>4, <1>5, <1>6, <2>3, <2>4 DEF Walking, InReach
<1> QED
  BY <1>1, <1>4, <1>7, <1>8, SameLast, PollMoves DEF On, old

(* ... or marks it and hands it over, if the filters want it.  An entry of a  *)
(* feed that is not spoilt was not handed over before.                      *)
LEMMA NewGood ==
  ASSUME FeedsInv, NEW p \in Pollers, Entry(p), Head(poll[p].todo) \notin poll[p].known
  PROVE  FeedsInv'
<1> DEFINE old == poll[p]
           e == Head(old.todo)
           n == old.matched + IF Matches(e) THEN 1 ELSE 0
           rest == IF n = RecentMax THEN <<>> ELSE Tail(old.todo)
           more == old.known \union {e}
           new == [old EXCEPT !.todo = rest, !.known = more, !.matched = n]
           f == old.feed
<1>1. /\ old.at = "walk" /\ old.todo # <<>> /\ UNCHANGED siteVars
      /\ UNCHANGED <<feeds, polls, met, mixed>>
      /\ poll' = [poll EXCEPT ![p] = new] /\ RecordSeen(f, e)
      /\ handed' = [handed EXCEPT ![e] = IF Matches(e) THEN handed[e] + 1 ELSE handed[e]]
  BY DEF Entry, historyVars, FeedsInv, FeedsType
<1>2. /\ old \in PollType /\ old.todo \in Seq(Entries) /\ Polling(p) /\ FeedsType
      /\ f \in Ids /\ old.source \in Ids /\ (old.source \notin mixed => f = old.source)
      /\ old.matched # RecentMax /\ On(p) \subseteq created /\ old.known \subseteq Entries
  BY <1>1, SourceTyped DEF FeedsInv, Polling, Active, On, PollType
<1>3. created' = created /\ last' = last /\ Spoilt' = Spoilt
  BY <1>1 DEF siteVars, Spoilt
<1> HIDE DEF old
<1>4. /\ e \in Entries /\ e = old.todo[1] /\ 1 \in DOMAIN old.todo /\ e[1] = old.source
      /\ Tail(old.todo) \in Seq(Entries)
      /\ \A i \in DOMAIN Tail(old.todo) :
           i + 1 \in DOMAIN old.todo /\ Tail(old.todo)[i] = old.todo[i + 1]
  BY <1>1, <1>2, PopTyped DEF Polling, old
<1> HIDE DEF e
<1>5. /\ rest \in Seq(Entries) /\ more \subseteq Entries /\ n \in 0 .. RecentMax
      /\ n = RecentMax => rest = <<>>
      /\ \A i \in DOMAIN rest : \E j \in DOMAIN old.todo : rest[i] = old.todo[j]
  <2>1. n \in 0 .. RecentMax
    BY <1>2, Constants DEF PollType
  <2> QED
    BY <1>2, <1>4, <2>1
<1> HIDE DEF n, rest
<1>6. /\ new \in PollType /\ new.at = "walk" /\ new.todo = rest
      /\ new.known = more /\ new.source = old.source /\ new.feed = old.feed
      /\ new.slot = old.slot /\ new.by = old.by /\ new.matched = n
  BY <1>1, <1>2, <1>5 DEF PollType, old
<1> HIDE DEF new, more
<1>7. poll'[p] = new /\ \A q \in Pollers : q # p => poll'[q] = poll[q]
  BY <1>1, <1>2 DEF FeedsType
<1>8. /\ handed' \in [Entries -> Nat] /\ \A d \in Entries : d # e => handed'[d] = handed[d]
      /\ handed[e] = 0 => handed'[e] <= 1
  BY <1>1, <1>2, <1>4 DEF FeedsType
<1>9. /\ seen' \in [Ids -> Seq(Entries)] /\ \A g \in Ids : Len(seen'[g]) <= SeenMax
      /\ \A g \in Ids : g # f => seen'[g] = seen[g]
      /\ Range(seen'[f]) \subseteq Range(seen[f]) \union {e}
      /\ f \in Range(feeds) => e \in Range(seen'[f])
  BY <1>1, <1>2, <1>4, Recorded
<1>10. FeedsType'
  BY <1>1, <1>2, <1>3, <1>6, <1>8, <1>9 DEF FeedsType
<1>11. \A q \in Pollers : On(q)' = On(q)
  BY <1>6, <1>7 DEF On, old
<1>12. \A q \in Pollers : Polling(q)'
  <2>1. ASSUME NEW q \in Pollers, q # p PROVE Polling(q)'
    BY <1>1, <1>3, <1>7, <1>11, <2>1 DEF FeedsInv, Polling, Active
  <2>2. Polling(p)'
    <3>1. Active(p)' /\ On(p)' \subseteq created'
      BY <1>2, <1>3, <1>6, <1>7, <1>11 DEF Active
    <3>2. \A i \in DOMAIN new.todo : new.todo[i][1] = new.source
      BY <1>2, <1>5, <1>6 DEF Polling, old
    <3>3. /\ new.feed # new.source => On(p) \subseteq mixed
          /\ new.slot > 0 => new.by = "user"
      BY <1>2, <1>6 DEF Polling, old
    <3> QED
      BY <1>1, <1>5, <1>6, <1>7, <1>11, <3>1, <3>2, <3>3 DEF Polling
  <2> QED
    BY <2>1, <2>2
<1>13. Alone'
  BY <1>3, <1>11 DEF FeedsInv, Alone
<1>14. SeenAreOwn'
  <2> SUFFICES ASSUME NEW g \in Ids \ mixed, NEW d \in Range(seen'[g]) PROVE d[1] = g
    BY <1>1 DEF SeenAreOwn
  <2>1. CASE d \in Range(seen[g])
    BY <2>1 DEF FeedsInv, SeenAreOwn
  <2>2. CASE d \notin Range(seen[g])
    <3>1. g = f /\ d = e
      BY <1>9, <2>2
    <3>2. old.source = f
      BY <1>2, <3>1 DEF Polling, On, old
    <3> QED
      BY <1>4, <3>1, <3>2
  <2> QED
    BY <2>1, <2>2
<1>15. /\ f \notin Spoilt => old.source = f
       /\ old.source \notin Spoilt => old.source = f
  BY <1>2 DEF Polling, On, Spoilt, old
<1>16. ASSUME 2 * Window - 1 <= SeenMax, f \notin Spoilt \/ old.source \notin Spoilt
       PROVE  /\ f \notin Spoilt /\ e[1] = f /\ InReach(e) /\ e[2] <= last[f]
              /\ handed[e] = 0 /\ Walking(p)
  <2>1. Walking(p)
    BY <1>16 DEF FeedsInv, WalkInv
  <2>2. old.source \notin Spoilt /\ old.source = f
    BY <1>15, <1>16
  <2>3. InReach(e) /\ e[2] <= last[f] /\ Knows(p, e)
    BY <1>1, <1>4, <2>1, <2>2 DEF Walking, old
  <2>4. e \notin old.known /\ handed[e] \in Nat
    BY <1>2, <1>4 DEF FeedsType, old, e
  <2> QED
    BY <1>4, <2>1, <2>2, <2>3, <2>4 DEF Knows, old
<1>17. MarkInv'
  <2> SUFFICES ASSUME 2 * Window - 1 <= SeenMax, NEW g \in Ids, g \notin Spoilt
               PROVE  Marked(g)'
    BY <1>3 DEF MarkInv
  <2>1. Marked(g)
    BY DEF FeedsInv, MarkInv
  <2>2. CASE g = f
    BY <1>1, <1>2, <1>3, <1>4, <1>16, <2>1, <2>2, MarkedRecorded
  <2>3. CASE g # f
    <3>1. last'[g] >= last[g] /\ last' \in [Ids -> 0 .. MaxEntries]
      BY <1>2, <1>3, Constants DEF FeedsType
    <3> QED
      BY <1>2, <1>9, <2>1, <2>3, <3>1, MarkedKept
  <2> QED
    BY <2>2, <2>3
<1>18. OnceInv'
  <2> SUFFICES ASSUME 2 * Window - 1 <= SeenMax, NEW d \in Entries, d[1] \notin Spoilt
               PROVE  Once(d)'
    BY <1>3 DEF OnceInv
  <2>1. Once(d) /\ d[1] \in Ids
    BY EntryTyped DEF FeedsInv, OnceInv
  <2>2. CASE d = e
    <3>1. e[1] = f /\ f \in created /\ handed'[e] <= 1
      BY <1>2, <1>4, <1>8, <1>16, <2>2 DEF On, old
    <3> QED
      BY <1>1, <1>3, <1>9, <2>2, <3>1 DEF Once
  <2>3. CASE d # e /\ d[1] = f
    <3>1. /\ Marked(f) /\ \A x \in Range(seen[f]) : x[1] = f
      BY <1>2, <2>3 DEF FeedsInv, MarkInv, SeenAreOwn, Spoilt
    <3>2. d \in Range(seen[f]) /\ InReach(d) => d \in Range(seen'[f])
      BY <1>1, <1>2, <1>3, <1>4, <1>16, <2>3, <3>1, RecordedKeeps
    <3>3. InReach(d)' => InReach(d)
      BY <1>3 DEF InReach
    <3> QED
      BY <1>1, <1>3, <1>8, <2>1, <2>3, <3>2, <3>3 DEF Once
  <2>4. CASE d # e /\ d[1] # f
    <3>1. last'[d[1]] >= last[d[1]] /\ last' \in [Ids -> 0 .. MaxEntries]
      BY <1>2, <1>3, <2>1, Constants DEF FeedsType
    <3> QED
      BY <1>1, <1>2, <1>3, <1>8, <1>9, <2>1, <2>4, <3>1, OnceKept
  <2> QED
    BY <2>2, <2>3, <2>4
<1>19. WalkInv'
  <2> SUFFICES ASSUME 2 * Window - 1 <= SeenMax PROVE \A q \in Pollers : Walking(q)'
    BY DEF WalkInv
  <2>1. ASSUME NEW q \in Pollers, q # p PROVE Walking(q)'
    <3>1. Walking(q) /\ poll'[q] = poll[q]
      BY <1>7, <2>1 DEF FeedsInv, WalkInv
    <3>2. poll[q].source \in Ids /\ poll[q].source \notin Spoilt => poll[q].source # old.source
      BY <2>1, Constants DEF FeedsInv, Alone, On, old
    <3> QED
      BY <1>3, <1>4, <1>8, <3>1, <3>2, WalkingKept
  <2>2. Walking(p)'
    <3> SUFFICES ASSUME old.source \notin Spoilt PROVE Walking(p)'
      BY <1>3, <1>6, <1>7 DEF Walking
    <3>1. /\ \A i \in DOMAIN old.todo :
               InReach(old.todo[i]) /\ old.todo[i][2] <= last[old.source]
          /\ \A d \in Entries : Knows(p, d)
      BY <1>1, <1>16 DEF Walking, old
    <3>2. \A i \in DOMAIN new.todo :
            new.todo[i][2] > last[new.todo[i][1]] - Window /\ new.todo[i][2] <= last[old.source]
      BY <1>5, <1>6, <3>1 DEF InReach
    <3>3. ASSUME NEW d \in Entries PROVE Knows(p, d)'
      <4>1. CASE d = e
        BY <1>6, <1>7, <4>1 DEF Knows, more
      <4>2. CASE d # e
        BY <1>3, <1>6, <1>7, <1>8, <3>1, <4>2 DEF Knows, InReach, more, old
      <4> QED
        BY <4>1, <4>2
    <3> QED
      BY <1>3, <1>6, <1>7, <3>2, <3>3 DEF Walking, InReach
  <2> QED
    BY <2>1, <2>2
<1> QED
  BY <1>10, <1>12, <1>13, <1>14, <1>17, <1>18, <1>19 DEF FeedsInv


(* A poll of a feed that is there begins; polls that it meets there spoil it. *)
LEMMA StartGood ==
  ASSUME FeedsInv, NEW p \in Pollers, NEW f \in Range(feeds), NEW slot \in Nat,
         NEW by \in {"loop", "all", "user"}, slot > 0 => by = "user",
         Start(p, f, slot, by), UNCHANGED <<feeds, siteVars, seen, handed, mixed>>
  PROVE  FeedsInv'
<1> DEFINE new == [Idle EXCEPT !.at = "fetch", !.feed = f, !.source = f, !.slot = slot,
                               !.by = by]
<1>1. /\ ~Active(p) /\ polls < MaxPolls /\ polls' = polls + 1
      /\ poll' = [poll EXCEPT ![p] = new]
      /\ met' = met \union {g \in {f} : \E q \in Pollers : f \in On(q)}
      /\ created' = created /\ last' = last
  BY DEF Start, siteVars, On
<1>2. FeedsType /\ f \in Ids /\ f \in created
  BY DEF FeedsInv, FeedsType
<1>3. /\ new \in PollType /\ new.at = "fetch" /\ new.feed = f /\ new.source = f
      /\ new.slot = slot /\ new.by = by /\ new.todo = <<>> /\ new.matched = 0
  BY <1>2, IdleTyped DEF PollType
<1> HIDE DEF new
<1>4. poll'[p] = new /\ \A q \in Pollers : q # p => poll'[q] = poll[q]
  BY <1>1, <1>2 DEF FeedsType
<1>5. FeedsType'
  <2>1. polls' \in 0 .. MaxPolls
    BY <1>1, <1>2, Constants DEF FeedsType
  <2>2. met' \subseteq Ids
    BY <1>1, <1>2 DEF FeedsType
  <2> QED
    BY <1>1, <1>2, <1>3, <2>1, <2>2 DEF FeedsType
<1>6. Spoilt \subseteq Spoilt' /\ \A q \in Pollers : f \in On(q) => f \in Spoilt'
  BY <1>1 DEF Spoilt
<1>7. \A q \in Pollers : Polling(q)'
  <2>1. ASSUME NEW q \in Pollers, q # p PROVE Polling(q)'
    BY <1>1, <1>4, <2>1 DEF FeedsInv, Polling, Active, On
  <2>2. DOMAIN new.todo = {} /\ new.matched # RecentMax
    BY <1>3, Constants
  <2>3. Polling(p)'
    BY <1>1, <1>2, <1>3, <1>4, <2>2 DEF Polling, Active, On
  <2> QED
    BY <2>1, <2>3
<1>8. Alone'
  <2> SUFFICES ASSUME NEW q \in Pollers, NEW r \in Pollers, q # r,
                      NEW g \in On(q)' \intersect On(r)', g # NoFeed
               PROVE  g \in Spoilt'
    BY DEF Alone
  <2>1. On(p)' = {f} /\ \A x \in Pollers : x # p => On(x)' = On(x)
    BY <1>3, <1>4 DEF On
  <2>2. CASE q # p /\ r # p
    BY <1>6, <2>1, <2>2 DEF FeedsInv, Alone
  <2>3. CASE q = p \/ r = p
    BY <1>6, <2>1, <2>3
  <2> QED
    BY <2>2, <2>3
<1>9. SeenAreOwn'
  BY DEF FeedsInv, SeenAreOwn
<1>10. \A g \in Ids : last'[g] >= last[g]
  BY <1>1, <1>2, Constants DEF FeedsType
<1>11. MarkInv'
  BY <1>1, <1>2, <1>5, <1>6, <1>10, MarkedKept DEF FeedsInv, MarkInv, FeedsType
<1>12. OnceInv'
  <2>1. ASSUME NEW e \in Entries, Once(e) PROVE Once(e)'
    <3>1. e[1] \in Ids
      BY EntryTyped
    <3> QED
      BY <1>1, <1>2, <1>5, <1>10, <2>1, <3>1, OnceKept DEF FeedsType
  <2> QED
    BY <1>6, <2>1 DEF FeedsInv, OnceInv
<1>13. WalkInv'
  <2>1. ASSUME NEW q \in Pollers, Walking(q) PROVE Walking(q)'
    <3>1. CASE q = p
      BY <1>3, <1>4, <3>1 DEF Walking
    <3>2. CASE q # p
      BY <1>1, <1>4, <1>6, <2>1, <3>2, WalkingKept
    <3> QED
      BY <3>1, <3>2
  <2> QED
    BY <2>1 DEF FeedsInv, WalkInv
<1> QED
  BY <1>5, <1>7, <1>8, <1>9, <1>11, <1>12, <1>13 DEF FeedsInv

(* What a pointer shows when the feeds move. *)
Shows(q) ==
  /\ poll'[q] \in PollType
  /\ poll'[q].at = poll[q].at /\ poll'[q].source = poll[q].source
  /\ poll'[q].by = poll[q].by /\ poll'[q].todo = poll[q].todo
  /\ poll'[q].known = poll[q].known /\ poll'[q].matched = poll[q].matched
  /\ poll'[q].slot \in {0, poll[q].slot}
  /\ \/ poll'[q].feed = poll[q].feed
     \/ Active(q) /\ On(q)' \subseteq created' /\ On(q)' \subseteq mixed'
  /\ ~Active(q) => poll'[q] = poll[q]

LEMMA ShownGood ==
  ASSUME FeedsInv, NEW rest \in SUBSET Pollers, \A q \in rest : Shows(q),
         FeedsType', created \subseteq created', mixed \subseteq mixed', last' = last,
         UNCHANGED <<seen, handed, met>>,
         \A e \in Entries : e[1] \in Range(feeds') => e[1] \in Range(feeds) \/ e[1] \notin created
  PROVE  /\ \A q \in rest : Polling(q)' /\ (2 * Window - 1 <= SeenMax => Walking(q)')
         /\ \A q, r \in rest : q # r =>
              On(q)' \intersect On(r)' \subseteq {NoFeed} \union Spoilt'
         /\ SeenAreOwn' /\ MarkInv' /\ OnceInv'
<1>1. FeedsType /\ Spoilt \subseteq Spoilt' /\ mixed' \subseteq Spoilt'
  BY DEF FeedsInv, Spoilt
<1>2. ASSUME NEW q \in rest PROVE On(q)' = On(q) \/ (Active(q) /\ On(q)' \subseteq created' /\ On(q)' \subseteq mixed')
  BY <1>2 DEF Shows, On
<1>3. ASSUME NEW q \in rest PROVE Polling(q)'
  <2>1. Polling(q) /\ Shows(q)
    BY DEF FeedsInv
  <2>2. Active(q)' <=> Active(q)
    BY <2>1 DEF Shows, Active
  <2> QED
    BY <1>2, <2>1, <2>2 DEF Shows, Polling, On
<1>4. ASSUME NEW q \in rest, 2 * Window - 1 <= SeenMax PROVE Walking(q)'
  BY <1>1, <1>4, WalkingKept DEF Shows, FeedsInv, WalkInv
<1>5. \A q, r \in rest : q # r => On(q)' \intersect On(r)' \subseteq {NoFeed} \union Spoilt'
  BY <1>1, <1>2 DEF FeedsInv, Alone
<1>6. SeenAreOwn'
  BY DEF FeedsInv, SeenAreOwn
<1>7. \A g \in Ids : last'[g] >= last[g]
  BY <1>1, Constants DEF FeedsType
<1>8. MarkInv'
  BY <1>1, <1>7, MarkedKept DEF FeedsInv, MarkInv, FeedsType
<1>9. OnceInv'
  <2>1. ASSUME NEW e \in Entries, Once(e) PROVE Once(e)'
    <3>1. e[1] \in Ids /\ (e[1] \in Range(feeds') => e[1] \in Range(feeds) \/ handed[e] = 0)
      BY <2>1, EntryTyped DEF Once
    <3> QED
      BY <1>1, <1>7, <2>1, <3>1, OnceKept DEF FeedsType
  <2> QED
    BY <1>1, <2>1 DEF FeedsInv, OnceInv
<1> QED
  BY <1>3, <1>4, <1>5, <1>6, <1>8, <1>9


(* createRSS: the new feed was never polled. *)
LEMMA CreateGood ==
  ASSUME FeedsInv, NEW p \in Pollers, NEW f \in Ids, NEW moves \in BOOLEAN,
         Create(p, f, moves)
  PROVE  FeedsInv'
<1> DEFINE new == [Idle EXCEPT !.at = "fetch", !.feed = f, !.source = f, !.by = "all"]
           polling == [q \in Pollers |->
                         IF q = p THEN new
                         ELSE IF moves THEN [poll[q] EXCEPT !.slot = 0] ELSE poll[q]]
           moved == [i \in {Len(feeds) + 1} |-> f]
<1>1. /\ f \notin created /\ created' = created \union {f} /\ feeds' = Append(feeds, f)
      /\ ~Active(p) /\ polls < MaxPolls /\ polls' = polls + 1
      /\ Shown(polling, moved) /\ last' = last /\ UNCHANGED <<seen, handed, met>>
  BY DEF Create
<1>2. /\ FeedsType /\ feeds \in Seq(Ids) /\ f \notin Range(feeds)
      /\ Len(feeds) + 1 \in Nat /\ Len(feeds) + 1 > 0 /\ DOMAIN moved = {Len(feeds) + 1}
  BY <1>1 DEF FeedsInv, FeedsType
<1>3. /\ new \in PollType /\ new.at = "fetch" /\ new.feed = f /\ new.source = f
      /\ new.slot = 0 /\ new.by = "all" /\ new.todo = <<>> /\ new.matched = 0
  BY IdleTyped DEF PollType
<1> HIDE DEF new
<1>4. ASSUME NEW q \in Pollers, q # p
      PROVE  /\ polling[q] \in PollType /\ polling[q].at = poll[q].at
             /\ polling[q].source = poll[q].source /\ polling[q].by = poll[q].by
             /\ polling[q].todo = poll[q].todo /\ polling[q].known = poll[q].known
             /\ polling[q].matched = poll[q].matched /\ polling[q].feed = poll[q].feed
             /\ polling[q].slot \in {0, poll[q].slot}
             /\ poll[q].slot = 0 => polling[q] = poll[q]
  <2>1. poll[q] \in PollType
    BY <1>2 DEF FeedsType
  <2> QED
    BY <1>4, <2>1 DEF PollType
<1>5. polling[p] = new
  OBVIOUS
<1> HIDE DEF polling
<1>6. /\ poll' = [q \in Pollers |-> IF polling[q].slot \in DOMAIN moved
                                   THEN [polling[q] EXCEPT !.feed = moved[polling[q].slot]]
                                   ELSE polling[q]]
      /\ mixed' = mixed \union UNION {{polling[q].source, moved[polling[q].slot]} :
                 q \in {r \in Pollers : polling[r].by = "user"
                                          /\ polling[r].slot \in DOMAIN moved}}
  BY <1>1 DEF Shown
<1>7. \A i \in DOMAIN moved : moved[i] = f
  OBVIOUS
<1> HIDE DEF moved
<1>8. \A q \in Pollers : polling[q].by = "user" => q # p /\ Active(q) /\ polling[q].source \in created
  BY <1>3, <1>4, <1>5, IdleTyped DEF FeedsInv, Polling, On
<1>9. mixed \subseteq mixed' /\ mixed' \subseteq Ids
  BY <1>2, <1>6, <1>7, <1>8 DEF FeedsType
<1>10. poll'[p] = new
  BY <1>2, <1>3, <1>5, <1>6
<1>11. \A q \in Pollers \ {p} : Shows(q)
  <2> SUFFICES ASSUME NEW q \in Pollers, q # p PROVE Shows(q)
    OBVIOUS
  <2>1. Polling(q) /\ poll[q] \in PollType
    BY <1>2 DEF FeedsInv, FeedsType
  <2>2. CASE polling[q].slot \notin DOMAIN moved
    <3>1. poll'[q] = polling[q]
      BY <1>6, <2>2
    <3>2. ~Active(q) => poll[q].slot = 0
      BY <2>1, IdleTyped DEF Polling
    <3> QED
      BY <1>4, <3>1, <3>2 DEF Shows
  <2>3. CASE polling[q].slot \in DOMAIN moved
    <3> DEFINE old == polling[q]
    <3>1. poll'[q] = [old EXCEPT !.feed = f]
      BY <1>6, <1>7, <2>3
    <3>2. old \in PollType
      BY <1>4
    <3> HIDE DEF old
    <3>3. /\ [old EXCEPT !.feed = f] \in PollType /\ [old EXCEPT !.feed = f].feed = f
          /\ [old EXCEPT !.feed = f].at = old.at /\ [old EXCEPT !.feed = f].slot = old.slot
          /\ [old EXCEPT !.feed = f].source = old.source /\ [old EXCEPT !.feed = f].by = old.by
          /\ [old EXCEPT !.feed = f].todo = old.todo /\ [old EXCEPT !.feed = f].known = old.known
          /\ [old EXCEPT !.feed = f].matched = old.matched
      BY <3>2 DEF PollType
    <3>4. polling[q].by = "user"
      <4>1. polling[q].slot > 0 /\ poll[q].slot = polling[q].slot
        BY <1>2, <1>4, <2>3
      <4> QED
        BY <1>4, <2>1, <4>1 DEF Polling
    <3>5. Active(q) /\ {polling[q].source, f} \subseteq mixed' /\ polling[q].source \in created
      BY <1>6, <1>7, <1>8, <2>3, <3>4
    <3> QED
      BY <1>1, <1>4, <3>1, <3>3, <3>5 DEF Shows, On, old
  <2> QED
    BY <2>2, <2>3
<1>12. FeedsType'
  <2>1. /\ feeds' \in Seq(Ids) /\ IsInjective(feeds') /\ Range(feeds') = Range(feeds) \union {f}
    BY <1>1, <1>2, Appended DEF FeedsType
  <2>2. polls' \in 0 .. MaxPolls
    BY <1>1, <1>2, Constants DEF FeedsType
  <2>3. poll' \in [Pollers -> PollType]
    BY <1>3, <1>6, <1>10, <1>11 DEF Shows
  <2> QED
    BY <1>1, <1>2, <1>9, <2>1, <2>2, <2>3 DEF FeedsType
<1>13. \A e \in Entries : e[1] \in Range(feeds') => e[1] \in Range(feeds) \/ e[1] \notin created
  BY <1>1, <1>2, Appended
<1>14. /\ \A q \in Pollers \ {p} : Polling(q)' /\ (2 * Window - 1 <= SeenMax => Walking(q)')
       /\ \A q, r \in Pollers \ {p} : q # r =>
              On(q)' \intersect On(r)' \subseteq {NoFeed} \union Spoilt'
       /\ SeenAreOwn' /\ MarkInv' /\ OnceInv'
  BY <1>1, <1>9, <1>11, <1>12, <1>13, ShownGood
<1>15. Polling(p)' /\ Walking(p)'
  <2>1. DOMAIN new.todo = {} /\ new.matched # RecentMax
    BY <1>3, Constants
  <2> QED
    BY <1>1, <1>3, <1>10, <2>1 DEF Polling, Walking, Active, On
<1>16. \A q \in Pollers \ {p} : On(q)' \intersect On(p)' \subseteq Spoilt'
  <2> SUFFICES ASSUME NEW q \in Pollers, q # p, f \in On(q)' PROVE f \in Spoilt'
    BY <1>3, <1>10 DEF On
  <2>1. f \notin On(q)
    BY <1>1, IdleTyped, Constants DEF FeedsInv, Polling, On
  <2> QED
    BY <1>11, <2>1 DEF Shows, On, Spoilt
<1>17. Alone'
  BY <1>14, <1>16 DEF Alone
<1>18. WalkInv' /\ \A q \in Pollers : Polling(q)'
  BY <1>14, <1>15 DEF WalkInv
<1> QED
  BY <1>12, <1>14, <1>17, <1>18 DEF FeedsInv


(* deleteRSS: the feeds behind it move down, and no feed is there twice. *)
LEMMA Compacted ==
  ASSUME NEW list \in Seq(Ids), IsInjective(list), NEW k \in 1 .. Len(list), NEW less,
         less = [i \in 1 .. Len(list) - 1 |-> IF i < k THEN list[i] ELSE list[i + 1]]
  PROVE  less \in Seq(Ids) /\ IsInjective(less) /\ Range(less) \subseteq Range(list)
<1> DEFINE n == Len(list)
<1>1. n \in Nat /\ DOMAIN list = 1 .. n /\ k \in 1 .. n
  OBVIOUS
<1>2. less \in Seq(Ids) /\ DOMAIN less = 1 .. n - 1
  BY <1>1
<1>3. ASSUME NEW i \in 1 .. n, NEW j \in 1 .. n, list[i] = list[j]
      PROVE  i = j
  BY <1>1, <1>3 DEF IsInjective
<1>4. IsInjective(less)
  BY <1>1, <1>2, <1>3 DEF IsInjective
<1>5. Range(less) \subseteq Range(list)
  BY <1>1, <1>2 DEF Range
<1> QED
  BY <1>2, <1>4, <1>5

(* A pointer of the user's may show the next feed; both feeds are spoilt. *)
LEMMA DeleteGood ==
  ASSUME FeedsInv, NEW f \in Ids, Delete(f)
  PROVE  FeedsInv'
<1> DEFINE k == SlotOf(f)
           moved == [i \in k .. Len(feeds) - 1 |-> feeds[i + 1]]
<1>1. FeedsType /\ feeds \in Seq(Ids) /\ IsInjective(feeds) /\ Len(feeds) \in Nat
  BY DEF FeedsInv, FeedsType
<1>2. k \in 1 .. Len(feeds) /\ k \in Nat
  <2>1. \E i \in DOMAIN feeds : feeds[i] = f
    BY DEF Delete, Range
  <2> QED
    BY <1>1, <2>1 DEF SlotOf
<1>3. /\ feeds' = [i \in 1 .. Len(feeds) - 1 |-> IF i < k THEN feeds[i] ELSE feeds[i + 1]]
      /\ Shown(poll, moved) /\ created' = created /\ last' = last
      /\ UNCHANGED <<seen, polls, handed, met>>
  BY DEF Delete, siteVars
<1> HIDE DEF k
<1>4. /\ feeds' \in Seq(Ids) /\ IsInjective(feeds') /\ Range(feeds') \subseteq Range(feeds)
  BY <1>1, <1>2, <1>3, Compacted
<1>5. ASSUME NEW i \in DOMAIN moved
      PROVE  i \in Nat /\ i > 0 /\ moved[i] \in created /\ moved[i] \in Ids
  <2>1. i \in k .. Len(feeds) - 1 /\ i + 1 \in 1 .. Len(feeds) /\ moved[i] = feeds[i + 1]
    BY <1>1, <1>2
  <2>2. feeds[i + 1] \in Range(feeds)
    BY <1>1, <2>1 DEF Range
  <2>3. i \in Nat /\ i > 0
    BY <1>1, <1>2, <2>1
  <2>4. Range(feeds) \subseteq created /\ created \subseteq Ids
    BY <1>1 DEF FeedsType
  <2> HIDE DEF moved
  <2> QED
    BY <2>1, <2>2, <2>3, <2>4
<1> HIDE DEF moved
<1>6. /\ poll' = [q \in Pollers |-> IF poll[q].slot \in DOMAIN moved
                                   THEN [poll[q] EXCEPT !.feed = moved[poll[q].slot]]
                                   ELSE poll[q]]
      /\ mixed' = mixed \union UNION {{poll[q].source, moved[poll[q].slot]} :
                 q \in {r \in Pollers : poll[r].by = "user" /\ poll[r].slot \in DOMAIN moved}}
  BY <1>3 DEF Shown
<1>7. \A q \in Pollers : poll[q].by = "user" => Active(q) /\ poll[q].source \in created
  BY IdleTyped DEF FeedsInv, Polling, On
<1>8. mixed \subseteq mixed' /\ mixed' \subseteq Ids
  BY <1>1, <1>5, <1>6, <1>7 DEF FeedsType
<1>9. \A q \in Pollers : Shows(q)
  <2> SUFFICES ASSUME NEW q \in Pollers PROVE Shows(q)
    OBVIOUS
  <2>1. Polling(q) /\ poll[q] \in PollType
    BY <1>1 DEF FeedsInv, FeedsType
  <2>2. CASE poll[q].slot \notin DOMAIN moved
    <3>1. poll'[q] = poll[q]
      BY <1>6, <2>2
    <3> QED
      BY <2>1, <3>1 DEF Shows
  <2>3. CASE poll[q].slot \in DOMAIN moved
    <3> DEFINE old == poll[q]
               g   == moved[old.slot]
    <3>1. poll'[q] = [old EXCEPT !.feed = g]
      BY <1>6, <2>3
    <3>2. old \in PollType /\ g \in Ids /\ g \in created
      BY <1>5, <2>1, <2>3
    <3>3. poll[q].by = "user"
      BY <1>5, <2>1, <2>3 DEF Polling
    <3>4. Active(q) /\ {old.source, g} \subseteq mixed' /\ old.source \in created
      BY <1>6, <1>7, <2>3, <3>3
    <3> HIDE DEF old, g
    <3>5. /\ [old EXCEPT !.feed = g] \in PollType /\ [old EXCEPT !.feed = g].feed = g
          /\ [old EXCEPT !.feed = g].at = old.at /\ [old EXCEPT !.feed = g].slot = old.slot
          /\ [old EXCEPT !.feed = g].source = old.source /\ [old EXCEPT !.feed = g].by = old.by
          /\ [old EXCEPT !.feed = g].todo = old.todo /\ [old EXCEPT !.feed = g].known = old.known
          /\ [old EXCEPT !.feed = g].matched = old.matched
      BY <3>2 DEF PollType
    <3> QED
      BY <1>3, <3>1, <3>2, <3>4, <3>5 DEF Shows, On, old
  <2> QED
    BY <2>2, <2>3
<1>10. FeedsType'
  <2>1. poll' \in [Pollers -> PollType]
    BY <1>6, <1>9 DEF Shows
  <2> QED
    BY <1>1, <1>3, <1>4, <1>8, <2>1 DEF FeedsType
<1>11. /\ \A q \in Pollers : Polling(q)' /\ (2 * Window - 1 <= SeenMax => Walking(q)')
       /\ \A q, r \in Pollers : q # r =>
              On(q)' \intersect On(r)' \subseteq {NoFeed} \union Spoilt'
       /\ SeenAreOwn' /\ MarkInv' /\ OnceInv'
  BY <1>3, <1>4, <1>8, <1>9, <1>10, ShownGood
<1> QED
  BY <1>10, <1>11 DEF FeedsInv, Alone, WalkInv

-----------------------------------------------------------------------------
(* The invariant and the theorems.                                          *)

LEMMA FeedsInit ==
  ASSUME Init
  PROVE  FeedsInv
<1>1. /\ <<>> \in Seq(Ids) /\ <<>> \in Seq(Entries) /\ IsInjective(<<>>) /\ Range(<<>>) = {}
      /\ Len(<<>>) = 0 /\ DOMAIN <<>> = {}
  BY DEF IsInjective, Range
<1>2. FeedsType
  <2>1. poll \in [Pollers -> PollType] /\ handed \in [Entries -> Nat] /\ polls \in 0 .. MaxPolls
    BY IdleTyped, Constants DEF Init
  <2>2. last \in [Ids -> 0 .. MaxEntries] /\ seen \in [Ids -> Seq(Entries)]
    BY <1>1, Constants DEF Init
  <2>3. \A f \in Ids : Len(seen[f]) <= SeenMax
    BY <1>1, Constants DEF Init
  <2> QED
    BY <1>1, <2>1, <2>2, <2>3 DEF Init, FeedsType
<1>3. \A p \in Pollers : poll[p] = Idle /\ On(p) = {NoFeed}
  BY IdleTyped DEF Init, On
<1>4. \A p \in Pollers : Polling(p)
  BY <1>1, <1>3, IdleTyped, Constants DEF Polling, Active
<1>5. Alone
  BY <1>3 DEF Alone
<1>6. \A f \in Ids : seen[f] = <<>>
  BY DEF Init
<1>7. SeenAreOwn /\ MarkInv
  BY <1>1, <1>6 DEF SeenAreOwn, MarkInv, Marked
<1>8. OnceInv
  <2>1. \A e \in Entries : handed[e] = 0
    BY DEF Init
  <2> QED
    BY <2>1 DEF OnceInv, Once
<1>9. WalkInv
  BY <1>3, IdleTyped DEF WalkInv, Walking
<1> QED
  BY <1>2, <1>4, <1>5, <1>7, <1>8, <1>9 DEF FeedsInv

LEMMA FeedsStep ==
  ASSUME FeedsInv, [Next]_vars
  PROVE  FeedsInv'
<1>1. ASSUME NEW p \in Pollers, NEW f \in Ids, PollDue(p, f) \/ PollAll(p, f)
      PROVE  FeedsInv'
  <2>1. f \in Range(feeds) /\ UNCHANGED <<feeds, siteVars, seen, handed, mixed>>
    BY <1>1 DEF PollDue, PollAll
  <2>2. \E by \in {"loop", "all"} : Start(p, f, 0, by)
    BY <1>1 DEF PollDue, PollAll
  <2>3. PICK by \in {"loop", "all"} : Start(p, f, 0, by)
    BY <2>2
  <2>4. 0 \in Nat /\ ~(0 > 0) /\ by \in {"loop", "all", "user"}
    OBVIOUS
  <2> QED
    BY <2>1, <2>3, <2>4, StartGood
<1>2. ASSUME NEW p \in Pollers, NEW f \in Ids, PollPointer(p, f)
      PROVE  FeedsInv'
  <2>1. /\ f \in Range(feeds) /\ UNCHANGED <<feeds, siteVars, seen, handed, mixed>>
        /\ Start(p, f, SlotOf(f), "user")
    BY <1>2 DEF PollPointer
  <2>2. SlotOf(f) \in Nat
    <3>1. \E i \in DOMAIN feeds : feeds[i] = f
      BY <2>1 DEF Range
    <3>2. feeds \in Seq(Ids)
      BY DEF FeedsInv, FeedsType
    <3> QED
      BY <3>1, <3>2 DEF SlotOf
  <2> QED
    BY <2>1, <2>2, StartGood
<1>3. ASSUME NEW p \in Pollers, Entry(p)
      PROVE  FeedsInv'
  BY <1>3, KnownGood, NewGood
<1>4. CASE UNCHANGED vars
  <2>1. /\ UNCHANGED <<feeds, created, last, seen, poll, polls, handed, met, mixed>>
    BY <1>4 DEF vars, siteVars, historyVars
  <2> QED
    BY <2>1 DEF FeedsInv, FeedsType, Polling, Active, On, Alone, SeenAreOwn, MarkInv, Marked,
                OnceInv, Once, InReach, WalkInv, Walking, Knows, Spoilt
<1>5. CASE Next
  BY <1>1, <1>2, <1>3, <1>5, CreateGood, DeleteGood, FetchedGood, EndsGood DEF Next
<1> QED
  BY <1>4, <1>5

THEOREM FeedsInvariant == Spec => []FeedsInv
<1>1. Init => FeedsInv
  BY FeedsInit
<1>2. FeedsInv /\ [Next]_vars => FeedsInv'
  BY FeedsStep
<1> QED
  BY <1>1, <1>2, PTL DEF Spec

(* The list of what was seen never grows past rssMaxSeen and a poll never    *)
(* hands over more than rssMaxRecent entries (recordSeen, rss.go:458).       *)
THEOREM FeedsTypeCorrect == Spec => []TypeOK
<1>1. FeedsInv => TypeOK
  BY DEF FeedsInv, FeedsType, TypeOK, PollType
<1> QED
  BY <1>1, FeedsInvariant, PTL

(* No entry is handed to rssAdd twice, on a feed where no polls met and that *)
(* no pointer went over, if a document has at most half as many entries as   *)
(* the list keeps (recordSeen, rss.go:458).                                  *)
THEOREM EntriesHandedOnce == Spec => []HandedOnce
<1>1. FeedsInv => HandedOnce
  BY DEF FeedsInv, OnceInv, Once, HandedOnce, Spoilt
<1> QED
  BY <1>1, FeedsInvariant, PTL

(* What a feed has seen are entries of its own document, unless a pointer    *)
(* went over between it and another feed (pollRSS, rss.go:572).              *)
THEOREM SeenStayOwn == Spec => []SeenAreOwn
<1>1. FeedsInv => SeenAreOwn
  BY DEF FeedsInv
<1> QED
  BY <1>1, FeedsInvariant, PTL


=============================================================================
