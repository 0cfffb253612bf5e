-------------------------------- MODULE Feeds ---------------------------------
(***************************************************************************)
(* The polls of RSS feeds (web/rss.go).  A poll fetches the document of a  *)
(* feed, newest entry first, marks each new entry as seen and hands those  *)
(* that the filters want to rssAdd.  Polls run next to each other: the     *)
(* loop and the bulk poll each work on a copy of the feed, the poll of one *)
(* feed that the user asks for on a pointer into Server.feeds, which a     *)
(* deletion compacts in place.  rssMu is held for single steps only.       *)
(*                                                                         *)
(* Left out: when a poll is due, feeds that are not enabled, the size that *)
(* a feed allows (it is one more filter), backup imports, Recent and       *)
(* the times of a feed, rss.json, entries without a link, what becomes of  *)
(* an entry that was handed over (a failed addition is not tried again,    *)
(* as the entry is seen), and that a poll which reads its feed while the   *)
(* array moves may read half of it.                                        *)
(***************************************************************************)
EXTENDS Integers, Sequences, SequencesExt

CONSTANTS Ids,        \* feeds that are ever created
          Pollers,    \* polls under way at once
          Window,     \* entries of a document
          SeenMax,    \* rssMaxSeen, 200 in the code
          RecentMax,  \* rssMaxRecent, 12: entries handed over by one poll
          Words,      \* Words[n]: what the title of the n-th entry of a feed says
          Keywords,   \* rssFeed.Keywords, of every feed
          Blacklist,  \* rssFeed.Blacklist
          MaxEntries, \* bound: entries that a feed ever publishes
          MaxPolls,   \* bound: polls
          NoFeed

Entries == Ids \X (1 .. MaxEntries)

\* rssMatches: with keywords the blacklist is never asked.
Matches(e) == IF Keywords # {} THEN Words[e[2]] \intersect Keywords # {}
              ELSE Words[e[2]] \intersect Blacklist = {}

ASSUME FeedsAssumption ==
  /\ Window \in Nat \ {0} /\ SeenMax \in Nat \ {0} /\ RecentMax \in Nat \ {0}
  /\ MaxEntries \in Nat /\ MaxPolls \in Nat
  /\ NoFeed \notin Ids

VARIABLES feeds,    \* Server.feeds: the slice of feeds, by ID
          created,  \* feeds so far, those deleted included
          last,     \* the last entry that each feed has published
          seen,     \* rssFeed.Seen
          poll,     \* what each poll is at
          polls,    \* polls so far
          handed,   \* how often each entry was handed to rssAdd
          met,      \* history: feeds on which polls met
          mixed     \* history: feeds between which a poll of the user's went over

siteVars    == <<created, last>>
historyVars == <<met, mixed>>
vars == <<feeds, siteVars, seen, poll, polls, handed, historyVars>>

\* feed: the ID that the poll reads in its copy, or through its pointer to slot;
\* source: the feed whose document it fetched; by: who polls.
Idle == [at |-> "idle", feed |-> NoFeed, slot |-> 0, source |-> NoFeed, by |-> "loop",
         todo |-> <<>>, known |-> {}, matched |-> 0]

TypeOK ==
  /\ feeds \in Seq(Ids) /\ IsInjective(feeds) /\ Range(feeds) \subseteq created
  /\ created \subseteq Ids
  /\ last \in [Ids -> 0 .. MaxEntries]
  /\ \A f \in Ids : seen[f] \in Seq(Entries) /\ Len(seen[f]) <= SeenMax
  /\ \A p \in Pollers :
       /\ poll[p].at \in {"idle", "fetch", "walk"}
       /\ {poll[p].feed, poll[p].source} \subseteq Ids \union {NoFeed}
       /\ poll[p].by \in {"loop", "all", "user"}
       /\ poll[p].slot \in Nat /\ poll[p].todo \in Seq(Entries)
       /\ poll[p].known \subseteq Entries /\ poll[p].matched \in 0 .. RecentMax
  /\ polls \in 0 .. MaxPolls
  /\ handed \in [Entries -> Nat]
  /\ met \subseteq Ids /\ mixed \subseteq Ids

Init ==
  /\ feeds = <<>> /\ created = {}
  /\ last = [f \in Ids |-> 0]
  /\ seen = [f \in Ids |-> <<>>]
  /\ poll = [p \in Pollers |-> Idle] /\ polls = 0
  /\ handed = [e \in Entries |-> 0]
  /\ met = {} /\ mixed = {}

-----------------------------------------------------------------------------
Active(p) == poll[p].at # "idle"

\* A poll of f begins, on a copy (slot 0) or on a pointer.
Start(p, f, slot, by) ==
  /\ ~Active(p) /\ polls < MaxPolls
  /\ polls' = polls + 1
  /\ poll' = [poll EXCEPT ![p] = [Idle EXCEPT !.at = "fetch", !.feed = f, !.source = f,
                                              !.slot = slot, !.by = by]]
  /\ met' = met \union {g \in {f} : \E q \in Pollers : f \in {poll[q].feed, poll[q].source}}

SlotOf(f) == CHOOSE i \in DOMAIN feeds : feeds[i] = f

Looping == \E q \in Pollers : Active(q) /\ poll[q].by = "loop"

\* Variant with the bug: the loop polls through a pointer.
PollInPlace(p, f) ==
  /\ f \in Range(feeds) /\ ~Looping
  /\ Start(p, f, SlotOf(f), "loop")
  /\ UNCHANGED <<feeds, siteVars, seen, handed, mixed>>

\* rssPollLoop polls one feed at a time, of a copy of the slice.
PollDue(p, f) ==
  /\ f \in Range(feeds) /\ ~Looping
  /\ Start(p, f, 0, "loop")
  /\ UNCHANGED <<feeds, siteVars, seen, handed, mixed>>

\* pollAllRSS polls them next to each other, on copies too.
PollAll(p, f) ==
  /\ f \in Range(feeds)
  /\ Start(p, f, 0, "all")
  /\ UNCHANGED <<feeds, siteVars, seen, handed, mixed>>

\* pollRSS polls the feed in the slice.
PollPointer(p, f) ==
  /\ f \in Range(feeds)
  /\ Start(p, f, SlotOf(f), "user")
  /\ UNCHANGED <<feeds, siteVars, seen, handed, mixed>>

\* The slots hold other feeds now: what the pointers to them show.
Shown(polling, moved) ==
  /\ poll' = [q \in Pollers |->
       IF polling[q].slot \in DOMAIN moved THEN [polling[q] EXCEPT !.feed = moved[polling[q].slot]]
       ELSE polling[q]]
  /\ mixed' = mixed \union UNION {{polling[q].source, moved[polling[q].slot]} :
                 q \in {r \in Pollers : polling[r].by = "user" /\ polling[r].slot \in DOMAIN moved}}

\* createRSS appends, perhaps to a new array, and polls the feed at once.
Create(p, f, moves) ==
  /\ f \notin created
  /\ created' = created \union {f}
  /\ feeds' = Append(feeds, f)
  /\ ~Active(p) /\ polls < MaxPolls
  /\ polls' = polls + 1
  /\ Shown([q \in Pollers |->
              IF q = p THEN [Idle EXCEPT !.at = "fetch", !.feed = f, !.source = f,
                                       !.by = "all"]
              ELSE IF moves THEN [poll[q] EXCEPT !.slot = 0] ELSE poll[q]],
           [i \in {Len(feeds) + 1} |-> f])
  /\ UNCHANGED <<last, seen, handed, met>>

\* deleteRSS moves the feeds behind it down: a pointer there shows the next feed.
Delete(f) ==
  /\ f \in Range(feeds)
  /\ LET k == SlotOf(f)
     IN  /\ feeds' = [i \in 1 .. Len(feeds) - 1 |-> IF i < k THEN feeds[i] ELSE feeds[i + 1]]
         /\ Shown(poll, [i \in k .. Len(feeds) - 1 |-> feeds[i + 1]])
  /\ UNCHANGED <<siteVars, seen, polls, handed, met>>

-----------------------------------------------------------------------------
\* What the site of f shows once n entries are published: the newest, in front.
Document(f, n) ==
  [i \in 1 .. IF n < Window THEN n ELSE Window |-> <<f, n + 1 - i>>]

\* The document has come, with what was published meanwhile; the poll notes what
\* its feed has seen, if it is there.
Fetched(p, n) ==
  LET f == poll[p].source
  IN  /\ poll[p].at = "fetch"
      /\ n >= last[f]
      /\ last' = [last EXCEPT ![f] = n]
      /\ poll' = [poll EXCEPT ![p] =
           IF poll[p].feed \in Range(feeds)
             THEN [@ EXCEPT !.at = "walk", !.todo = Document(f, n),
                            !.known = Range(seen[poll[p].feed])]
             ELSE Idle]
      /\ UNCHANGED <<feeds, created, seen, polls, handed, historyVars>>

\* It cannot be fetched or parsed.
FetchFails(p) ==
  /\ poll[p].at = "fetch"
  /\ poll' = [poll EXCEPT ![p] = Idle]
  /\ UNCHANGED <<feeds, siteVars, seen, polls, handed, historyVars>>

\* Variant with the bug: a full list takes no more.
RecordFirst(f, e) ==
  seen' = IF f \in Range(feeds) /\ e \notin Range(seen[f]) /\ Len(seen[f]) < SeenMax
            THEN [seen EXCEPT ![f] = Append(@, e)] ELSE seen

\* recordSeen: a full list forgets what it has had for longest.
RecordSeen(f, e) ==
  seen' = IF f \in Range(feeds) /\ e \notin Range(seen[f])
            THEN [seen EXCEPT ![f] = IF Len(@) = SeenMax THEN Append(Tail(@), e)
                                     ELSE Append(@, e)]
            ELSE seen

\* The poll goes on to its next entry.
Entry(p) ==
  LET e == Head(poll[p].todo)
      n == poll[p].matched + IF Matches(e) THEN 1 ELSE 0
  IN  /\ poll[p].at = "walk" /\ poll[p].todo # <<>>
      /\ IF e \in poll[p].known
           THEN poll' = [poll EXCEPT ![p].todo = Tail(@)] /\ UNCHANGED <<seen, handed>>
           ELSE /\ RecordSeen(poll[p].feed, e)
                /\ handed' = [handed EXCEPT ![e] = IF Matches(e) THEN @ + 1 ELSE @]
                /\ poll' = [poll EXCEPT
                     ![p].todo = IF n = RecentMax THEN <<>> ELSE Tail(@),
                     ![p].known = @ \union {e},
                     ![p].matched = n]
      /\ UNCHANGED <<feeds, siteVars, polls, historyVars>>

PollEnds(p) ==
  /\ poll[p].at = "walk" /\ poll[p].todo = <<>>
  /\ poll' = [poll EXCEPT ![p] = Idle]
  /\ UNCHANGED <<feeds, siteVars, seen, polls, handed, historyVars>>

Next ==
  \/ \E p \in Pollers, f \in Ids :
       \/ PollDue(p, f) \/ PollAll(p, f) \/ PollPointer(p, f)
       \/ \E moves \in BOOLEAN : Create(p, f, moves)
  \/ \E f \in Ids : Delete(f)
  \/ \E p \in Pollers :
       \/ \E n \in 0 .. MaxEntries : Fetched(p, n)
       \/ FetchFails(p) \/ Entry(p) \/ PollEnds(p)

Spec == Init /\ [][Next]_vars

-----------------------------------------------------------------------------
\* No entry is handed over twice, so that a torrent the user has removed does not
\* come back.  The list of what was seen forgets its oldest marks, and a poll
\* marks the newest entry first: this takes a document of at most half as many
\* entries as the list keeps (recordSeen, rss.go:458).  Polls that met on the
\* feed each hand over what both found new.
HandedOnce ==
  2 * Window - 1 <= SeenMax =>
    \A e \in Entries : e[1] \notin met /\ e[1] \notin mixed => handed[e] <= 1

\* What a feed has seen are entries of its own document, but for feeds behind one
\* that the user polls and deletes at the same time (pollRSS, rss.go:572).
SeenAreOwn ==
  \A f \in Ids \ mixed : \A e \in Range(seen[f]) : e[1] = f
=============================================================================
