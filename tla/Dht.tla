--------------------------------- MODULE Dht ---------------------------------
(***************************************************************************)
(* The client of the distributed hash table (dht/dht.go) and the loops     *)
(* that use it (torrente/dhtbridge.go).  Searches for peers ask several    *)
(* nodes at once, round after round; announcers collect tokens one node    *)
(* after the other and hand them back.  All share one socket: a query      *)
(* takes the next of 2^16 numbers and waits at a channel of its own, which *)
(* readLoop finds by the number in an answer.  Datagrams are lost,         *)
(* delayed and doubled.                                                    *)
(*                                                                         *)
(* Registering a query and sending it are one step, so are the dispatch of *)
(* an answer and the send to the channel, which has room for it: what runs *)
(* between them finds the same before or after.                            *)
(*                                                                         *)
(* Left out: which peers are found (connectDiscovered is in Connections),  *)
(* the order of nodes (any of the frontier are asked), names that do not   *)
(* resolve and sends that fail (queries without an answer), which torrents *)
(* announce, and that the loop of a removed torrent ends between searches. *)
(***************************************************************************)
EXTENDS Integers, FiniteSets, FiniteSetsExt

CONSTANTS Searches,   \* torrents whose peer loop runs (startDHTPeerLoop)
          Announcers, \* goroutines of dhtAnnounceLoop at once
          Nodes,
          Bootstrap,  \* DefaultBootstrapNodes
          TxSize,     \* numbers of queries wrap here, 2^16 in the code
          K,          \* nodes per round, probes and announcements, 8
          MaxRounds,  \* maxRounds, 7 in the code
          Answers,    \* what nodes answer: [peers, token, nodes]
          None

ASSUME DhtAssumption ==
  /\ Searches \intersect Announcers = {}
  /\ IsFiniteSet(Nodes) /\ Bootstrap \subseteq Nodes /\ Bootstrap # {}
  /\ TxSize \in Nat /\ TxSize > 1 /\ K \in Nat \ {0} /\ MaxRounds \in Nat \ {0}
  /\ Answers \subseteq [peers : BOOLEAN, token : BOOLEAN, nodes : SUBSET Nodes]
  /\ None \notin Nodes /\ None \notin (Searches \union Announcers) \X Nodes

VARIABLES next,     \* Client.next
          pend,     \* Client.pend: the query that waits under each number
          flight,   \* answers that may yet arrive
          query,    \* each query: by whom, to which node
          search,   \* where each search is
          announce, \* where each announcer is
          reused    \* history: a number was taken that an earlier query still used

clientVars == <<next, pend, flight, query, reused>>
vars == <<clientVars, search, announce>>

Numbers == 1 .. TxSize - 1
Queries == (Searches \union Announcers) \X Nodes

\* An answer with its sender; a query that failed brings nothing.
Error == [from |-> None, peers |-> FALSE, token |-> FALSE, nodes |-> {}]
Reply == [from : Nodes \union {None}, peers : BOOLEAN, token : BOOLEAN, nodes : SUBSET Nodes]

Quiet == [at |-> "quiet", num |-> 1, got |-> {}]
Off   == [at |-> "idle", rounds |-> 0, frontier |-> {}, heard |-> {}, found |-> FALSE]
Still == [at |-> "idle", todo |-> {}, probes |-> {}, targets |-> [n \in Nodes |-> None]]

TypeOK ==
  /\ next \in Numbers /\ reused \in BOOLEAN
  /\ pend \in [Numbers -> Queries \union {None}]
  /\ flight \subseteq Numbers \X Nodes
  /\ query \in [Queries -> [at : {"quiet", "ready", "wait"}, num : Numbers,
                            got : SUBSET Reply]]
  /\ \A q \in Queries : Cardinality(query[q].got) <= 1   \* the channel's buffer
  /\ search \in [Searches -> [at : {"idle", "test", "round"}, rounds : 0 .. MaxRounds,
                              frontier : SUBSET Nodes, heard : SUBSET Nodes,
                              found : BOOLEAN]]
  /\ announce \in [Announcers -> [at : {"idle", "boot", "probe", "tell"},
                                  todo : SUBSET Nodes, probes : SUBSET Nodes,
                                  targets : [Nodes -> Nodes \union {None}]]]

Init ==
  /\ next = 1 /\ pend = [n \in Numbers |-> None] /\ flight = {}
  /\ query = [q \in Queries |-> Quiet]
  /\ reused = FALSE
  /\ search = [s \in Searches |-> Off]
  /\ announce = [a \in Announcers |-> Still]

-----------------------------------------------------------------------------
Waiting(q) == query[q].at = "wait"

\* The number after n, which is never 0.
Succ(n) == IF n + 1 = TxSize THEN 1 ELSE n + 1

\* query, up to the select.  Answers to a number's last use are forgotten by
\* the network since then, or it is reused too early.
Enter(q) ==
  LET n == Succ(next) IN
  /\ next' = n
  /\ pend' = [pend EXCEPT ![n] = q]
  /\ query' = [query EXCEPT ![q] = [at |-> "wait", num |-> n, got |-> {}]]
  /\ \E late \in {{}, {m \in flight : m[1] = n}} :
       /\ late # {} => ~reused   \* bound: once
       /\ flight' = {m \in flight : m[1] # n} \union late \union {<<n, q[2]>>}
       /\ reused' = (reused \/ late # {} \/ \E r \in Queries : Waiting(r) /\ query[r].num = n)

Deliver(n, reply) ==
  /\ pend[n] # None
  /\ query' = [query EXCEPT ![pend[n]].got = @ \union {reply}]
  /\ pend' = [pend EXCEPT ![n] = None]
  /\ UNCHANGED <<next, flight, reused, search, announce>>

\* As if answers were given to the queries in any order.
ReceiveUnmatched(m) ==
  \E r \in Answers, n \in Numbers :
    Deliver(n, [from |-> m[2], peers |-> r.peers, token |-> r.token, nodes |-> r.nodes])

\* readLoop: who sent a datagram is not looked at.
Receive(m) ==
  \E r \in Answers :
    Deliver(m[1], [from |-> m[2], peers |-> r.peers, token |-> r.token, nodes |-> r.nodes])

\* An error, or a query of another node, which bears a number of its own choice.
ReceiveOther(n) == Deliver(n, Error)

\* Without the second case of the select.
ResultsAnswered(q) == query[q].got

\* The end of query: an answer, or the timeout, which may win against one.
Results(q) == query[q].got \union {Error}

\* The number of a query that timed out is left in the table.
ReturnListed(q) ==
  /\ Waiting(q)
  /\ query' = [query EXCEPT ![q] = Quiet]
  /\ UNCHANGED <<next, pend, flight, reused>>

Return(q) ==
  /\ Waiting(q)
  /\ query' = [query EXCEPT ![q] = Quiet]
  /\ pend' = [pend EXCEPT ![query[q].num] = None]
  /\ UNCHANGED <<next, flight, reused>>

-----------------------------------------------------------------------------
\* GetPeers, by the peer loop of a torrent.
StartSearch(s) ==
  /\ search[s].at = "idle"
  /\ search' = [search EXCEPT ![s] = [Off EXCEPT !.at = "test", !.frontier = Bootstrap]]
  /\ UNCHANGED <<clientVars, announce>>

Some(nodes) == kSubset(IF Cardinality(nodes) < K THEN Cardinality(nodes) ELSE K, nodes)

BeginRound(s) ==
  /\ search[s].at = "test" /\ search[s].rounds < MaxRounds
  /\ \E chosen \in Some(search[s].frontier) :
       query' = [q \in Queries |-> IF q[1] = s /\ q[2] \in chosen
                                   THEN [Quiet EXCEPT !.at = "ready"] ELSE query[q]]
  /\ search' = [search EXCEPT ![s].at = "round", ![s].heard = {}]
  /\ UNCHANGED <<next, pend, flight, reused, announce>>

\* After the last round, or 8 seconds.
EndSearch(s) ==
  /\ search[s].at = "test" /\ search[s].rounds > 0
  /\ search' = [search EXCEPT ![s] = Off]
  /\ UNCHANGED <<clientVars, announce>>

SearchAsk(s, n) ==
  /\ query[<<s, n>>].at = "ready" /\ Enter(<<s, n>>)
  /\ UNCHANGED <<search, announce>>

SearchReturn(s, n) ==
  /\ s \in Searches /\ Return(<<s, n>>)
  /\ \E r \in Results(<<s, n>>) :
       search' = [search EXCEPT ![s].found = @ \/ r.peers, ![s].heard = @ \union r.nodes]
  /\ UNCHANGED announce

\* wg.Wait is over: the peers that were found, or another round.
EndRound(s) ==
  /\ search[s].at = "round" /\ \A n \in Nodes : query[<<s, n>>].at = "quiet"
  /\ search' = [search EXCEPT ![s] =
       IF search[s].found THEN Off
       ELSE [search[s] EXCEPT !.at = "test", !.rounds = search[s].rounds + 1,
                              !.frontier = search[s].heard, !.heard = {}]]
  /\ UNCHANGED <<clientVars, announce>>

-----------------------------------------------------------------------------
\* Announce: every bootstrap node is asked, and the nodes it names.
StartAnnounce(a) ==
  /\ announce[a].at = "idle"
  /\ announce' = [announce EXCEPT ![a] = [Still EXCEPT !.at = "boot", !.todo = Bootstrap]]
  /\ UNCHANGED <<clientVars, search>>

Due(a) == IF announce[a].at = "probe" THEN announce[a].probes ELSE announce[a].todo

AnnounceAsk(a) ==
  /\ announce[a].at # "idle" /\ \A n \in Nodes : ~Waiting(<<a, n>>)
  /\ \E n \in Due(a) : Enter(<<a, n>>)
  /\ UNCHANGED <<search, announce>>

\* A token is kept under the address it came from.
Tokens(a, n, r) == IF r.token THEN [announce[a].targets EXCEPT ![n] = r.from]
                   ELSE announce[a].targets

\* A bootstrap node: its token, unless it names nodes to probe for theirs.
BootReturn(a, n) ==
  /\ announce[a].at = "boot" /\ Return(<<a, n>>)
  /\ \E r \in Results(<<a, n>>) : \E probes \in Some(r.nodes) :
       announce' = [announce EXCEPT ![a] =
         [at |-> IF probes = {} THEN "boot" ELSE "probe",
          todo |-> announce[a].todo \ {n}, probes |-> probes,
          targets |-> IF probes = {} THEN Tokens(a, n, r) ELSE announce[a].targets]]
  /\ UNCHANGED search

ProbeReturn(a, n) ==
  /\ announce[a].at = "probe" /\ Return(<<a, n>>)
  /\ \E r \in Results(<<a, n>>) :
       announce' = [announce EXCEPT ![a] =
         [at |-> IF announce[a].probes = {n} THEN "boot" ELSE "probe",
          todo |-> announce[a].todo, probes |-> announce[a].probes \ {n},
          targets |-> Tokens(a, n, r)]]
  /\ UNCHANGED search

\* All are asked: announce_peer goes to some of those that gave a token.
StartTell(a) ==
  /\ announce[a].at = "boot" /\ announce[a].todo = {}
  /\ \E told \in Some({n \in Nodes : announce[a].targets[n] # None}) :
       announce' = [announce EXCEPT ![a] =
         IF told = {} THEN Still ELSE [announce[a] EXCEPT !.at = "tell", !.todo = told]]
  /\ UNCHANGED <<clientVars, search>>

TellReturn(a, n) ==
  /\ announce[a].at = "tell" /\ Return(<<a, n>>)
  /\ announce' = [announce EXCEPT ![a] =
       IF announce[a].todo = {n} THEN Still
       ELSE [announce[a] EXCEPT !.todo = announce[a].todo \ {n}]]
  /\ UNCHANGED search

-----------------------------------------------------------------------------
SearchStep(s)   == BeginRound(s) \/ EndSearch(s) \/ EndRound(s)
AskStep(s, n)   == SearchAsk(s, n) \/ SearchReturn(s, n)
AnnounceStep(a) ==
  \/ AnnounceAsk(a) \/ StartTell(a)
  \/ \E n \in Nodes : BootReturn(a, n) \/ ProbeReturn(a, n) \/ TellReturn(a, n)

Next ==
  \/ \E m \in flight : Receive(m)
  \/ \E n \in Numbers : ReceiveOther(n)
  \/ \E s \in Searches : StartSearch(s) \/ SearchStep(s)
                           \/ \E n \in Nodes : AskStep(s, n)
  \/ \E a \in Announcers : StartAnnounce(a) \/ AnnounceStep(a)

Spec == Init /\ [][Next]_vars

\* Every goroutine runs; no datagram need arrive.
Fairness ==
  /\ \A s \in Searches : WF_vars(SearchStep(s)) /\ \A n \in Nodes : WF_vars(AskStep(s, n))
  /\ \A a \in Announcers : WF_vars(AnnounceStep(a))

LiveSpec == Spec /\ Fairness

-----------------------------------------------------------------------------
\* A node is announced to with the token that it gave itself, however late and
\* often answers come, as long as no number is taken that an earlier query or
\* an answer on its way still has (readLoop, dht.go:71).
TokensAreOwn ==
  ~reused => \A a \in Announcers, n \in Nodes : announce[a].targets[n] \in {n, None}

\* The table lists exactly the queries that wait without an answer, so none is
\* forgotten, and readLoop never blocks at a channel that is full or stays
\* behind for a query that is over (query, dht.go:123).
PendingAreWaiting ==
  ~reused =>
    /\ \A q \in Queries : Waiting(q) /\ query[q].got = {} => pend[query[q].num] = q
    /\ \A n \in Numbers : pend[n] # None =>
         /\ Waiting(pend[n]) /\ query[pend[n]].num = n /\ query[pend[n]].got = {}

\* Searches and announcements end whatever is lost, every answer if readLoop has
\* given up, and whatever numbers were mixed up.
LookupsEnd ==
  /\ \A s \in Searches   : search[s].at # "idle" ~> search[s].at = "idle"
  /\ \A a \in Announcers : announce[a].at # "idle" ~> announce[a].at = "idle"
=============================================================================
