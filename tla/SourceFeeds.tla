----------------------------- MODULE SourceFeeds -----------------------------
(***************************************************************************)
(* PumpPortal's paid trade stream: which mints the backend keeps, which    *)
(* ones the server streams, and what the trades and the funding messages   *)
(* that come down say of the access (core/sources.py, core/state.py).      *)
(*                                                                         *)
(* Mints are numbered in the order of their launches.  The stream's book   *)
(* of subscriptions, a deque and a set, belongs to one coroutine, which    *)
(* yields at every send: a send that fails leaves the book as it is and    *)
(* drops the connection.  The launch stream is its queue of mints; prices, *)
(* the counters of the status and the length of the backoff are left out.  *)
(***************************************************************************)
EXTENDS Naturals, Sequences, FiniteSets, SequencesExt

CONSTANTS
    Launched,             \* mints ever launched
    Caps,                 \* settings of max_trade_subscriptions; 0 runs no trade stream
    Backlog,              \* size of the subscription queue, four per subscription
    MaxChoices, MaxCuts, MaxMisses, MaxFeedRestarts       \* bounds

ASSUME FeedsAssumption ==
    /\ {Launched, Backlog} \cup Caps \subseteq Nat \ {0}
    /\ {MaxChoices, MaxCuts, MaxMisses, MaxFeedRestarts} \subseteq Nat

VARIABLES
    max_trade_subscriptions,
    launches,             \* so far
    subscription_queue,
    chosen,               \* the first active candidate's mint, or 0
    book,                 \* [mints, lookup, active]: what the stream keeps
    stream,               \* where _run_trade_stream stands
    server,               \* the mints the server streams to this connection
    hand,                 \* the event about to enter the launch queue
    access,               \* [blocked, row, latest]: flag, last evidence row, the newer one
    told,                 \* history: the last event processed, "trade" is a priced one
    torn,                 \* history: a connection was lost between a removal's steps,
                          \* or between a candidate's removal and the next one's name
    feed_counts

feedVars == <<max_trade_subscriptions, launches, subscription_queue, chosen, book, stream,
              server, hand, access, told, torn, feed_counts>>

FeedMints == 1..Launched
Events == {"none", "funding", "trade", "unpriced"}
NoBook == [mints |-> <<>>, lookup |-> {}, active |-> 0]
\* main.py asks for it whenever there is one subscription to spend; that one
\* subscription never rotates among launches, so its 600 seconds do not matter.
CandidatesOnly == max_trade_subscriptions = 1

FeedsTypeOK ==
    /\ max_trade_subscriptions \in Caps
    /\ launches \in 0..Launched
    /\ subscription_queue \in Seq(FeedMints) /\ Len(subscription_queue) <= Backlog
    /\ chosen \in 0..launches
    /\ book.mints \in Seq(FeedMints) /\ book.lookup \subseteq FeedMints
    /\ book.active \in 0..launches
    /\ stream \in {"top", "first", "connecting", "connected", "putting", "backoff"}
    /\ server \subseteq FeedMints /\ (server # {} => stream \in {"connected", "putting"})
    /\ hand \in Events /\ (hand # "none" <=> stream = "putting")
    /\ access \in [blocked: BOOLEAN, row: {"none", "funding_required", "ready"},
                   latest: {"none", "row", "price"}]
    /\ told \in Events /\ torn \in BOOLEAN
    /\ feed_counts \in [choices: 0..MaxChoices, cuts: 0..MaxCuts, misses: 0..MaxMisses,
                        restarts: 0..MaxFeedRestarts]

FeedsInit ==
    /\ max_trade_subscriptions \in Caps
    /\ launches = 0 /\ subscription_queue = <<>> /\ chosen = 0
    /\ book = NoBook /\ stream = "top" /\ server = {} /\ hand = "none"
    /\ access = [blocked |-> FALSE, row |-> "none", latest |-> "none"]
    /\ told = "none" /\ torn = FALSE
    /\ feed_counts = [choices |-> 0, cuts |-> 0, misses |-> 0, restarts |-> 0]

streamVars == <<book, stream, server, torn>>
accessVars == <<access, told>>

-----------------------------------------------------------------------------
(* Launches and candidates *)

\* A queue that is full loses its oldest mint.
_queue_trade_subscription ==
    /\ launches < Launched
    /\ launches' = launches + 1
    /\ subscription_queue' =
          Append(IF Len(subscription_queue) = Backlog THEN Tail(subscription_queue)
                 ELSE subscription_queue, launches + 1)
    /\ UNCHANGED <<max_trade_subscriptions, chosen, streamVars, hand, accessVars, feed_counts>>

\* The shadow candidates come and go; two in a row may be for the same mint.
candidate_changes(m) ==
    /\ m \in (0..launches) \ {chosen}
    /\ feed_counts.choices < MaxChoices
    /\ chosen' = m
    /\ feed_counts' = [feed_counts EXCEPT !.choices = @ + 1]
    /\ UNCHANGED <<max_trade_subscriptions, launches, subscription_queue, streamVars, hand, accessVars>>

-----------------------------------------------------------------------------
(* The book: a change is a sequence of steps, the sends among them *)

Do(what, m) == <<[do |-> what, mint |-> m]>>
Sends == {"unsubscribe", "subscribe"}

\* The book and the server after a step.
Done(s, step) ==
    CASE step.do = "remove"      -> [s EXCEPT !.mints = RemoveFirst(@, step.mint)]
      [] step.do = "discard"     -> [s EXCEPT !.lookup = @ \ {step.mint}]
      [] step.do = "unsubscribe" -> [s EXCEPT !.server = @ \ {step.mint}]
      [] step.do = "subscribe"   -> [s EXCEPT !.server = @ \cup {step.mint}]
      [] step.do = "append"      -> [s EXCEPT !.mints = Append(@, step.mint)]
      [] step.do = "add"         -> [s EXCEPT !.lookup = @ \cup {step.mint}]
      [] step.do = "prefer"      -> [s EXCEPT !.active = step.mint]
After(s, steps) == FoldLeft(Done, s, steps)
Sheet == [mints |-> book.mints, lookup |-> book.lookup, active |-> book.active, server |-> server]

Admits(m) == Do("subscribe", m) \o Do("append", m) \o Do("add", m)
\* Two of the four removals forget the mint only after they have told the server.
Drops(m) == Do("remove", m) \o Do("discard", m) \o Do("unsubscribe", m)
DropsLate(m) == Do("remove", m) \o Do("unsubscribe", m) \o Do("discard", m)
Full(s) == Len(s.mints) >= max_trade_subscriptions

\* A launched mint takes the place of the oldest one, but not of a candidate.
Launch(s, m) ==
    IF m \in s.lookup THEN <<>>
    ELSE (IF Full(s) THEN Drops(Head(s.mints)) ELSE <<>>) \o Admits(m)

\* Mutant: a candidate that follows another takes over its name alone.
NameOnly(s, m) == Do("prefer", m)
\* The oldest mint but the candidate's, or the oldest when there is no other.
OldestBut(mints, m) ==
    LET i == SelectInSeq(mints, LAMBDA o : o # m) IN mints[IF i = 0 THEN 1 ELSE i]

\* The candidate before goes, then, if the book is still full, the oldest other.
Prefer(s, m) ==
    LET gone == IF s.active \in s.lookup THEN Drops(s.active) ELSE <<>>
        left == After(s, gone)
        evicted == IF Full(left) THEN DropsLate(OldestBut(left.mints, s.active)) ELSE <<>>
    IN  gone \o evicted \o Admits(m) \o Do("prefer", m)

Over(s) == (IF s.active \in s.lookup THEN DropsLate(s.active) ELSE <<>>) \o Do("prefer", 0)

Preference(s, m) ==
    IF m = s.active THEN <<>> ELSE IF m = 0 THEN Over(s) ELSE Prefer(s, m)
\* deque.remove raises on a mint the lookup alone still has.
Raises(s, m) == m # s.active /\ s.active \in s.lookup /\ ~Contains(s.mints, s.active)

-----------------------------------------------------------------------------
(* _run_trade_stream *)

\* The top of the loop; a preference that cannot be read keeps the last one.
First(s, m) ==
    IF m \in s.lookup THEN <<>>
    ELSE (IF Full(s) THEN Do("remove", Head(s.mints)) \o Do("discard", Head(s.mints)) ELSE <<>>)
         \o Do("append", m) \o Do("add", m)

begin_connection(readable) ==
    /\ stream = "top"
    /\ \E m \in {IF readable THEN chosen ELSE book.active} :
          /\ ~(CandidatesOnly /\ m = 0 /\ book.active = 0)
          /\ IF m = 0 /\ book.mints = <<>>
             THEN stream' = "first" /\ UNCHANGED book
             ELSE LET first == IF m = 0 THEN Head(book.mints) ELSE m
                      s == After(Sheet, First(Sheet, first))
                  IN  /\ book' = [mints |-> s.mints, lookup |-> s.lookup,
                                  active |-> IF m = 0 THEN book.active ELSE m]
                      /\ stream' = "connecting"
    /\ UNCHANGED <<max_trade_subscriptions, launches, subscription_queue, chosen, server, hand, accessVars, torn, feed_counts>>

\* It waits for a launch, and does not look for a candidate meanwhile.
first_launch ==
    /\ stream = "first" /\ subscription_queue # <<>>
    /\ subscription_queue' = Tail(subscription_queue)
    /\ LET s == After(Sheet, First(Sheet, Head(subscription_queue)))
       IN  book' = [book EXCEPT !.mints = s.mints, !.lookup = s.lookup]
    /\ stream' = "connecting"
    /\ UNCHANGED <<max_trade_subscriptions, launches, chosen, server, hand, accessVars, torn, feed_counts>>

Cut == feed_counts.cuts < MaxCuts /\ feed_counts' = [feed_counts EXCEPT !.cuts = @ + 1]

\* Every mint of the deque is subscribed again.
connect(succeeds) ==
    /\ stream = "connecting"
    /\ IF succeeds
       THEN stream' = "connected" /\ server' = ToSet(book.mints) /\ UNCHANGED feed_counts
       ELSE stream' = "backoff" /\ Cut /\ UNCHANGED server
    /\ UNCHANGED <<max_trade_subscriptions, launches, subscription_queue, chosen, book, hand, accessVars, torn>>

\* Whether a round waits for launches, and one is there.
Listens ==
    /\ subscription_queue # <<>> /\ ~CandidatesOnly
    /\ ~(Full(book) /\ book.active # 0)

\* One round of asyncio.wait: a launch, the preference poll and a message may all
\* be there.  A poll that raises keeps the preference, and loses the message.
poll_or_receive(launch, poll, event) ==
    /\ stream = "connected"
    /\ <<launch, poll, event>> # <<FALSE, "none", "none">>
    /\ launch => Listens
    /\ event \in {"trade", "unpriced"} => server # {}
    /\ \E m \in {IF poll = "answers" THEN chosen ELSE book.active},
          launched \in {IF launch THEN Launch(Sheet, Head(subscription_queue)) ELSE <<>>} :
       \E middle \in {After(Sheet, launched)} :
       \E steps \in {launched \o (IF Raises(middle, m) THEN <<>> ELSE Preference(middle, m))} :
       LET \* a send fails, or none does
           Stops(k) ==
              LET s == After(Sheet, SubSeq(steps, 1, k - 1))
              IN  /\ book' = [mints |-> s.mints, lookup |-> s.lookup, active |-> s.active]
                  /\ server' = {} /\ stream' = "backoff" /\ hand' = "none"
                  /\ torn' = (torn \/ ~(s.lookup \subseteq ToSet(s.mints))
                                   \/ s.active \notin s.lookup \cup {0})
       IN  \/ /\ \E k \in DOMAIN steps : steps[k].do \in Sends /\ Stops(k)
              /\ Cut
           \/ /\ Raises(middle, m)
              /\ Stops(Len(steps) + 1)
              /\ UNCHANGED feed_counts
           \/ /\ ~Raises(middle, m)
              /\ LET s == After(Sheet, steps)
                 IN  /\ book' = [mints |-> s.mints, lookup |-> s.lookup, active |-> s.active]
                     /\ server' = s.server
              /\ hand' = IF poll = "raises" THEN "none" ELSE event
              /\ stream' = IF hand' = "none" THEN "connected" ELSE "putting"
              /\ UNCHANGED <<torn, feed_counts>>
    /\ subscription_queue' = IF launch THEN Tail(subscription_queue) ELSE subscription_queue
    /\ UNCHANGED <<max_trade_subscriptions, launches, chosen, accessVars>>

\* A message that is no JSON ends the connection as well.
connection_lost ==
    /\ stream = "connected"
    /\ Cut
    /\ stream' = "backoff" /\ server' = {}
    /\ UNCHANGED <<max_trade_subscriptions, launches, subscription_queue, chosen, book, hand, accessVars, torn>>

backoff_is_over ==
    /\ stream = "backoff"
    /\ stream' = "top"
    /\ UNCHANGED <<max_trade_subscriptions, launches, subscription_queue, chosen, book, server, hand, accessVars, torn, feed_counts>>

-----------------------------------------------------------------------------
(* What the bot loop makes of the events, in their order *)

Resumed(a, saved) ==
    IF ~a.blocked THEN a
    ELSE IF saved THEN [blocked |-> FALSE, row |-> "ready", latest |-> "row"]
    ELSE [a EXCEPT !.blocked = FALSE]
Unfunded(a, saved) ==
    IF a.blocked THEN a
    ELSE IF saved THEN [blocked |-> TRUE, row |-> "funding_required", latest |-> "row"]
    ELSE [a EXCEPT !.blocked = TRUE]

\* The flag is set before the row is written, and the write may raise.
ingest_source_event(saved) ==
    /\ stream = "putting"
    /\ ~saved => feed_counts.misses < MaxMisses /\ access.blocked # (hand = "funding")
    /\ feed_counts' = [feed_counts EXCEPT !.misses = IF saved THEN @ ELSE @ + 1]
    /\ access' =
          IF hand = "funding" THEN Unfunded(access, saved)
          ELSE IF hand = "trade" /\ saved THEN [Resumed(access, saved) EXCEPT !.latest = "price"]
          ELSE Resumed(access, saved)
    /\ told' = hand
    /\ stream' = "connected" /\ hand' = "none"
    /\ UNCHANGED <<max_trade_subscriptions, launches, subscription_queue, chosen, book, server, torn>>

\* genuine_source_evidence_report
access_state ==
    CASE access.latest = "price" -> "ready"
      [] access.latest = "row"   -> access.row
      [] OTHER -> IF access.blocked THEN "funding_required" ELSE "unknown"

\* The source task is replaced, for a new setting, after a failure or with the
\* whole backend; its status starts anew, the funding flag with it.
FeedsRestart(cap) ==
    /\ cap \in Caps /\ max_trade_subscriptions' = cap
    /\ feed_counts.restarts < MaxFeedRestarts
    /\ feed_counts' = [feed_counts EXCEPT !.restarts = @ + 1]
    /\ subscription_queue' = <<>> /\ book' = NoBook
    /\ stream' = "top" /\ server' = {} /\ hand' = "none"
    /\ access' = [access EXCEPT !.blocked = FALSE]
    /\ torn' = FALSE
    /\ UNCHANGED <<launches, chosen, told>>

FeedsNext ==
    \/ _queue_trade_subscription
    \/ \E m \in 0..Launched : candidate_changes(m)
    \/ \E readable \in BOOLEAN : begin_connection(readable)
    \/ first_launch
    \/ \E succeeds \in BOOLEAN : connect(succeeds)
    \/ \E launch \in BOOLEAN, poll \in {"none", "answers", "raises"}, event \in Events :
          poll_or_receive(launch, poll, event)
    \/ connection_lost \/ backoff_is_over
    \/ \E saved \in BOOLEAN : ingest_source_event(saved)
    \/ \E cap \in Caps : FeedsRestart(cap)

FeedsSpec == FeedsInit /\ [][FeedsNext]_feedVars

-----------------------------------------------------------------------------
(* Properties *)

\* The server never streams more than the paid subscriptions, nor a mint that
\* the book has lost sight of, through evictions, reconnections and candidates
\* that follow one another ("never exceed max_trade_subscriptions").
PaidWithinCap ==
    /\ Len(book.mints) <= max_trade_subscriptions
    /\ server \subseteq ToSet(book.mints)

\* While connected the candidate the stream prefers is streamed, whichever way it
\* was preferred: unless a connection once broke inside a change of candidate,
\* after which the book takes a mint for subscribed that is not.
PreferredIsStreamed ==
    stream \in {"connected", "putting"} /\ book.active # 0 /\ ~torn => book.active \in server

\* With one subscription to spend, no launch that is not a candidate is paid for.
CandidatesOnlyPays ==
    [][CandidatesOnly /\ ~torn => server' \subseteq server \cup {book'.active}]_feedVars

\* What the evidence report says of the paid access is what the last message
\* said, in whatever order funding messages, trades and restarts came, unless a
\* row could not be written.
AccessIsTold ==
    feed_counts.misses = 0 =>
        /\ told = "funding" => access_state = "funding_required"
        /\ told = "trade" => access_state = "ready"

\* The paid stream keeps to its subscriptions, streams the candidate it prefers,
\* pays for nothing else when it has one only, and its access is told as it is
\* (_run_trade_stream, ingest_source_event).
FeedHolds ==
    /\ [](PaidWithinCap /\ PreferredIsStreamed /\ AccessIsTold)
    /\ CandidatesOnlyPays
=============================================================================
