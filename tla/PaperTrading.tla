------------------------------ MODULE PaperTrading ------------------------------
(***************************************************************************)
(* Paper positions: the bot loop drains the launches, buys, ticks and      *)
(* sells on paper, and keeps each position in three rows, its token, its   *)
(* trade and its session, that are three commits (core/paper_trader.py,    *)
(* core/state.py, main.py's drain_launch_queue).                           *)
(*                                                                         *)
(* Tokens are numbered in the order of their detection.  Prices, fees and  *)
(* scores are left out: whether the strategy wants a token, whether its    *)
(* simulated fill succeeds and whether an exit condition holds are         *)
(* inputs.  The drain, the tick and the recovery do not yield between      *)
(* their writes; any write may raise (the grading worker holds the         *)
(* database's lock too long), and the process may stop.                    *)
(***************************************************************************)
EXTENDS Naturals, Sequences, FiniteSets, FiniteSetsExt, SequencesExt

CONSTANTS
    Launches,             \* launches detected
    DequeSize,            \* 80, the length of the deque of tokens
    MaxPositions,         \* max_open_positions
    MaxTicks,             \* max_position_ticks
    HoldTicks,            \* bound: ticks within minimum_hold_time_seconds
    FillDelay,            \* paper_fill_delay_ticks
    MaxPaperFaults        \* bound

ASSUME PaperAssumption ==
    /\ {Launches, DequeSize, MaxPositions, MaxTicks} \subseteq Nat \ {0}
    /\ {HoldTicks, FillDelay, MaxPaperFaults} \subseteq Nat
    /\ MaxPositions < DequeSize

VARIABLES
    tokens,               \* the deque, newest first
    store,                \* the tables tokens, trades and trade_sessions
    loop,                 \* where the bot loop stands
    todo,                 \* what tick still has to visit
    batch,                \* batch_open_token_ids of this drain
    seen,                 \* launches so far
    cut,                  \* history: tokens a write of which was cut short
    paper_faults

paperVars == <<tokens, store, loop, todo, batch, seen, cut, paper_faults>>

Ids == 1..Launches
OpenStatuses == {"buying", "paper_bought", "monitoring"}
LastTick == MaxTicks + HoldTicks
Tokens == [id: Ids, status: OpenStatuses \cup {"none", "paper_sold", "skipped"},
           ticks: 0..LastTick, delay: 0..FillDelay]
Blank(i) == [id |-> i, status |-> "none", ticks |-> 0, delay |-> 0]
IsOpen(o) == o.status \in OpenStatuses
Rows == {store.tokens[i] : i \in Ids} \ {Blank(i) : i \in Ids}
OpenRows == {o \in Rows : IsOpen(o)}
Numbers(S) == {o.id : o \in S}
OnDeque == ToSet(tokens)
NoBatch == [on |-> FALSE, ids |-> {}]

PaperTypeOK ==
    /\ tokens \in Seq(Tokens)
    /\ Len(tokens) <= Max({DequeSize, MaxPositions + Cardinality(cut)})
    /\ Cardinality(Numbers(OnDeque)) = Len(tokens)
    /\ DOMAIN store = {"tokens", "trades", "sessions"}
    /\ store.tokens \in [Ids -> Tokens]
    /\ {store.trades, store.sessions} \subseteq [Ids -> {"none", "open", "closed"}]
    /\ loop \in {"idle", "drain", "tick", "dead"}
    /\ todo \in Seq(Ids) /\ (todo # <<>> => loop = "tick")
    /\ batch \in [on: BOOLEAN, ids: SUBSET Ids] /\ (batch.on => loop = "drain")
    /\ seen \in 0..Launches
    /\ cut \subseteq 1..seen
    /\ paper_faults \in 0..MaxPaperFaults

PaperInit ==
    /\ tokens = <<>>
    /\ store = [tokens |-> [i \in Ids |-> Blank(i)], trades |-> [i \in Ids |-> "none"],
                sessions |-> [i \in Ids |-> "none"]]
    /\ loop = "idle" /\ todo = <<>> /\ batch = NoBatch
    /\ seen = 0 /\ cut = {} /\ paper_faults = 0

-----------------------------------------------------------------------------
(* The rows and the deque *)

Row(table, o) ==
    [table |-> table, id |-> o.id,
     row |-> IF table = "tokens" THEN o ELSE IF IsOpen(o) THEN "open" ELSE "closed"]
TokenRow(o) == <<Row("tokens", o)>>
TradeRows(o) == <<Row("trades", o), Row("sessions", o)>>

\* The first n writes are committed; the next one, if there is one, raises.  No
\* handler writes a row twice.
Writes(ws, n) ==
    /\ n \in 0..Len(ws)
    /\ store' = [table \in DOMAIN store |-> [i \in Ids |->
          LET rows == {ws[k].row : k \in {k \in 1..n : ws[k].table = table /\ ws[k].id = i}}
          IN  IF rows = {} THEN store[table][i] ELSE CHOOSE row \in rows : TRUE]]
    /\ cut' = cut \cup {ws[k].id : k \in (n + 1)..Len(ws)}
    /\ paper_faults' = paper_faults + (IF n < Len(ws) THEN 1 ELSE 0)
    /\ paper_faults' <= MaxPaperFaults

Newest(S) ==
    CHOOSE s \in [1..Cardinality(S) -> S] : \A j, k \in DOMAIN s : j < k => s[j].id > s[k].id
First(s, n) == SubSeq(s, 1, Min({n, Len(s)}))
\* deque(s, maxlen=80) keeps the end of s.
AsDeque(s) == SubSeq(s, Max({1, Len(s) - DequeSize + 1}), Len(s))

\* Mutant: the deque is taken to hold every position.
NeverLoaded(deque) == deque
\* _ensure_active_tokens_loaded: positions that fell off the deque come back
\* from their rows, and stand before the rest.
Loaded(deque) ==
    LET merged == ToSet(deque) \cup {o \in OpenRows : o.id \notin Numbers(ToSet(deque))}
        active == {o \in merged : o.id \in Numbers(OpenRows)}
    IN  IF OpenRows = {} THEN deque
        ELSE Newest(active) \o First(Newest(merged \ active), DequeSize - Cardinality(active))

\* appendleft: what was loaded for more positions than fit in may stay as long.
Appended(o, deque) == First(<<o>> \o deque, Max({DequeSize, Len(deque)}))

Replace(deque, S) ==
    [k \in DOMAIN deque |->
        IF deque[k].id \in Numbers(S) THEN CHOOSE o \in S : o.id = deque[k].id ELSE deque[k]]

Sold(o) == [o EXCEPT !.status = "paper_sold"]

-----------------------------------------------------------------------------
(* The drain *)

drain_begins ==
    /\ loop = "idle"
    /\ loop' = "drain" /\ batch' = NoBatch
    /\ UNCHANGED <<tokens, store, todo, seen, cut, paper_faults>>

\* What counts as open for the next launch of this drain.
OpenForBatch == IF batch.on THEN batch.ids ELSE Numbers(OpenRows)
DequeForBatch == IF batch.on THEN tokens ELSE Loaded(tokens)

\* Mutant: the set stays what it was at the drain's first launch.
AsAtStart(open, o) == open
\* _update_batch_open_context
Counted(open, o) == IF IsOpen(o) THEN open \cup {o.id} ELSE open \ {o.id}

Bought(i) ==
    [Blank(i) EXCEPT !.status = IF FillDelay > 0 THEN "buying" ELSE "paper_bought",
                     !.delay = FillDelay]

\* The session guards and the strategy's verdict other than the position cap
\* are in "wanted", the simulated fill in "fills".  The trade and its session
\* are saved before the token enters the deque, its row after.
ingest_launch(wanted, fills, n) ==
    /\ loop = "drain" /\ seen < Launches
    /\ LET i == seen + 1
           allowed == wanted /\ Cardinality(OpenForBatch) < MaxPositions
           o == IF allowed /\ fills THEN Bought(i) ELSE [Blank(i) EXCEPT !.status = "skipped"]
           ws == (IF IsOpen(o) THEN TradeRows(o) ELSE <<>>) \o TokenRow(o)
       IN  /\ Writes(ws, n)
           /\ tokens' = IF n + 1 >= Len(ws) THEN Appended(o, DequeForBatch) ELSE DequeForBatch
           /\ IF n = Len(ws)
              THEN loop' = loop /\ batch' = [on |-> TRUE, ids |-> Counted(OpenForBatch, o)]
              ELSE loop' = "idle" /\ batch' = NoBatch
    /\ seen' = seen + 1
    /\ UNCHANGED todo

\* An observed trade of the token, accepted or rejected, saves the token.
apply_observed_trade(n) ==
    /\ loop = "drain"
    /\ \E o \in ToSet(DequeForBatch) :
          /\ IsOpen(o)
          /\ Writes(TokenRow(o), n)
          /\ tokens' = DequeForBatch
          /\ IF n = 1 THEN UNCHANGED <<loop, batch>> ELSE loop' = "idle" /\ batch' = NoBatch
    /\ UNCHANGED <<todo, seen>>

drain_is_over ==
    /\ loop = "drain"
    /\ loop' = "tick" /\ batch' = NoBatch
    /\ \E deque \in {Loaded(tokens)} :
          /\ tokens' = deque
          /\ todo' = [k \in DOMAIN deque |-> deque[k].id]
    /\ UNCHANGED <<store, seen, cut, paper_faults>>

-----------------------------------------------------------------------------
(* The tick *)

\* PaperTrader.tick: a delayed fill comes first.  While the position is "held",
\* for minimum_hold_time_seconds, no exit condition is looked at, nor
\* max_position_ticks.  "closes" is an exit condition or, at any time, the guard
\* on rejected prices.
Ticked(o, closes, held) ==
    IF closes THEN Sold(o)
    ELSE IF o.status = "buying" /\ o.delay > 0
    THEN [o EXCEPT !.delay = @ - 1, !.status = IF o.delay = 1 THEN "paper_bought" ELSE @]
    ELSE IF ~held /\ o.ticks + 1 >= MaxTicks THEN Sold(o)
    ELSE [o EXCEPT !.ticks = @ + 1, !.status = "monitoring"]

\* A token that is not open is only saved, and only if its row differs.
tick(closes, held, n) ==
    /\ loop = "tick" /\ todo # <<>>
    /\ \E o \in OnDeque :
          /\ o.id = Head(todo)
          /\ closes => IsOpen(o)
          /\ held => o.ticks < HoldTicks
          /\ \E p \in {IF IsOpen(o) THEN Ticked(o, closes, held) ELSE o} :
                LET ws == IF ~IsOpen(o) /\ store.tokens[o.id] = o THEN <<>>
                          ELSE TokenRow(p) \o (IF IsOpen(o) /\ ~IsOpen(p) THEN TradeRows(p) ELSE <<>>)
                IN  /\ Writes(ws, n)
                    /\ tokens' = Replace(tokens, {p})
                    /\ IF n = Len(ws) THEN loop' = loop /\ todo' = Tail(todo)
                       ELSE loop' = "idle" /\ todo' = <<>>
    /\ UNCHANGED <<batch, seen>>

\* recalculate_stats loads the positions once more.
tick_is_over ==
    /\ loop = "tick" /\ todo = <<>>
    /\ loop' = "idle"
    /\ tokens' = Loaded(tokens)
    /\ UNCHANGED <<store, todo, batch, seen, cut, paper_faults>>

-----------------------------------------------------------------------------
(* Recovery, by the operator and at the start *)

\* One position after the other is sold, and its row in each of the tables saved.
SoldInTurn(order, tables) ==
    [k \in 1..(3 * Len(order)) |->
        Row(tables[1 + ((k + 2) % 3)], Sold(order[(k + 2) \div 3]))]
RecoveredTables == <<"tokens", "trades", "sessions">>

\* A request: it runs while the loop awaits.
recover_open_paper_positions(n) ==
    /\ loop \in {"idle", "drain"}
    /\ LET all == OnDeque \cup {o \in Rows : o.id \notin Numbers(OnDeque)}
           open == {o \in all : IsOpen(o)}
           kept == {o \in open : o.id \in Numbers(Rows)}
           order == Newest(kept) \o Newest(open \ kept)
           ws == SoldInTurn(order, RecoveredTables)
           handled == IF n = Len(ws) THEN open ELSE ToSet(SubSeq(order, 1, n \div 3 + 1))
           after == {o \in all : o \notin handled} \cup {Sold(o) : o \in handled}
       IN  /\ open # {}
           /\ Writes(ws, n)
           /\ tokens' = IF n = Len(ws) THEN AsDeque(Newest(after)) ELSE Replace(tokens, after)
    /\ UNCHANGED <<loop, todo, batch, seen>>

PaperStops ==
    /\ loop # "dead"
    /\ paper_faults < MaxPaperFaults
    /\ paper_faults' = paper_faults + 1
    /\ loop' = "dead" /\ todo' = <<>> /\ batch' = NoBatch /\ tokens' = <<>>
    /\ UNCHANGED <<store, seen, cut>>

Recent == First(Newest(Rows), DequeSize)
\* _hydrate_active_tokens
Hydrated ==
    AsDeque(Newest(OpenRows \cup
        ToSet(First(Newest({o \in ToSet(Recent) : ~IsOpen(o)}), DequeSize - Cardinality(OpenRows)))))

OrphanTables == <<"trades", "sessions", "tokens">>
\* _recover_orphaned_open_tokens: positions that are not among the recent
\* tokens are closed.  A start that raises is repeated.
PaperStarts(n) ==
    /\ loop = "dead"
    /\ \E deque \in {Hydrated}, recent \in {ToSet(Recent)} :
          LET orphans == Newest({o \in ToSet(deque) : IsOpen(o) /\ o \notin recent})
              ws == SoldInTurn(orphans, OrphanTables)
          IN  /\ Writes(ws, n)
              /\ IF n = Len(ws)
                 THEN loop' = "idle" /\ tokens' = Replace(deque, {Sold(o) : o \in ToSet(orphans)})
                 ELSE UNCHANGED <<loop, tokens>>
    /\ UNCHANGED <<todo, batch, seen>>

-----------------------------------------------------------------------------
PaperNext ==
    \/ drain_begins \/ drain_is_over \/ tick_is_over \/ PaperStops
    \/ \E wanted, fills \in BOOLEAN, n \in 0..3 : ingest_launch(wanted, fills, n)
    \/ \E n \in 0..1 : apply_observed_trade(n)
    \/ \E closes, held \in BOOLEAN, n \in 0..3 : tick(closes, held, n)
    \/ \E n \in 0..(3 * Launches) : recover_open_paper_positions(n) \/ PaperStarts(n)

PaperSpec == PaperInit /\ [][PaperNext]_paperVars

-----------------------------------------------------------------------------
(* Properties *)

\* A drain counts its positions once and keeps the count by itself, while
\* positions fall off the deque and come back and the operator closes some: yet
\* there are never more of them than max_open_positions, save those whose row
\* was not written when they were bought.
PositionsWithinCap ==
    Cardinality(Numbers({o \in OpenRows \cup OnDeque : IsOpen(o)}) \ cut) <= MaxPositions

\* A position's trade and session are open as long as its token is, and closed
\* when it is sold, whichever of the tick, the operator's recovery and the
\* start closed it, save where one of its writes was cut short.
RowsAgree ==
    \A i \in Ids \ cut :
        LET o == store.tokens[i]
            expected == IF IsOpen(o) THEN "open"
                        ELSE IF o.status = "paper_sold" THEN "closed" ELSE "none"
        IN  store.trades[i] = expected /\ store.sessions[i] = expected

\* How far a position has come: through its fill, its ticks and its sale.
Progress(o) ==
    IF o.status = "paper_sold" THEN FillDelay + LastTick + 2
    ELSE IF o.status = "none" THEN 0
    ELSE 1 + (FillDelay - o.delay) + o.ticks

\* A position's row never goes back, whatever older copy of it the deque holds
\* and whichever of its writes were lost: what was sold stays sold, and no tick
\* is taken twice.  A tick that is through has moved its position's row on.
PositionsProgress ==
    [][/\ \A i \in Ids : Progress(store.tokens[i]) <= Progress(store'.tokens[i])
       /\ todo # <<>> /\ todo' = Tail(todo) /\ loop' = "tick" =>
             \A o \in OnDeque : o.id = Head(todo) /\ IsOpen(o) =>
                Progress(store.tokens[o.id]) < Progress(store'.tokens[o.id])]_paperVars

\* Every position the database holds is sold some day: the loop ticks all of
\* them, the ones that fell off the deque too, and each tick counts towards
\* max_position_ticks, which is looked at once the minimum hold is over.
EveryPositionEnds == \A i \in Ids : IsOpen(store.tokens[i]) ~> ~IsOpen(store.tokens[i])

\* The paper positions keep to their number, their rows agree on which of them
\* are open, and a position only goes on, to its sale and no further
\* (drain_launch_queue, ingest_launch, tick, recover_open_paper_positions).
PositionsAreSound == [](PositionsWithinCap /\ RowsAgree) /\ PositionsProgress
=============================================================================
