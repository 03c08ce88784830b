---------------------------- MODULE EventFilter ----------------------------
(***************************************************************************)
(* The event filter of starknet_getEvents (client/rpc/src/events): which   *)
(* events of a range of blocks a page has, and the continuation token the  *)
(* page ends with.  An event is a record with an address "from" and a      *)
(* sequence "keys"; a filter has an address or Nothing, a sequence "keys"  *)
(* of sets of keys, "from_block", "to_block" and "chunk_size".             *)
(***************************************************************************)
EXTENDS Integers, Sequences, SequencesExt

CONSTANTS Nothing,
          Width       \* number of bits of usize

Token(block_n, event_n) == [block_n |-> block_n, event_n |-> event_n]

\* ContinuationToken::default.
DefaultToken == Token(0, 0)

Matches(event, filter) ==
  /\ filter.address \in {Nothing, event.from}
  /\ \A i \in DOMAIN filter.keys :
       i \in DOMAIN event.keys /\ (filter.keys[i] = {} \/ event.keys[i] \in filter.keys[i])

\* Mutation: n_visited counts the results, not the events.
filter_events_by_params_Results(events, filter, max_results) ==
  LET hits == SelectSeq([i \in DOMAIN events |-> i], LAMBDA i : Matches(events[i], filter))
      n == IF max_results = 0 THEN 1 ELSE max_results
      kept == IF Len(hits) < n THEN hits ELSE SubSeq(hits, 1, n)
  IN [events |-> [k \in DOMAIN kept |-> events[kept[k]]], n_visited |-> Len(kept)]

\* An event is pushed before the length is compared with max_results.
filter_events_by_params(events, filter, max_results) ==
  LET hits == SelectSeq([i \in DOMAIN events |-> i], LAMBDA i : Matches(events[i], filter))
      n == IF max_results = 0 THEN 1 ELSE max_results
      kept == IF Len(hits) < n THEN hits ELSE SubSeq(hits, 1, n)
  IN [events |-> [k \in DOMAIN kept |-> events[kept[k]]],
      n_visited |-> IF Len(hits) < n THEN Len(events) ELSE Last(kept)]

Page(events, token) == [events |-> events, token |-> token]

\* One round of the loop of filter_events: block "current_block" is added to
\* the page.  get_block_events[n] is the sequence of events of block n or an
\* error; "page" has the result once the loop has returned.
filter_block(loop, current_block, filter, token, get_block_events) ==
  LET from_block == filter.from_block + token.block_n
      emitted == get_block_events[current_block]
      skipped == IF current_block = from_block THEN token.event_n ELSE 0
      unchecked_events == Len(emitted.ok) - skipped
      found == filter_events_by_params(
                 SubSeq(emitted.ok, skipped + 1, Len(emitted.ok)), filter,
                 (filter.chunk_size - Len(loop.events)) % 2^Width)
      events == loop.events \o found.events
      more == current_block < filter.to_block \/ found.n_visited < unchecked_events
      event_n == found.n_visited
                   + (IF token.block_n = current_block THEN token.event_n ELSE 0)
  IN CASE loop.page # Nothing -> loop
       [] loop.page = Nothing /\ "error" \in DOMAIN emitted -> [loop EXCEPT !.page = emitted]
       [] loop.page = Nothing /\ "ok" \in DOMAIN emitted /\ unchecked_events < 0 ->
            [loop EXCEPT !.page = [error |-> "InvalidContinuationToken"]]
       [] OTHER ->
            [events |-> events,
             page |-> IF Len(events) # filter.chunk_size THEN Nothing
                      ELSE Page(events, IF more THEN Token(current_block - from_block, event_n)
                                        ELSE Nothing)]

filter_events(filter, token, get_block_events) ==
  LET from_block == filter.from_block + token.block_n
      blocks == [i \in 1 .. (filter.to_block - from_block + 1) |-> from_block + i - 1]
      loop == FoldLeft(LAMBDA l, n : filter_block(l, n, filter, token, get_block_events),
                       [events |-> <<>>, page |-> Nothing], blocks)
  IN IF loop.page = Nothing THEN Page(loop.events, Nothing) ELSE loop.page
=============================================================================
