---------------------------- MODULE MCMatcherQueue ----------------------------
EXTENDS MatcherQueue, TLC

MCShift == 0 :> 0 @@ 1 :> 1

\* Three books and four orders that come in one order; the journal is never behind,
\* the timer's thread sees startInMemOffset as it is; no book and no write fails.
MCShiftOfThree == 0 :> 0 @@ 1 :> 0 @@ 2 :> 0
MCOrders == <<2, 0, 1, 0>>
MCOrdersNext ==
  /\ MatcherNext
  /\ IsPrefix(log', MCOrders)
  /\ toJournal # <<>> => toJournal' = <<>> /\ orphans' = orphans
  /\ Len(events') > Len(events) => seenStart' = startInMem
  /\ faults'["failure"] = 0 /\ faults'["write"] = 0
MCOrdersSpec == MatcherInit /\ [][MCOrdersNext]_matcherVars
=============================================================================
