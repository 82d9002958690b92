-------------------------------- MODULE EventFeed --------------------------------
(***************************************************************************)
(* What reading a run's events promises: one reader takes the published    *)
(* events in order, each at most once, and passes over an event only when  *)
(* it has expired.                                                         *)
(***************************************************************************)
EXTENDS Naturals, Sequences

CONSTANT Kinds       \* kinds of events

VARIABLES
    published,   \* kinds of the events published so far
    expired,     \* the first so many events are no longer kept
    taken        \* positions of the events taken

feed == <<published, expired, taken>>

LastTaken == IF taken = <<>> THEN 0 ELSE taken[Len(taken)]

FeedInit == published = <<>> /\ expired = 0 /\ taken = <<>>

FeedPublish ==
    /\ \E kind \in Kinds : published' = Append(published, kind)
    /\ UNCHANGED <<expired, taken>>

FeedExpire ==
    /\ expired' = Len(published)
    /\ UNCHANGED <<published, taken>>

FeedTake ==
    /\ \E n \in 1..Len(published) :
          /\ n > LastTaken
          /\ n - 1 > LastTaken => n - 1 <= expired
          /\ taken' = Append(taken, n)
    /\ UNCHANGED <<published, expired>>

FeedNext == FeedPublish \/ FeedExpire \/ FeedTake

FeedSpec == FeedInit /\ [][FeedNext]_feed
=============================================================================
