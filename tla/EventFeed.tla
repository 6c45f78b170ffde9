------------------------------ MODULE EventFeed ------------------------------
(***************************************************************************)
(* What the event stream of a canvas promises a browser tab: numbered      *)
(* events are published once and for all, and each load of the page shows  *)
(* them one by one from the first, with no gap and no repetition.          *)
(***************************************************************************)
EXTENDS Naturals

VARIABLES
  published,  \* the events, each with its sequence number
  shown       \* how many of them the page has applied

feedVars == <<published, shown>>

FeedInit == published = {} /\ shown = 0

Numbers(S) == {e.sequence : e \in S}

Publish ==
  /\ published \subseteq published'
  /\ \A e \in published' \ published : \A old \in published :
       e.sequence > old.sequence
  /\ UNCHANGED shown

Show ==
  /\ shown + 1 \in Numbers(published)
  /\ shown' = shown + 1
  /\ UNCHANGED published

ReloadPage == shown' = 0 /\ UNCHANGED published

FeedNext == Publish \/ Show \/ ReloadPage

FeedSpec == FeedInit /\ [][FeedNext]_feedVars

==============================================================================
