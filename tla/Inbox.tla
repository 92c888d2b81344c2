-------------------------------- MODULE Inbox --------------------------------
(***************************************************************************)
(* A client that walks through the inbox page by page, while requests of   *)
(* module Conversations write to the rows it walks over.  The inbox is     *)
(* sorted by lastMessageAt, newest first, then by createdAt, so a message  *)
(* moves its conversation, and the cursor is the id of a conversation that *)
(* may have moved, or gone, by the time the next page is asked for.        *)
(***************************************************************************)
EXTENDS Races

CONSTANTS
  Take,    \* min(take ?? 20, 100)
  Filters  \* the status filters of the query; Undefined is none

ASSUME InboxAssumption ==
  /\ Take \in Nat \ {0}
  /\ Filters \subseteq Statuses \union {Undefined}
  /\ IsFiniteSet(Convs)

INSTANCE Pages

VARIABLES
  above,  \* the order of the inbox query, of deleted conversations too: the pairs
          \* of one that sorts above the other
  walk    \* the client's walk

inboxVars == <<raceVars, above, walk>>

\* shown and again are the rows of calm the pages have held, once and once more.
NoWalk == [at |-> "idle", org |-> None, filter |-> Undefined, cursor |-> None,
           calm |-> {}, shown |-> {}, again |-> {}, written |-> FALSE, passed |-> FALSE]

InitInbox == InitRaces /\ above = {} /\ walk = NoWalk

-----------------------------------------------------------------------------
(* The client.                                                             *)

\* The where clause of ConversationsRepository.search.
Listed(org, filter, c) == FindConversation(org, c) /\ filter \in {Undefined, conv[c].status}

\* The first page is asked for; calm are the rows the walk is about to meet.
WalkStart ==
  /\ walk.at = "idle"
  /\ \E x \in Contexts, s \in Filters :
       /\ HasPermission(x.role, "conversation:read")
       /\ walk' = [NoWalk EXCEPT !.at = "walking", !.org = x.org, !.filter = s,
                                 !.calm = {c \in Convs : Listed(x.org, s, c)}]
  /\ UNCHANGED <<raceVars, above>>

CursorGone == walk.cursor # None /\ ~Listed(walk.org, walk.filter, walk.cursor)

\* GET /conversations with the cursor of the page before.
NextPage ==
  /\ walk.at = "walking"
  /\ \E found \in From(above, {c \in Convs : Listed(walk.org, walk.filter, c)}, walk.cursor) :
       LET page == PageOf(above, found, Take)
           data == page.data \intersect walk.calm IN
       walk' = [walk EXCEPT !.at = IF page.next = None THEN "done" ELSE @,
                            !.cursor = page.next,
                            !.passed = @ \/ CursorGone,
                            !.shown = @ \union data,
                            !.again = @ \union (data \intersect walk.shown)]
  /\ UNCHANGED <<raceVars, above>>

WalkEnd ==
  /\ walk.at = "done"
  /\ walk' = NoWalk
  /\ UNCHANGED <<raceVars, above>>

-----------------------------------------------------------------------------
(* The API.                                                                *)

Created == {c \in Convs : ~Exists(c) /\ Exists(c)'}
Addressed == {message'[m].conv : m \in {n \in Msgs : message'[n] # message[n]}}
Written == {c \in Convs : conv'[c] # conv[c]} \union Addressed

Others(c) == {d \in Convs \ {c} : Exists(d)}
Silent(c) == {d \in Others(c) : ~conv[d].lastMessageAt}
Spoken(c) == {d \in Others(c) : conv[d].lastMessageAt}

\* c moves to the place below the rows of one set and above those of the other.
Moved(c, higher, lower) ==
  (above \intersect (Others(c) \X Others(c))) \union (higher \X {c}) \union ({c} \X lower)

MutResort ==
  \/ Created = {} /\ Addressed = {} /\ UNCHANGED above
  \/ \E c \in Created \union Addressed : above' = Moved(c, {}, Others(c))
\* PostgreSQL sorts null first in descending order: a conversation without a
\* message is above all that have one, and its first message moves it down.
Resort ==
  \/ Created = {} /\ Addressed = {} /\ UNCHANGED above
  \/ \E c \in Created : above' = Moved(c, {}, Others(c))
  \/ \E c \in Addressed : above' = Moved(c, Silent(c), Spoken(c))

\* What the writes of this step do to the rows of the walk; the cursor moves down
\* when it gets its first message.
Disturb ==
  walk' = [walk EXCEPT
    !.calm = @ \ Written, !.shown = @ \ Written, !.again = @ \ Written,
    !.written = @ \/ walk.cursor \in Written,
    !.passed = @ \/ (walk.cursor \in Addressed /\ ~conv[walk.cursor].lastMessageAt)]

\* Which contacts and members there are makes no difference to the list.
Api == (\E r \in Requests : Step(r)) /\ Resort /\ Disturb

-----------------------------------------------------------------------------
NextInbox == Api \/ WalkStart \/ NextPage \/ WalkEnd

InboxSpec == InitInbox /\ [][NextInbox]_inboxVars

-----------------------------------------------------------------------------
(* Properties.                                                             *)

\* The order is the one the query asks for: it has a place for each existing
\* conversation, those without a message first.
InboxTypeOK ==
  /\ above \subseteq {c \in Convs : Exists(c)} \X {c \in Convs : Exists(c)}
  /\ \A c, d \in Convs : <<c, d>> \in above =>
       /\ <<d, c>> \notin above
       /\ \A e \in Convs : <<d, e>> \in above => <<c, e>> \in above
       /\ conv[c].lastMessageAt => conv[d].lastMessageAt
  /\ \A c, d \in Convs : Exists(c) /\ Exists(d) =>
       c = d \/ <<c, d>> \in above \/ <<d, c>> \in above
  /\ walk \in [at : {"idle", "walking", "done"}, org : Orgs \union {None},
               filter : Filters \union {Undefined}, cursor : Convs \union {None},
               calm : SUBSET Convs, shown : SUBSET Convs, again : SUBSET Convs,
               written : BOOLEAN, passed : BOOLEAN]

\* A walk that has come to its end has shown every conversation that was there
\* when it began and that nobody wrote to meanwhile, even where others arrived,
\* moved or went between two pages.  The exception is a cursor that leaves the
\* list, or moves down with its first message: what it passes is not shown.
NothingMissed == walk.at = "done" /\ ~walk.passed => walk.calm \subseteq walk.shown

\* No conversation is shown twice, as long as neither it nor a conversation that
\* served as cursor is written to while the walk goes on.
NothingRepeated == ~walk.written => walk.again = {}
=============================================================================
