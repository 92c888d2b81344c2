----------------------------- MODULE InboxProofs ------------------------------
(***************************************************************************)
(* Proofs about Pages and Inbox for every inbox and every size of a page:  *)
(* what a page holds of what the query finds, that the requests keep the   *)
(* order the query asks for, and what a client that walks through the      *)
(* pages sees while they write.                                            *)
(***************************************************************************)
EXTENDS Inbox, ConversationsProofs, FiniteSetTheorems

-----------------------------------------------------------------------------
(* Sorted rows.                                                            *)

Sorts(R, S) ==
  /\ \A a, b \in S : <<a, b>> \in R => <<b, a>> \notin R
  /\ \A a, b, c \in S : <<a, b>> \in R /\ <<b, c>> \in R => <<a, c>> \in R
  /\ \A a, b \in S : a = b \/ <<a, b>> \in R \/ <<b, a>> \in R

Higher(R, S, row) == {other \in S : <<other, row>> \in R}

LEMMA SortsSubset ==
  ASSUME NEW R, NEW S, Sorts(R, S), NEW T, T \subseteq S
  PROVE  Sorts(R, T)
BY DEF Sorts

\* Of the sets of rows above one of T, take the smallest: there is none in it.
LEMMA FirstRow ==
  ASSUME NEW R, NEW S, Sorts(R, S), IsFiniteSet(S), S # {}
  PROVE  \E x \in S : Higher(R, S, x) = {}
<1> DEFINE W == StrictSubsetOrdering(S)
           F == {Higher(R, S, x) : x \in S}
<1>1. IsWellFoundedOn(W, SUBSET S)
  BY FS_StrictSubsetOrderingWellFounded, FS_FiniteSubsetsOfFinite
<1>2. F \subseteq SUBSET S /\ F # {}
  BY DEF Higher
<1>3. PICK A \in F : \A B \in F : <<B, A>> \notin W
  <2> HIDE DEF W, F
  <2> QED
    BY <1>1, <1>2, WFMin
<1>4. PICK x \in S : A = Higher(R, S, x)
  BY <1>3
<1>5. ASSUME NEW y \in Higher(R, S, x) PROVE FALSE
  <2>1. y \in S /\ <<y, x>> \in R
    BY DEF Higher
  <2>2. Higher(R, S, y) \subseteq A /\ y \in A /\ y \notin Higher(R, S, y)
    BY <1>4, <2>1 DEF Higher, Sorts
  <2>3. Higher(R, S, y) \subseteq S /\ A \subseteq S /\ Higher(R, S, y) # A
    BY <1>4, <2>2 DEF Higher
  <2>4. <<Higher(R, S, y), A>> \in W
    BY <2>2, <2>3 DEF StrictSubsetOrdering
  <2> QED
    BY <1>3, <2>1, <2>4
<1> QED
  BY <1>5

\* The same, of the converse order.
LEMMA LastRow ==
  ASSUME NEW R, NEW S, Sorts(R, S), IsFiniteSet(S), S # {}
  PROVE  \E x \in S : \A other \in S \ {x} : <<other, x>> \in R
<1> DEFINE C == {p \in S \X S : <<p[2], p[1]>> \in R}
<1>1. \A a, b \in S : <<a, b>> \in C <=> <<b, a>> \in R
  OBVIOUS
<1> HIDE DEF C
<1>2. Sorts(C, S)
  BY <1>1 DEF Sorts
<1>3. PICK x \in S : Higher(C, S, x) = {}
  BY <1>2, FirstRow
<1>4. \A other \in S \ {x} : <<other, x>> \in R
  BY <1>1, <1>3 DEF Higher, Sorts
<1> QED
  BY <1>4

-----------------------------------------------------------------------------
(* take and skip.                                                          *)

LEMMA HigherFinite ==
  ASSUME NEW R, NEW S, IsFiniteSet(S), NEW x
  PROVE  /\ Higher(R, S, x) \subseteq S /\ IsFiniteSet(Higher(R, S, x))
         /\ Cardinality(Higher(R, S, x)) \in Nat
BY FS_Subset, FS_CardinalityType DEF Higher

LEMMA FirstOfHigher ==
  ASSUME NEW R, NEW S, NEW n
  PROVE  FirstOf(n, R, S) = {row \in S : Cardinality(Higher(R, S, row)) < n}
BY DEF FirstOf, Higher

\* With a row, its first n rows hold every row above it.
LEMMA FirstOfUpward ==
  ASSUME NEW R, NEW S, Sorts(R, S), IsFiniteSet(S), NEW n \in Nat,
         NEW x \in FirstOf(n, R, S)
  PROVE  Higher(R, S, x) \subseteq FirstOf(n, R, S)
<1>1. x \in S /\ Cardinality(Higher(R, S, x)) < n
  BY FirstOfHigher
<1>2. SUFFICES ASSUME NEW y \in Higher(R, S, x) PROVE y \in FirstOf(n, R, S)
  OBVIOUS
<1>3. y \in S /\ Higher(R, S, y) \subseteq Higher(R, S, x)
  BY <1>1 DEF Higher, Sorts
<1>4. Cardinality(Higher(R, S, y)) <= Cardinality(Higher(R, S, x))
  BY <1>3, HigherFinite, FS_Subset
<1>5. Cardinality(Higher(R, S, y)) < n
  BY <1>1, <1>4, HigherFinite
<1> QED
  BY <1>3, <1>5, FirstOfHigher

\* The first rows of more first rows are the first rows.
LEMMA FirstOfFirst ==
  ASSUME NEW R, NEW S, Sorts(R, S), IsFiniteSet(S), NEW n \in Nat
  PROVE  FirstOf(n, R, FirstOf(n + 1, R, S)) = FirstOf(n, R, S)
<1> DEFINE T == FirstOf(n + 1, R, S)
<1>1. T \subseteq S
  BY FirstOfHigher
<1>2. ASSUME NEW x \in T PROVE Higher(R, T, x) = Higher(R, S, x)
  <2>1. Higher(R, S, x) \subseteq T
    BY FirstOfUpward
  <2> QED
    BY <1>1, <2>1 DEF Higher
<1>3. ASSUME NEW x \in S, Cardinality(Higher(R, S, x)) < n PROVE x \in T
  <2>1. Cardinality(Higher(R, S, x)) < n + 1
    BY <1>3, HigherFinite
  <2> QED
    BY <1>3, <2>1, FirstOfHigher
<1>4. FirstOf(n, R, T) = {row \in T : Cardinality(Higher(R, T, row)) < n}
  BY FirstOfHigher
<1>5. FirstOf(n, R, S) = {row \in S : Cardinality(Higher(R, S, row)) < n}
  BY FirstOfHigher
<1> HIDE DEF T
<1>6. FirstOf(n, R, T) = FirstOf(n, R, S)
  <2>1. \A x \in T : Cardinality(Higher(R, T, x)) < n <=> Cardinality(Higher(R, S, x)) < n
    BY <1>2
  <2> QED
    BY <1>1, <1>3, <1>4, <1>5, <2>1
<1> QED
  BY <1>6 DEF T

\* Rows left out by take are more than take.
LEMMA FirstOfAll ==
  ASSUME NEW R, NEW S, Sorts(R, S), IsFiniteSet(S), NEW n \in Nat,
         FirstOf(n, R, S) # S
  PROVE  Cardinality(FirstOf(n + 1, R, S)) > n
<1> DEFINE T == S \ FirstOf(n, R, S)
           results == FirstOf(n + 1, R, S)
<1>1. T \subseteq S /\ T # {} /\ IsFiniteSet(T) /\ Sorts(R, T)
  <2>1. T \subseteq S /\ T # {}
    BY FirstOfHigher
  <2> HIDE DEF T
  <2> QED
    BY <2>1, FS_Subset, SortsSubset
<1>2. PICK x \in T : Higher(R, T, x) = {}
  <2> HIDE DEF T
  <2> QED
    BY <1>1, FirstRow
<1> DEFINE H == Higher(R, S, x)
<1>3. H \subseteq FirstOf(n, R, S)
  BY <1>2 DEF Higher
<1>4. FirstOf(n, R, S) \subseteq results
  <2>1. \A y \in S : Cardinality(Higher(R, S, y)) < n => Cardinality(Higher(R, S, y)) < n + 1
    BY HigherFinite
  <2> QED
    BY <2>1, FirstOfHigher
<1>5. x \in S /\ ~(Cardinality(H) < n) /\ Cardinality(H) \in Nat /\ IsFiniteSet(H)
  BY <1>2, HigherFinite, FirstOfHigher
<1>6. results \subseteq S /\ IsFiniteSet(results) /\ Cardinality(results) \in Nat
  BY FirstOfHigher, FS_Subset, FS_CardinalityType
<1>7. CASE x \in results
  <2>1. x \notin H
    BY <1>2 DEF Higher, Sorts
  <2>2. H \union {x} \subseteq results /\ Cardinality(H \union {x}) = Cardinality(H) + 1
    BY <1>3, <1>4, <1>5, <1>7, <2>1, FS_AddElement
  <2>3. Cardinality(H \union {x}) <= Cardinality(results)
    BY <1>6, <2>2, FS_Subset
  <2> QED
    BY <1>5, <1>6, <2>2, <2>3
<1>8. CASE x \notin results
  <2>1. ~(Cardinality(H) < n + 1)
    BY <1>2, <1>8, FirstOfHigher
  <2>2. H \subseteq results
    BY <1>3, <1>4
  <2>3. Cardinality(H) <= Cardinality(results)
    BY <1>6, <2>2, FS_Subset
  <2> QED
    BY <1>5, <1>6, <2>1, <2>3
<1> QED
  BY <1>7, <1>8

\* Some row is the first.
LEMMA FirstOfSome ==
  ASSUME NEW R, NEW S, Sorts(R, S), IsFiniteSet(S), S # {}, NEW n \in Nat \ {0}
  PROVE  FirstOf(n, R, S) # {}
<1>1. PICK x \in S : Higher(R, S, x) = {}
  BY FirstRow
<1>2. Cardinality(Higher(R, S, x)) < n
  BY <1>1, FS_EmptySet
<1> QED
  BY <1>2, FirstOfHigher

\* Passing over the row of the cursor leaves those below it.
LEMMA SkipCursor ==
  ASSUME NEW R, NEW S, Sorts(R, S), IsFiniteSet(S), NEW x \in S
  PROVE  Skip(R, {x} \union Below(R, x, S)) = Below(R, x, S)
<1> DEFINE T == {x} \union Below(R, x, S)
<1>1. T \subseteq S /\ IsFiniteSet(T)
  <2>1. T \subseteq S
    BY DEF Below
  <2> HIDE DEF T
  <2> QED
    BY <2>1, FS_Subset
<1>2. x \notin Below(R, x, S)
  BY DEF Below, Sorts
<1>3. Higher(R, T, x) = {}
  BY DEF Higher, Below, Sorts
<1>4. \A y \in Below(R, x, S) : x \in Higher(R, T, y)
  BY DEF Higher, Below
<1>5. FirstOf(1, R, T) = {row \in T : Cardinality(Higher(R, T, row)) < 1}
  BY FirstOfHigher
<1> HIDE DEF T
<1>6. \A row \in T : Cardinality(Higher(R, T, row)) < 1 <=> Higher(R, T, row) = {}
  <2> TAKE row \in T
  <2>1. IsFiniteSet(Higher(R, T, row)) /\ Cardinality(Higher(R, T, row)) \in Nat
    BY <1>1, HigherFinite
  <2>2. Cardinality(Higher(R, T, row)) = 0 <=> Higher(R, T, row) = {}
    BY <2>1, FS_EmptySet
  <2> QED
    BY <2>1, <2>2
<1>7. FirstOf(1, R, T) = {x}
  BY <1>3, <1>4, <1>5, <1>6 DEF T
<1> QED
  BY <1>2, <1>7 DEF Skip, T

-----------------------------------------------------------------------------
(* A page.                                                                 *)

\* What PageOf makes of the rows a query finds: all of them and no next page, or
\* some of them, the last of which is the next cursor, and all others below it.
LEMMA PageHolds ==
  ASSUME NEW R, NEW S, Sorts(R, S), IsFiniteSet(S), NEW n \in Nat \ {0},
         NEW page, page = PageOf(R, S, n)
  PROVE  \/ page.data = S /\ page.next = None
         \/ /\ page.data \subseteq S /\ page.next \in page.data
            /\ \A c \in page.data : c = page.next \/ <<c, page.next>> \in R
            /\ \A c \in S \ page.data : <<page.next, c>> \in R
<1> DEFINE results == FirstOf(n + 1, R, S)
           data == FirstOf(n, R, results)
<1>1. data = FirstOf(n, R, S)
  BY FirstOfFirst
<1>2. page = [data |-> data,
              next |-> IF Cardinality(results) > n THEN LastOf(R, data) ELSE None]
  BY DEF PageOf
<1>3. data \subseteq S /\ IsFiniteSet(data) /\ Sorts(R, data)
  <2>1. data \subseteq S
    BY <1>1, FirstOfHigher
  <2> HIDE DEF data
  <2> QED
    BY <2>1, FS_Subset, SortsSubset
<1>4. results \subseteq S /\ IsFiniteSet(results) /\ Cardinality(results) \in Nat
  <2>1. results \subseteq S
    BY FirstOfHigher
  <2> HIDE DEF results
  <2> QED
    BY <2>1, FS_Subset, FS_CardinalityType
<1>5. data # S => Cardinality(results) > n
  BY <1>1, FirstOfAll
<1>6. \A x \in data : Higher(R, S, x) \subseteq data
  BY <1>1, FirstOfUpward
<1>7. Cardinality(results) > n => data # {}
  <2>1. ASSUME S = {} PROVE Cardinality(results) = 0
    <3>1. results = {}
      BY <1>4, <2>1
    <3> QED
      BY <3>1, FS_EmptySet
  <2> QED
    BY <1>1, <2>1, FirstOfSome
<1> HIDE DEF results, data
<1>8. CASE Cardinality(results) > n
  <2>1. \E x \in data : \A other \in data \ {x} : <<other, x>> \in R
    BY <1>3, <1>7, <1>8, LastRow
  <2>2. /\ LastOf(R, data) \in data
        /\ \A other \in data \ {LastOf(R, data)} : <<other, LastOf(R, data)>> \in R
    BY <2>1 DEF LastOf
  <2>3. page.data = data /\ page.next = LastOf(R, data)
    BY <1>2, <1>8
  <2>4. \A c \in S \ data : <<LastOf(R, data), c>> \in R
    BY <1>3, <1>6, <2>2 DEF Higher, Sorts
  <2> QED
    BY <1>3, <2>2, <2>3, <2>4
<1>9. CASE ~(Cardinality(results) > n)
  BY <1>2, <1>5, <1>9
<1> QED
  BY <1>8, <1>9

-----------------------------------------------------------------------------
(* What a step of a request does to the rows of the inbox: one of them at  *)
(* most is new, or gets a message, and only these change their place.      *)

\* Of the statements that write a row, only a send writes lastMessageAt.
LEMMA WrittenLastMessageAt ==
  ASSUME NEW row \in ConversationRow, NEW s \in Statuses \union {Undefined},
         NEW a \in Users \union {None, Undefined}
  PROVE  /\ Patch(row, s, a).lastMessageAt = row.lastMessageAt
         /\ Touched(row).lastMessageAt
<1> DEFINE patched == [row EXCEPT !.status = Patched(row.status, s)]
           stamped == [row EXCEPT !.lastMessageAt = TRUE]
<1>1. patched \in ConversationRow /\ patched.lastMessageAt = row.lastMessageAt
  BY DEF ConversationRow, Patched
<1>2. stamped \in ConversationRow /\ stamped.lastMessageAt
  BY DEF ConversationRow
<1>3. /\ Patch(row, s, a) = [patched EXCEPT !.assigned = Patched(row.assigned, a)]
      /\ Touched(row) = [stamped EXCEPT !.status = "open"]
  BY DEF Patch, Touched
<1> QED
  BY <1>1, <1>2, <1>3 DEF ConversationRow

Placed == Created \union Addressed

LEMMA StepsPlaceOne ==
  ASSUME TenantInv, NEW r \in Requests, Handle(r)
  PROVE  /\ Placed \subseteq Convs
         /\ \A c, d \in Placed : c = d
         /\ \A c \in Convs : Exists(c) => Exists(c)'
         /\ \A c \in Convs \ Placed :
              /\ Exists(c)' => Exists(c)
              /\ conv'[c].lastMessageAt = conv[c].lastMessageAt
         /\ \A c \in Created : ~Exists(c) /\ Exists(c)' /\ ~conv'[c].lastMessageAt
         /\ \A c \in Addressed : Exists(c) /\ conv'[c].lastMessageAt
<1>0. TypeOK /\ Keeps /\ Resumes(r) /\ local[r] \in Locals
  BY HandlersKeepRows DEF TenantInv, ResumesInTenant, TypeOK
<1>1. \A c \in Convs : Exists(c) => Exists(c)'
  BY <1>0 DEF Keeps
<1>2. CASE UNCHANGED rows
  <2>1. Created = {} /\ Addressed = {}
    BY <1>2 DEF rows, Created, Addressed, Exists
  <2> QED
    BY <1>1, <1>2, <2>1 DEF rows, Placed, Exists
<1>3. CASE CreateInsert(r)
  <2>1. PICK n \in Convs :
          /\ ~Exists(n)
          /\ conv' = [conv EXCEPT ![n] = [NoConversation EXCEPT
                        !.org = local[r].org, !.contact = local[r].contact,
                        !.channel = local[r].channel, !.status = "open"]]
    BY <1>3 DEF CreateInsert
  <2>2. /\ conv'[n].status = "open" /\ conv'[n].lastMessageAt = FALSE
        /\ \A c \in Convs \ {n} : conv'[c] = conv[c]
    BY <1>0, <2>1 DEF TypeOK, NoConversation
  <2>3. Created = {n}
    BY <2>1, <2>2 DEF Created, Exists
  <2>4. Addressed = {}
    BY <1>3 DEF CreateInsert, Addressed
  <2>5. Exists(n)' /\ \A c \in Convs \ {n} : Exists(c)' => Exists(c)
    BY <2>2 DEF Exists
  <2> QED
    BY <1>1, <2>1, <2>2, <2>3, <2>4, <2>5 DEF Placed
<1>4. CASE UpdateWrite(r) \/ RemoveWrite(r)
  <2> DEFINE n == local[r].conv
  <2>1. n \in Convs /\ Exists(n)
    BY <1>0, <1>4 DEF Resumes, UpdateWrite, RemoveWrite
  <2>2. \A c \in Convs \ {n} : conv'[c] = conv[c]
    BY <1>0, <1>4 DEF UpdateWrite, RemoveWrite, TypeOK
  <2>3. conv'[n].lastMessageAt = conv[n].lastMessageAt
    <3>1. CASE UpdateWrite(r)
      <4>1. conv'[n] = Patch(conv[n], local[r].status, local[r].assignee)
        BY <1>0, <2>1, <3>1 DEF UpdateWrite, TypeOK
      <4> QED
        BY <1>0, <2>1, <4>1, WrittenLastMessageAt DEF TypeOK, Locals
    <3>2. CASE RemoveWrite(r)
      BY <1>0, <2>1, <3>2 DEF RemoveWrite, TypeOK, ConversationRow
    <3> QED
      BY <1>4, <3>1, <3>2
  <2>4. Addressed = {}
    BY <1>4 DEF UpdateWrite, RemoveWrite, Addressed
  <2>5. Created = {} /\ \A c \in Convs : Exists(c)' => Exists(c)
    BY <2>1, <2>2 DEF Created, Exists
  <2> QED
    BY <1>1, <2>2, <2>3, <2>4, <2>5 DEF Placed
<1>5. CASE SendCommit(r)
  <2> DEFINE n == local[r].conv
  <2>1. n \in Convs /\ Exists(n) /\ n # None
    BY <1>0, <1>5, NullAssumption DEF Resumes, SendCommit
  <2>2. conv'[n] = Touched(conv[n]) /\ \A c \in Convs \ {n} : conv'[c] = conv[c]
    BY <1>0, <1>5, <2>1 DEF SendCommit, TypeOK
  <2>3. conv'[n].lastMessageAt
    BY <1>0, <2>1, <2>2, WrittenLastMessageAt DEF TypeOK, Locals
  <2>4. PICK m \in Msgs :
          /\ message[m] = NoMessage
          /\ message' = [message EXCEPT ![m] = [org |-> local[r].org, conv |-> n]]
    BY <1>5 DEF SendCommit
  <2>5. /\ message'[m].conv = n /\ message'[m] # message[m]
        /\ \A k \in Msgs \ {m} : message'[k] = message[k]
    BY <1>0, <2>1, <2>4 DEF TypeOK, NoMessage
  <2>6. Addressed = {n}
    BY <2>5 DEF Addressed
  <2>7. Created = {} /\ \A c \in Convs : Exists(c)' => Exists(c)
    BY <2>1, <2>2 DEF Created, Exists
  <2> QED
    BY <1>1, <2>1, <2>2, <2>3, <2>6, <2>7 DEF Placed
<1> QED
  BY <1>2, <1>3, <1>4, <1>5
  DEF Handle, rows, Refuse, CreateStart, CreateCheck, UpdateStart, UpdateAssignee,
      RemoveStart, Search, FindOne, ListStart, ListRead, SendStart, SendEnqueue, Fail, Reply
-----------------------------------------------------------------------------
(* The order of the inbox.                                                 *)

Present == {c \in Convs : Exists(c)}

\* The order has a place for each row that is there, those without a message first.
Sorted ==
  /\ above \subseteq Present \X Present
  /\ Sorts(above, Present)
  /\ \A c, d \in Present :
       <<c, d>> \in above /\ conv[c].lastMessageAt => conv[d].lastMessageAt

WalkTyped ==
  walk \in [at : {"idle", "walking", "done"}, org : Orgs \union {None},
            filter : Filters \union {Undefined}, cursor : Convs \union {None},
            calm : SUBSET Convs, shown : SUBSET Convs, again : SUBSET Convs,
            written : BOOLEAN, passed : BOOLEAN]

LEMMA TypeIsSorted == InboxTypeOK <=> Sorted /\ WalkTyped
<1>1. InboxTypeOK => Sorted /\ WalkTyped
  BY DEF InboxTypeOK, Sorted, Sorts, Present, WalkTyped
<1>2. Sorted /\ WalkTyped => InboxTypeOK
  <2> SUFFICES ASSUME Sorted, WalkTyped PROVE InboxTypeOK
    OBVIOUS
  <2>1. \A c, d \in Convs : <<c, d>> \in above => c \in Present /\ d \in Present
    BY DEF Sorted
  <2> QED
    BY <2>1 DEF InboxTypeOK, Sorted, Sorts, Present, WalkTyped
<1> QED
  BY <1>1, <1>2

\* A row put below some of the others and above the rest, if those were above these.
LEMMA MovedSorts ==
  ASSUME NEW R, NEW O, Sorts(R, O), NEW c, c \notin O, NEW H, NEW L,
         H \union L = O, H \intersect L = {}, \A h \in H, l \in L : <<h, l>> \in R,
         NEW M, M = (R \intersect (O \X O)) \union (H \X {c}) \union ({c} \X L)
  PROVE  Sorts(M, O \union {c})
<1>1. \A a, b \in O : <<a, b>> \in M <=> <<a, b>> \in R
  OBVIOUS
<1>2. \A a \in O : (<<a, c>> \in M <=> a \in H) /\ (<<c, a>> \in M <=> a \in L)
  OBVIOUS
<1>3. <<c, c>> \notin M
  OBVIOUS
<1>4. \A a \in O : (a \in H \/ a \in L) /\ ~(a \in H /\ a \in L)
  OBVIOUS
<1>5. \A a, b \in O : a \in H /\ b \in L => <<a, b>> \in R
  OBVIOUS
<1> DEFINE S == O \union {c}
<1>6. \A a, b \in S : <<a, b>> \in M => <<b, a>> \notin M
  BY <1>1, <1>2, <1>3, <1>4 DEF Sorts
<1>7. ASSUME NEW a \in S, NEW b \in S, NEW d \in S, <<a, b>> \in M, <<b, d>> \in M
      PROVE  <<a, d>> \in M
  <2>1. CASE a \in O /\ b \in O /\ d \in O
    BY <1>1, <1>7, <2>1 DEF Sorts
  <2>2. CASE a = c
    BY <1>1, <1>2, <1>3, <1>4, <1>5, <1>7, <2>2 DEF Sorts
  <2>3. CASE b = c
    BY <1>1, <1>2, <1>3, <1>5, <1>7, <2>3
  <2>4. CASE d = c
    BY <1>1, <1>2, <1>3, <1>4, <1>5, <1>7, <2>4 DEF Sorts
  <2> QED
    BY <2>1, <2>2, <2>3, <2>4
<1>8. \A a, b \in S : a = b \/ <<a, b>> \in M \/ <<b, a>> \in M
  BY <1>1, <1>2, <1>4 DEF Sorts
<1> QED
  BY <1>6, <1>7, <1>8 DEF Sorts

\* A request's step leaves the order sorted, and the rows it does not place where
\* they were.  Who has had a message before moves above them, never below.
LEMMA ResortSorts ==
  ASSUME TenantInv, Sorted, NEW r \in Requests, Handle(r), Resort
  PROVE  /\ Sorted'
         /\ \A c, d \in Present \ Placed : <<c, d>> \in above' <=> <<c, d>> \in above
         /\ \A c \in Addressed, d \in Present \ Placed :
              <<c, d>> \in above /\ conv[c].lastMessageAt => <<c, d>> \in above'
<1>0. /\ Placed \subseteq Convs
      /\ \A c, d \in Placed : c = d
      /\ \A c \in Convs : Exists(c) => Exists(c)'
      /\ \A c \in Convs \ Placed :
           /\ Exists(c)' => Exists(c)
           /\ conv'[c].lastMessageAt = conv[c].lastMessageAt
      /\ \A c \in Created : ~Exists(c) /\ Exists(c)' /\ ~conv'[c].lastMessageAt
      /\ \A c \in Addressed : Exists(c) /\ conv'[c].lastMessageAt
  BY StepsPlaceOne
<1>1. /\ above \subseteq Present \X Present
      /\ Sorts(above, Present)
      /\ \A c, d \in Present :
           <<c, d>> \in above /\ conv[c].lastMessageAt => conv[d].lastMessageAt
  BY DEF Sorted
<1>2. CASE Created = {} /\ Addressed = {} /\ UNCHANGED above
  <2>1. Placed = {}
    BY <1>2 DEF Placed
  <2>2. Present' = Present /\ \A c \in Present : conv'[c].lastMessageAt = conv[c].lastMessageAt
    BY <1>0, <2>1 DEF Present
  <2>3. Sorted'
    BY <1>1, <1>2, <2>2 DEF Sorted
  <2> QED
    BY <1>2, <2>3
<1>3. ASSUME NEW c \in Placed, NEW H, NEW L, H \union L = Others(c), H \intersect L = {},
             \A h \in H, l \in L : <<h, l>> \in above,
             \A h \in H : conv'[c].lastMessageAt /\ ~conv[h].lastMessageAt,
             conv'[c].lastMessageAt => \A l \in L : conv[l].lastMessageAt,
             above' = Moved(c, H, L)
      PROVE  /\ Sorted'
             /\ \A a, b \in Present \ Placed : <<a, b>> \in above' <=> <<a, b>> \in above
             /\ \A b \in L : <<c, b>> \in above'
  <2> DEFINE O == Others(c)
  <2>1. Placed = {c} /\ c \in Convs
    BY <1>0
  <2>2. O = Present \ {c} /\ c \notin O
    BY DEF Others, Present
  <2>3. Present' = O \union {c}
    BY <1>0, <2>1, <2>2 DEF Present, Created, Addressed, Placed
  <2>4. Sorts(above, O)
    BY <1>1, <2>2, SortsSubset
  <2>5. above' = (above \intersect (O \X O)) \union (H \X {c}) \union ({c} \X L)
    BY <1>3 DEF Moved
  <2>6. H \subseteq O /\ L \subseteq O
    BY <1>3
  <2>7. \A a \in O : a \in Convs \ Placed /\ conv'[a].lastMessageAt = conv[a].lastMessageAt
    BY <1>0, <2>1, <2>2 DEF Present
  <2>0. H \union L = O /\ H \intersect L = {} /\ \A h \in H, l \in L : <<h, l>> \in above
    BY <1>3
  <2> HIDE DEF O
  <2>8. Sorts(above', O \union {c})
    BY <2>0, <2>2, <2>4, <2>5, MovedSorts
  <2>9. above' \subseteq (O \union {c}) \X (O \union {c})
    BY <2>5, <2>6
  <2>10. ASSUME NEW a \in O \union {c}, NEW b \in O \union {c}, <<a, b>> \in above',
                conv'[a].lastMessageAt
         PROVE  conv'[b].lastMessageAt
    <3>1. CASE a \in O /\ b \in O
      <4>1. <<a, b>> \in above /\ a \in Present /\ b \in Present
        BY <2>2, <2>5, <2>10, <3>1
      <4> QED
        BY <1>1, <2>7, <2>10, <3>1, <4>1
    <3>2. CASE a = c /\ b \in O
      <4>1. b \in L
        BY <2>2, <2>5, <2>10, <3>2
      <4> QED
        BY <1>3, <2>7, <2>10, <3>2, <4>1
    <3>3. CASE b = c /\ a \in O
      <4>1. a \in H
        BY <2>2, <2>5, <2>10, <3>3
      <4> QED
        BY <1>3, <2>7, <2>10, <3>3, <4>1
    <3> QED
      BY <2>10, <3>1, <3>2, <3>3
  <2>11. Sorted'
    BY <2>3, <2>8, <2>9, <2>10 DEF Sorted
  <2>12. \A a, b \in Present \ Placed : <<a, b>> \in above' <=> <<a, b>> \in above
    BY <2>1, <2>2, <2>5
  <2> QED
    BY <2>5, <2>11, <2>12
<1>4. ASSUME NEW c \in Created, above' = Moved(c, {}, Others(c))
      PROVE  /\ Sorted'
             /\ \A a, b \in Present \ Placed : <<a, b>> \in above' <=> <<a, b>> \in above
             /\ Addressed = {}
  <2>1. c \in Placed /\ ~conv'[c].lastMessageAt
    BY <1>0 DEF Placed
  <2>2. Addressed = {}
    BY <1>0, <2>1 DEF Placed
  <2> QED
    BY <1>3, <1>4, <2>1, <2>2
<1>5. ASSUME NEW c \in Addressed, above' = Moved(c, Silent(c), Spoken(c))
      PROVE  /\ Sorted'
             /\ \A a, b \in Present \ Placed : <<a, b>> \in above' <=> <<a, b>> \in above
             /\ \A b \in Spoken(c) : <<c, b>> \in above'
             /\ Addressed = {c}
  <2>1. c \in Placed /\ conv'[c].lastMessageAt /\ Addressed = {c}
    BY <1>0 DEF Placed
  <2>2. Silent(c) \union Spoken(c) = Others(c) /\ Silent(c) \intersect Spoken(c) = {}
    BY DEF Silent, Spoken
  <2>3. ASSUME NEW h \in Silent(c), NEW l \in Spoken(c) PROVE <<h, l>> \in above
    <3>1. h \in Present /\ l \in Present /\ ~conv[h].lastMessageAt /\ conv[l].lastMessageAt
      BY DEF Silent, Spoken, Others, Present
    <3>2. h # l /\ <<l, h>> \notin above
      BY <1>1, <3>1
    <3> QED
      BY <1>1, <3>1, <3>2 DEF Sorts
  <2>4. /\ \A h \in Silent(c) : ~conv[h].lastMessageAt
        /\ \A l \in Spoken(c) : conv[l].lastMessageAt
    BY DEF Silent, Spoken
  <2> QED
    BY <1>3, <1>5, <2>1, <2>2, <2>3, <2>4
<1>6. ASSUME NEW c \in Addressed, NEW d \in Present \ Placed, <<c, d>> \in above,
             conv[c].lastMessageAt
      PROVE  d \in Spoken(c)
  <2>1. c \in Present /\ d \in Present /\ d # c
    BY <1>0 DEF Present, Placed
  <2>2. conv[d].lastMessageAt
    BY <1>1, <1>6, <2>1
  <2> QED
    BY <2>1, <2>2 DEF Spoken, Others, Present
<1> QED
  BY <1>2, <1>4, <1>5, <1>6 DEF Resort
-----------------------------------------------------------------------------
(* The walk.  The invariant is inductive: the rows the walk has shown are   *)
(* at the cursor or above it, those it has yet to show below it.           *)

WalkGrounded ==
  /\ walk.cursor # None => /\ walk.at = "walking"
                           /\ walk.cursor \in Convs /\ Exists(walk.cursor)
  /\ \A c \in walk.calm : Listed(walk.org, walk.filter, c)
  /\ walk.shown \subseteq walk.calm

ShownAbove ==
  ~walk.written =>
    /\ walk.again = {}
    /\ walk.at = "walking" =>
         \A c \in walk.shown : c = walk.cursor \/ <<c, walk.cursor>> \in above

RestBelow ==
  ~walk.passed =>
    /\ walk.at = "walking" =>
         \A c \in walk.calm \ walk.shown :
           walk.cursor = None \/ <<walk.cursor, c>> \in above
    /\ walk.at = "done" => walk.calm \subseteq walk.shown

InboxInv == TenantInv /\ Sorted /\ WalkTyped /\ WalkGrounded /\ ShownAbove /\ RestBelow

LEMMA InitInboxInv == InitInbox => InboxInv
<1> SUFFICES ASSUME InitInbox PROVE InboxInv
  OBVIOUS
<1>1. TenantInv
  BY InitIsolated DEF InitInbox, InitRaces
<1>2. Present = {}
  BY DEF InitInbox, InitRaces, Init, Present, Exists, NoConversation
<1>3. Sorted
  BY <1>2 DEF InitInbox, Sorted, Sorts
<1>4. WalkTyped
  BY DEF InitInbox, NoWalk, WalkTyped
<1>5. WalkGrounded /\ ShownAbove /\ RestBelow
  BY DEF InitInbox, NoWalk, WalkGrounded, ShownAbove, RestBelow
<1> QED
  BY <1>1, <1>3, <1>4, <1>5 DEF InboxInv

\* What the requests write is neither shown nor awaited any more, and what they
\* do not write stays where it is, as seen from the cursor.
LEMMA ApiKeepsWalk ==
  ASSUME InboxInv, NEW r \in Requests, Handle(r), Resort, Disturb
  PROVE  InboxInv'
<1>0. /\ TenantInv /\ Sorted /\ WalkTyped
      /\ WalkGrounded /\ ShownAbove /\ RestBelow
  BY DEF InboxInv
<1>1. /\ Placed \subseteq Convs
      /\ \A c \in Convs : Exists(c) => Exists(c)'
      /\ \A c \in Created : ~Exists(c) /\ Exists(c)'
  BY <1>0, StepsPlaceOne
<1>2. /\ Sorted'
      /\ \A c, d \in Present \ Placed : <<c, d>> \in above' <=> <<c, d>> \in above
      /\ \A c \in Addressed, d \in Present \ Placed :
           <<c, d>> \in above /\ conv[c].lastMessageAt => <<c, d>> \in above'
  BY <1>0, ResortSorts
<1>3. TenantInv'
  BY <1>0, NextIsolated DEF Next
<1>4. Placed \subseteq Written /\ \A c \in Convs \ Written : conv'[c] = conv[c]
  <2>1. \A c \in Created : c \in Convs /\ conv'[c] # conv[c]
    BY <1>1 DEF Created, Exists
  <2> QED
    BY <2>1 DEF Placed, Written
<1>5. /\ walk'.at = walk.at /\ walk'.org = walk.org /\ walk'.filter = walk.filter
      /\ walk'.cursor = walk.cursor /\ walk'.calm = walk.calm \ Written
      /\ walk'.shown = walk.shown \ Written /\ walk'.again = walk.again \ Written
      /\ walk'.written <=> (walk.written \/ walk.cursor \in Written)
      /\ walk'.passed <=>
           (walk.passed \/ (walk.cursor \in Addressed /\ ~conv[walk.cursor].lastMessageAt))
  BY <1>0 DEF Disturb, WalkTyped
<1>6. WalkTyped'
  BY <1>0 DEF Disturb, WalkTyped
<1>7. walk.calm \subseteq Convs /\ \A c \in walk.calm : c \in Present
  BY <1>0 DEF WalkTyped, WalkGrounded, Listed, FindConversation, Live, Present
<1>8. WalkGrounded'
  <2>1. \A c \in walk'.calm : Listed(walk.org, walk.filter, c)'
    BY <1>0, <1>4, <1>5, <1>7
       DEF WalkGrounded, Listed, FindConversation, Live, Exists
  <2> QED
    BY <1>0, <1>1, <1>5, <2>1 DEF WalkGrounded, Listed, FindConversation, Live, Exists
<1>9. \A c \in walk'.calm : c \in Present \ Placed
  BY <1>4, <1>5, <1>7
<1>10. ShownAbove'
  <2>1. SUFFICES ASSUME ~walk'.written
                 PROVE  /\ walk'.again = {}
                        /\ walk'.at = "walking" =>
                             \A c \in walk'.shown :
                               c = walk'.cursor \/ <<c, walk'.cursor>> \in above'
    BY DEF ShownAbove
  <2>2. ~walk.written /\ walk.cursor \notin Written
    BY <1>5, <2>1
  <2>3. walk'.again = {}
    BY <1>0, <1>5, <2>2 DEF ShownAbove
  <2>4. ASSUME walk'.at = "walking", NEW c \in walk'.shown
        PROVE  c = walk'.cursor \/ <<c, walk'.cursor>> \in above'
    <3>1. c = walk.cursor \/ <<c, walk.cursor>> \in above
      BY <1>0, <1>5, <2>2, <2>4 DEF ShownAbove
    <3>2. c \in Present \ Placed
      BY <1>0, <1>5, <1>9 DEF WalkGrounded
    <3>3. <<c, walk.cursor>> \in above => walk.cursor \in Present \ Placed
      BY <1>0, <1>4, <2>2 DEF Sorted
    <3> QED
      BY <1>2, <1>5, <3>1, <3>2, <3>3
  <2> QED
    BY <2>3, <2>4
<1>11. RestBelow'
  <2>1. SUFFICES ASSUME ~walk'.passed
                 PROVE  /\ walk'.at = "walking" =>
                             \A c \in walk'.calm \ walk'.shown :
                               walk'.cursor = None \/ <<walk'.cursor, c>> \in above'
                        /\ walk'.at = "done" => walk'.calm \subseteq walk'.shown
    BY DEF RestBelow
  <2>2. /\ ~walk.passed
        /\ walk.cursor \in Addressed => conv[walk.cursor].lastMessageAt
    BY <1>5, <2>1
  <2>3. ASSUME walk'.at = "walking", NEW c \in walk'.calm \ walk'.shown, walk'.cursor # None
        PROVE  <<walk'.cursor, c>> \in above'
    <3>1. c \in walk.calm \ walk.shown
      BY <1>5
    <3>2. <<walk.cursor, c>> \in above /\ walk.cursor \in Present
      BY <1>0, <1>5, <2>2, <2>3, <3>1 DEF RestBelow, Sorted
    <3>3. walk.cursor \notin Created
      BY <1>1, <3>2 DEF Present
    <3>4. c \in Present \ Placed
      BY <1>9
    <3> QED
      BY <1>2, <1>5, <2>2, <3>2, <3>3, <3>4 DEF Placed
  <2>4. walk'.at = "done" => walk'.calm \subseteq walk'.shown
    BY <1>0, <1>5, <2>2 DEF RestBelow
  <2> QED
    BY <2>3, <2>4
<1> QED
  BY <1>2, <1>3, <1>6, <1>8, <1>10, <1>11 DEF InboxInv
\* What findMany makes of a cursor: the rows below it, and all rows without one.
LEMMA FromHolds ==
  ASSUME NEW R, NEW S, Sorts(R, S), IsFiniteSet(S), NEW x, NEW found \in From(R, S, x)
  PROVE  /\ found \subseteq S
         /\ x = None => found = S
         /\ x # None => \A c \in found : <<x, c>> \in R
         /\ x # None /\ x \in S => found = Below(R, x, S)
<1>1. CASE x = None
  BY <1>1 DEF From
<1>2. CASE x # None /\ x \in S
  <2>1. found = Below(R, x, S)
    BY <1>2, SkipCursor DEF From
  <2> QED
    BY <1>2, <2>1 DEF Below
<1>3. CASE x # None /\ x \notin S
  <2>1. found \subseteq Below(R, x, S)
    BY <1>3 DEF From, Skip
  <2> QED
    BY <1>3, <2>1 DEF Below
<1> QED
  BY <1>1, <1>2, <1>3

\* A page shows rows below the cursor only, and none is left between it and the next.
LEMMA NextPageKeepsWalk ==
  ASSUME InboxInv, NextPage
  PROVE  InboxInv'
<1>0. /\ TenantInv /\ Sorted /\ WalkTyped
      /\ WalkGrounded /\ ShownAbove /\ RestBelow
  BY DEF InboxInv
<1> DEFINE L == {c \in Convs : Listed(walk.org, walk.filter, c)}
<1>1. /\ L \subseteq Present /\ L \subseteq Convs /\ IsFiniteSet(L) /\ Sorts(above, L)
  <2>1. L \subseteq Present /\ L \subseteq Convs
    BY DEF Listed, FindConversation, Live, Present
  <2> HIDE DEF L
  <2> QED
    BY <1>0, <2>1, FS_Subset, SortsSubset, InboxAssumption DEF Sorted
<1>2. PICK found \in From(above, L, walk.cursor) :
        LET page == PageOf(above, found, Take)
            data == page.data \intersect walk.calm IN
        walk' = [walk EXCEPT !.at = IF page.next = None THEN "done" ELSE @,
                             !.cursor = page.next,
                             !.passed = @ \/ CursorGone,
                             !.shown = @ \union data,
                             !.again = @ \union (data \intersect walk.shown)]
  BY DEF NextPage
<1>3. /\ walk.at = "walking" /\ UNCHANGED <<raceVars, above>>
  BY DEF NextPage
<1> DEFINE page == PageOf(above, found, Take)
           data == page.data \intersect walk.calm
           next == page.next
<1>4. walk.calm \subseteq L
  BY <1>0 DEF WalkGrounded, WalkTyped
<1>5. CursorGone <=> walk.cursor # None /\ walk.cursor \notin L
  BY <1>0 DEF CursorGone, WalkTyped
<1> HIDE DEF L
<1>6. /\ found \subseteq L
      /\ walk.cursor = None => found = L
      /\ walk.cursor # None => \A c \in found : <<walk.cursor, c>> \in above
      /\ walk.cursor # None /\ walk.cursor \in L => found = Below(above, walk.cursor, L)
  BY <1>1, FromHolds
<1>7. \/ page.data = found /\ next = None
      \/ /\ page.data \subseteq found /\ next \in page.data
         /\ \A c \in page.data : c = next \/ <<c, next>> \in above
         /\ \A c \in found \ page.data : <<next, c>> \in above
  <2>1. IsFiniteSet(found) /\ Sorts(above, found)
    BY <1>1, <1>6, FS_Subset, SortsSubset
  <2> QED
    BY <2>1, PageHolds, InboxAssumption
<1>8. next \in Convs \union {None} /\ (next = None => page.data = found)
  BY <1>1, <1>6, <1>7, NullAssumption
<1>9. walk' = [walk EXCEPT !.at = IF next = None THEN "done" ELSE @, !.cursor = next,
                           !.passed = @ \/ CursorGone, !.shown = @ \union data,
                           !.again = @ \union (data \intersect walk.shown)]
  BY <1>2
<1> HIDE DEF page, next
<1>10. data \subseteq walk.calm /\ data = page.data \intersect walk.calm
  OBVIOUS
<1> HIDE DEF data
<1>11. WalkTyped'
  BY <1>0, <1>8, <1>9, <1>10 DEF WalkTyped
<1>12. /\ walk'.at = (IF next = None THEN "done" ELSE "walking")
       /\ walk'.org = walk.org /\ walk'.filter = walk.filter /\ walk'.cursor = next
       /\ walk'.calm = walk.calm /\ walk'.shown = walk.shown \union data
       /\ walk'.again = walk.again \union (data \intersect walk.shown)
       /\ walk'.written = walk.written
       /\ walk'.passed <=> (walk.passed \/ CursorGone)
  BY <1>0, <1>3, <1>9 DEF WalkTyped
<1>13. TenantInv' /\ Sorted'
  BY <1>0, <1>3, NextIsolated DEF Next, Sorted, Present, Exists, raceVars, vars
<1>14. next # None => next \in page.data /\ next \in found /\ next \in Present
  BY <1>1, <1>6, <1>7
<1>15. WalkGrounded'
  <2>1. next # None => next \in Convs /\ conv'[next].status # "absent"
    BY <1>3, <1>14 DEF raceVars, vars, Present, Exists
  <2>2. \A c \in walk'.calm : Listed(walk.org, walk.filter, c)'
    BY <1>0, <1>3, <1>12
       DEF raceVars, vars, WalkGrounded, Listed, FindConversation, Live, Exists
  <2>3. walk'.shown \subseteq walk'.calm
    BY <1>0, <1>10, <1>12 DEF WalkGrounded
  <2> QED
    BY <1>12, <2>1, <2>2, <2>3 DEF WalkGrounded, Exists
<1>16. ShownAbove'
  <2>1. SUFFICES ASSUME ~walk.written
                 PROVE  /\ walk'.again = {}
                        /\ next # None =>
                             \A c \in walk'.shown : c = next \/ <<c, next>> \in above
    BY <1>3, <1>12 DEF ShownAbove
  <2>2. /\ walk.again = {}
        /\ \A c \in walk.shown : c = walk.cursor \/ <<c, walk.cursor>> \in above
    BY <1>0, <1>3, <2>1 DEF ShownAbove
  <2>3. walk.shown # {} => walk.cursor # None
    <3>1. None \notin Convs /\ walk.shown \subseteq Convs
      BY <1>0, NullAssumption DEF WalkTyped
    <3>2. \A c : <<c, None>> \notin above
      BY <1>0, <3>1 DEF Sorted, Present
    <3> QED
      BY <2>2, <3>1, <3>2
  <2>4. \A c \in walk.shown : c \in Present
    BY <1>1, <1>0, <1>4 DEF WalkGrounded
  <2>5. \A c \in walk.shown, d \in found : <<c, d>> \in above
    <3> TAKE c \in walk.shown, d \in found
    <3>1. /\ walk.cursor # None /\ <<walk.cursor, d>> \in above
          /\ c = walk.cursor \/ <<c, walk.cursor>> \in above
      BY <1>6, <2>2, <2>3
    <3>2. c \in Present /\ d \in Present /\ walk.cursor \in Present
      BY <1>0, <2>4, <3>1 DEF Sorted
    <3> QED
      BY <1>0, <3>1, <3>2 DEF Sorted, Sorts
  <2>6. \A c \in found : <<c, c>> \notin above
    BY <1>1, <1>6 DEF Sorts
  <2>7. page.data \subseteq found
    BY <1>7
  <2>8. data \intersect walk.shown = {}
    BY <1>10, <2>5, <2>6, <2>7
  <2>9. next # None => \A c \in data : c = next \/ <<c, next>> \in above
    BY <1>7, <1>10
  <2> QED
    BY <1>12, <1>14, <2>2, <2>5, <2>8, <2>9
<1>17. RestBelow'
  <2>1. SUFFICES ASSUME ~walk.passed, ~CursorGone
                 PROVE  \A c \in walk.calm \ walk'.shown : next # None /\ <<next, c>> \in above
    BY <1>3, <1>12 DEF RestBelow
  <2>2. TAKE c \in walk.calm \ walk'.shown
  <2>3. c \in L /\ c \in walk.calm \ walk.shown /\ c \notin page.data
    BY <1>4, <1>10, <1>12
  <2>4. c \in found
    <3>1. CASE walk.cursor = None
      BY <1>6, <2>3, <3>1
    <3>2. CASE walk.cursor # None
      <4>1. <<walk.cursor, c>> \in above
        BY <1>0, <1>3, <2>1, <2>3, <3>2 DEF RestBelow
      <4>2. found = Below(above, walk.cursor, L)
        BY <1>5, <1>6, <2>1, <3>2
      <4> QED
        BY <2>3, <4>1, <4>2 DEF Below
    <3> QED
      BY <3>1, <3>2
  <2> QED
    BY <1>7, <1>8, <2>3, <2>4
<1> QED
  BY <1>11, <1>13, <1>15, <1>16, <1>17 DEF InboxInv
\* The walk that begins has everything before it, and one that ended is forgotten.
LEMMA OtherStepsKeepWalk ==
  ASSUME InboxInv, WalkStart \/ WalkEnd \/ UNCHANGED inboxVars
  PROVE  InboxInv'
<1>0. /\ TenantInv /\ Sorted /\ WalkTyped
      /\ WalkGrounded /\ ShownAbove /\ RestBelow
  BY DEF InboxInv
<1>1. UNCHANGED <<raceVars, above>>
  BY DEF WalkStart, WalkEnd, inboxVars, raceVars
<1>2. TenantInv' /\ Sorted'
  BY <1>0, <1>1, NextIsolated DEF Sorted, Present, Exists, raceVars, vars
<1>3. CASE UNCHANGED inboxVars
  <2>1. WalkTyped' /\ WalkGrounded' /\ ShownAbove' /\ RestBelow'
    BY <1>0, <1>3 DEF inboxVars, raceVars, vars, WalkTyped, WalkGrounded, ShownAbove, RestBelow,
                      Listed, FindConversation, Live, Exists
  <2> QED
    BY <1>2, <2>1 DEF InboxInv
<1>4. CASE WalkEnd
  <2>1. walk' = NoWalk
    BY <1>4 DEF WalkEnd
  <2>2. WalkTyped' /\ WalkGrounded' /\ ShownAbove' /\ RestBelow'
    BY <2>1 DEF NoWalk, WalkTyped, WalkGrounded, ShownAbove, RestBelow
  <2> QED
    BY <1>2, <2>2 DEF InboxInv
<1>5. CASE WalkStart
  <2>1. PICK x \in Contexts, s \in Filters :
          walk' = [NoWalk EXCEPT !.at = "walking", !.org = x.org, !.filter = s,
                                 !.calm = {c \in Convs : Listed(x.org, s, c)}]
    BY <1>5 DEF WalkStart
  <2>2. /\ walk'.at = "walking" /\ walk'.org = x.org /\ walk'.filter = s
        /\ walk'.cursor = None /\ walk'.calm = {c \in Convs : Listed(x.org, s, c)}
        /\ walk'.shown = {} /\ walk'.again = {}
    BY <2>1 DEF NoWalk
  <2>3. WalkTyped'
    BY <2>1, RowsAssumption DEF NoWalk, WalkTyped
  <2>4. \A c \in walk'.calm : Listed(walk.org, walk.filter, c)'
    BY <1>1, <2>2 DEF raceVars, vars, Listed, FindConversation, Live, Exists
  <2>5. WalkGrounded' /\ ShownAbove' /\ RestBelow'
    BY <2>2, <2>4 DEF WalkGrounded, ShownAbove, RestBelow
  <2> QED
    BY <1>2, <2>3, <2>5 DEF InboxInv
<1> QED
  BY <1>3, <1>4, <1>5

LEMMA NextInboxInv == InboxInv /\ [NextInbox]_inboxVars => InboxInv'
BY ApiKeepsWalk, NextPageKeepsWalk, OtherStepsKeepWalk DEF NextInbox, Api, Step

-----------------------------------------------------------------------------
(* Theorems.                                                               *)

\* The requests of the inbox are those of Races, so that what is proved of these
\* holds while clients walk through the inbox.
LEMMA InboxStandsOnRaces == InboxSpec => RaceSpec
<1>1. InitInbox => InitRaces
  BY DEF InitInbox
<1>2. [NextInbox]_inboxVars => [NextRaces]_raceVars
  BY DEF NextInbox, inboxVars, Api, WalkStart, NextPage, WalkEnd, NextRaces
<1> QED
  BY <1>1, <1>2, PTL DEF InboxSpec, RaceSpec

\* At every moment, the rows a walk has shown are at its cursor or above it and
\* those it owes below, but for the rows and cursors the requests wrote to.
THEOREM WalksKeepPlace == InboxSpec => []InboxInv
BY InitInboxInv, NextInboxInv, PTL DEF InboxSpec

\* However many requests write, the inbox is sorted: each conversation has one
\* place, those without a message come first.
THEOREM InboxSorted == InboxSpec => []InboxTypeOK
<1>1. InboxInv => InboxTypeOK
  BY TypeIsSorted DEF InboxInv
<1> QED
  BY <1>1, WalksKeepPlace, PTL

\* No walk misses a conversation nobody wrote to, whatever the size of a page and
\* however many conversations arrive, move and go meanwhile.
THEOREM WalksMissNothing == InboxSpec => []NothingMissed
<1>1. InboxInv => NothingMissed
  BY DEF InboxInv, RestBelow, NothingMissed
<1> QED
  BY <1>1, WalksKeepPlace, PTL

\* No walk shows a conversation twice that nobody wrote to.
THEOREM WalksRepeatNothing == InboxSpec => []NothingRepeated
<1>1. InboxInv => NothingRepeated
  BY DEF InboxInv, ShownAbove, NothingRepeated
<1> QED
  BY <1>1, WalksKeepPlace, PTL
=============================================================================
