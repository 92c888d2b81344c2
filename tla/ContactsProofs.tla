---------------------------- MODULE ContactsProofs ----------------------------
(***************************************************************************)
(* Proofs about Contacts for any tenants, contacts, tags, numbers, names   *)
(* and slugs, and any number of requests in flight.                        *)
(*                                                                         *)
(* The invariant says what a suspended request still knows: what it read   *)
(* before its await, weakened by what the others may have done since.  The *)
(* rows it speaks of are parameters, so that Holds(contact', tag', at, l)  *)
(* is about the rows after a step and the locals before it.                *)
(***************************************************************************)
EXTENDS Contacts, TLAPS

ContactRows == [org : Orgs \union {None}, phone : Phones \union {None}, tags : SUBSET Tags,
                deleted : BOOLEAN]
TagRows == [org : Orgs, slug : Slugs] \union {NoTag, DeletedTag}
Places == Awaits \union {"idle", "done"}
Codes == {0, 200, 201, 204, 400, 403, 404, 409, 500}
Locals ==
  [org : Orgs \union {None}, contact : Contacts \union {None}, tag : Tags \union {None},
   phone : Phones \union {None}, tagIds : TagIds \union {NoTagIds},
   name : Names \union {Undefined}, found : SUBSET (Contacts \union Tags), code : Codes]

RowsTyped(c, g) ==
  /\ c \in [Contacts -> ContactRows]
  /\ g \in [Tags -> TagRows]
  /\ \A k \in Contacts : c[k].org = None => c[k] = NoContact

RequestsTyped == pc \in [Requests -> Places] /\ local \in [Requests -> Locals]

\* A tag that was seen in the tenant is still there, or gone for good.
TagSeen(g, t, o) == g[t].org = o \/ g[t] = DeletedTag

\* Why a number was refused.
RefusalHolds(c, at, l) ==
  (at = "done" /\ l.code = 409 /\ l.phone # None) =>
     (\E k \in Contacts : c[k].org = l.org /\ c[k].phone = l.phone) \/ l.tagIds.repeated

\* What a request suspended at a place knows of the rows.
Holds(c, g, at, l) ==
  /\ at \in Awaits \ {"create.tags", "create.insert"} => l.org \in Orgs
  /\ at = "create.insert" => l.org \in Orgs \/ l.tagIds.ids = {}
  /\ at \in {"create.tags", "create.insert"} => l.phone \in Phones
  /\ at \notin {"create.tags", "create.insert", "done"} => l.phone = None
  /\ at \in {"create.tags", "update.tags"} => l.tagIds.ids # {}
  /\ at \in {"update.tags", "update.write", "remove.write"} =>
       l.contact \in Contacts /\ c[l.contact].org = l.org
  /\ at \in {"create.insert", "update.write"} => \A t \in l.tagIds.ids : TagSeen(g, t, l.org)
  /\ at \in {"tag.update", "tag.delete"} => l.tag \in Tags /\ TagSeen(g, l.tag, l.org)
  /\ at = "tag.insert" => l.name \in Names
  /\ RefusalHolds(c, at, l)

LinksInTenant(c, g) == \A k \in Contacts : \A t \in c[k].tags : g[t].org = c[k].org

Inv ==
  /\ RequestsTyped
  /\ RowsTyped(contact, tag)
  /\ LinksInTenant(contact, tag)
  /\ \A r \in Requests : Holds(contact, tag, pc[r], local[r])

\* No step takes back the tenant or the number of a row, or revives a tag.
Kept(c, g, d, h) ==
  /\ \A k \in Contacts : c[k] # NoContact => d[k].org = c[k].org /\ d[k].phone = c[k].phone
  /\ \A t \in Tags : g[t] # NoTag => h[t].org = g[t].org \/ h[t] = DeletedTag
  /\ \A t \in Tags : g[t] = DeletedTag => h[t] = DeletedTag

LEMMA InvImplies == Inv => TypeOK /\ TagsStayInTenant /\ RefusedMeansTaken
<1> SUFFICES ASSUME Inv PROVE TypeOK /\ TagsStayInTenant /\ RefusedMeansTaken
  OBVIOUS
<1>1. TagsStayInTenant
  BY DEF Inv, LinksInTenant, TagsStayInTenant
<1>2. RefusedMeansTaken
  BY DEF Inv, Holds, RefusalHolds, RefusedMeansTaken, PhoneTaken
<1>3. \A r \in Requests : pc[r] \in {"create.tags", "update.tags"} => local[r].tagIds.ids # {}
  BY DEF Inv, Holds
<1>4. TypeOK
  BY <1>3 DEF Inv, RequestsTyped, RowsTyped, ContactRows, TagRows, Places, Codes, Locals, TypeOK
<1> QED
  BY <1>1, <1>2, <1>4

LEMMA IdsAreTags ==
  ASSUME NEW l \in Locals
  PROVE  l.tagIds.ids \subseteq Tags
<1>1. l.tagIds \in TagIds \/ l.tagIds = NoTagIds
  BY DEF Locals
<1>2. \A a \in TagIds : a.ids \subseteq Tags
  BY DEF TagIds
<1> QED
  BY <1>1, <1>2 DEF NoTagIds

\* What a request knows survives a step of another one.
LEMMA KnowledgeLasts ==
  ASSUME NEW c, NEW g, NEW d, NEW h, NEW at, NEW l \in Locals,
         Kept(c, g, d, h), Holds(c, g, at, l)
  PROVE  Holds(d, h, at, l)
<1>0. None \notin Orgs /\ None \notin Phones
  BY ContactsAssumption
<1>1. ASSUME NEW t \in Tags, l.org \in Orgs, TagSeen(g, t, l.org) PROVE TagSeen(h, t, l.org)
  <2>1. CASE g[t] = DeletedTag
    BY <2>1 DEF Kept, TagSeen
  <2>2. CASE g[t].org = l.org
    BY <1>0, <1>1, <2>2 DEF Kept, TagSeen, NoTag
  <2> QED
    BY <1>1, <2>1, <2>2 DEF TagSeen
<1>2. \A t \in l.tagIds.ids : t \in Tags
  BY IdsAreTags
<1>3. RefusalHolds(d, at, l)
  BY DEF Holds, RefusalHolds, Kept, NoContact
<1>4. at \in {"update.tags", "update.write", "remove.write"} => d[l.contact].org = l.org
  BY <1>0 DEF Holds, Kept, Awaits, NoContact
<1> QED
  BY <1>1, <1>2, <1>3, <1>4 DEF Holds, Awaits

LEMMA NothingLost == ASSUME NEW c, NEW g PROVE Kept(c, g, c, g)
BY DEF Kept

-----------------------------------------------------------------------------
(* The locals the handlers build.                                          *)

LEMMA ContextTyped ==
  ASSUME NEW x \in Contexts
  PROVE  /\ x.org \in Orgs \union {None}
         /\ HasPermission(x.role, "tag:create") => x.org \in Orgs
<1>1. x.org \in Orgs \/ (x.org = None /\ x.role = "member")
  BY ContactsAssumption
<1>2. ~HasPermission("member", "tag:create")
  BY DEF HasPermission, EveryonesPermissions
<1> QED
  BY <1>1, <1>2

LEMMA BlankTyped ==
  /\ Blank \in Locals /\ Blank.contact = None /\ Blank.phone = None /\ Blank.tagIds = NoTagIds
BY DEF Blank, Locals, Codes

\* What a scoped read finds is of a tenant.
LEMMA FoundInTenant ==
  ASSUME Inv, NEW x \in Contexts
  PROVE  /\ \A k \in Contacts : FindContact(x.org, k) => x.org \in Orgs
         /\ \A t \in Tags : FindTag(x.org, t) => x.org \in Orgs
BY ContextTyped DEF FindContact, FindTag, TagExists, Live, Inv, RowsTyped

LEMMA WithTyped ==
  ASSUME NEW x \in Contexts
  PROVE  With(x) \in Locals /\ With(x).org = x.org /\ With(x).phone = None
BY BlankTyped, ContextTyped DEF With, Locals

LEMMA NewContactTyped ==
  ASSUME NEW x \in Contexts, NEW p \in Phones, NEW a \in TagIds
  PROVE  /\ NewContact(x, p, a) \in Locals
         /\ NewContact(x, p, a).org = x.org /\ NewContact(x, p, a).phone = p
         /\ NewContact(x, p, a).tagIds = a
BY WithTyped DEF NewContact, Locals

LEMMA OnContactTyped ==
  ASSUME NEW x \in Contexts, NEW k \in Contacts, NEW a \in TagIds \union {NoTagIds}
  PROVE  /\ OnContact(x, k, a) \in Locals
         /\ OnContact(x, k, a).org = x.org /\ OnContact(x, k, a).phone = None
         /\ OnContact(x, k, a).contact = k /\ OnContact(x, k, a).tagIds = a
BY WithTyped DEF OnContact, Locals

LEMMA NewTagTyped ==
  ASSUME NEW x \in Contexts, NEW n \in Names
  PROVE  /\ NewTag(x, n) \in Locals
         /\ NewTag(x, n).org = x.org /\ NewTag(x, n).phone = None /\ NewTag(x, n).name = n
BY WithTyped DEF NewTag, Locals

LEMMA OnTagTyped ==
  ASSUME NEW x \in Contexts, NEW t \in Tags, NEW n \in Names \union {Undefined}
  PROVE  /\ OnTag(x, t, n) \in Locals
         /\ OnTag(x, t, n).org = x.org /\ OnTag(x, t, n).phone = None
         /\ OnTag(x, t, n).tag = t
BY WithTyped DEF OnTag, Locals

LEMMA FindsTyped ==
  ASSUME NEW x \in Contexts, NEW found \in SUBSET (Contacts \union Tags)
  PROVE  Finds(x, found) \in Locals /\ Finds(x, found).phone = None
BY WithTyped DEF Finds, Locals

LEMMA InitInv == Init => Inv
<1> SUFFICES ASSUME Init PROVE Inv
  OBVIOUS
<1>1. Blank \in Locals /\ Blank.phone = None
  BY DEF Blank, Locals, Codes
<1>2. RequestsTyped
  BY <1>1 DEF Init, RequestsTyped, Places
<1>3. RowsTyped(contact, tag) /\ LinksInTenant(contact, tag)
  BY DEF Init, RowsTyped, ContactRows, TagRows, NoContact, LinksInTenant
<1>4. \A r \in Requests : Holds(contact, tag, pc[r], local[r])
  BY <1>1 DEF Init, Holds, RefusalHolds, Awaits
<1> QED
  BY <1>2, <1>3, <1>4 DEF Inv

-----------------------------------------------------------------------------
(* A step: what its request knows after it, and what the others keep.      *)

RowsStep ==
  RowsTyped(contact', tag') /\ LinksInTenant(contact', tag') /\ Kept(contact, tag, contact', tag')

LEMMA ReadOnlyRows == Inv /\ ReadOnly => RowsStep
BY NothingLost DEF Inv, ReadOnly, rows, RowsStep

LEMMA AwaitHolds ==
  ASSUME Inv, RowsStep, NEW r \in Requests, NEW at \in Places, NEW l \in Locals,
         Await(r, at, l), Holds(contact', tag', at, l)
  PROVE  Inv'
<1>1. RequestsTyped /\ \A q \in Requests : Holds(contact, tag, pc[q], local[q])
  BY DEF Inv
<1>2. pc'[r] = at /\ local'[r] = l
      /\ \A q \in Requests \ {r} : pc'[q] = pc[q] /\ local'[q] = local[q]
  BY <1>1 DEF Await, RequestsTyped
<1>3. RequestsTyped'
  BY <1>1 DEF Await, RequestsTyped
<1>4. ASSUME NEW q \in Requests PROVE Holds(contact', tag', pc'[q], local'[q])
  <2>1. CASE q = r
    BY <1>2, <2>1
  <2>2. CASE q # r
    <3>1. local[q] \in Locals /\ Holds(contact, tag, pc[q], local[q])
      BY <1>1 DEF RequestsTyped
    <3>2. Kept(contact, tag, contact', tag')
      BY DEF RowsStep
    <3>3. Holds(contact', tag', pc[q], local[q])
      BY <3>1, <3>2, KnowledgeLasts
    <3> QED
      BY <1>2, <2>2, <3>3
  <2> QED
    BY <2>1, <2>2
<1> QED
  BY <1>3, <1>4 DEF Inv, RowsStep

LEMMA AnswerHolds ==
  ASSUME Inv, RowsStep, NEW r \in Requests, NEW l \in Locals, NEW code \in Codes \ {0},
         Answer(r, l, code),
         (code = 409 /\ l.phone # None) =>
            (\E k \in Contacts : contact'[k].org = l.org /\ contact'[k].phone = l.phone)
            \/ l.tagIds.repeated
  PROVE  Inv'
<1> DEFINE m == [l EXCEPT !.code = code]
<1>1. m \in Locals /\ m.code = code /\ m.phone = l.phone /\ m.org = l.org /\ m.tagIds = l.tagIds
  BY DEF Locals
<1>2. Await(r, "done", m)
  BY DEF Answer
<1> HIDE DEF m
<1>3. Holds(contact', tag', "done", m)
  BY <1>1 DEF Holds, RefusalHolds, Awaits
<1> QED
  BY <1>1, <1>2, <1>3, AwaitHolds DEF Places

\* An answer that is no refusal of a number, in a step that changes no row.
LEMMA PlainAnswer ==
  ASSUME Inv, ReadOnly, NEW r \in Requests, NEW l \in Locals, NEW code \in Codes \ {0},
         l.phone = None \/ code # 409, Answer(r, l, code)
  PROVE  Inv'
BY ReadOnlyRows, AnswerHolds

\* The context of a request under way and its locals.
LEMMA Suspended ==
  ASSUME Inv, NEW r \in Requests
  PROVE  local[r] \in Locals /\ Holds(contact, tag, pc[r], local[r])
BY DEF Inv, RequestsTyped

LEMMA ReadsKeepInv ==
  ASSUME Inv, NEW r \in Requests, Refuse(r) \/ Read(r) \/ ListTags(r) \/ Reply(r) \/ Fail(r)
  PROVE  Inv'
<1>1. CASE Refuse(r)
  <2>1. PICK x \in Contexts : Answer(r, With(x), 403)
    BY <1>1 DEF Refuse
  <2> QED
    BY <1>1, <2>1, WithTyped, PlainAnswer DEF Refuse, Codes
<1>2. CASE Read(r)
  <2>1. PICK x \in Contexts :
          \/ Answer(r, Finds(x, {k \in Contacts : FindContact(x.org, k)}), 200)
          \/ \E k \in Contacts : Answer(r, Finds(x, {k}), 200) \/ Answer(r, With(x), 404)
    BY <1>2 DEF Read
  <2>2. CASE Answer(r, Finds(x, {k \in Contacts : FindContact(x.org, k)}), 200)
    <3> DEFINE found == {k \in Contacts : FindContact(x.org, k)}
    <3>1. found \in SUBSET (Contacts \union Tags)
      OBVIOUS
    <3> HIDE DEF found
    <3> QED
      BY <1>2, <2>2, <3>1, FindsTyped, PlainAnswer DEF Read, Codes, found
  <2>3. ASSUME NEW k \in Contacts, Answer(r, Finds(x, {k}), 200) PROVE Inv'
    <3>1. {k} \in SUBSET (Contacts \union Tags)
      OBVIOUS
    <3> QED
      BY <1>2, <2>3, <3>1, FindsTyped, PlainAnswer DEF Read, Codes
  <2>4. ASSUME Answer(r, With(x), 404) PROVE Inv'
    BY <1>2, <2>4, WithTyped, PlainAnswer DEF Read, Codes
  <2> QED
    BY <2>1, <2>2, <2>3, <2>4
<1>3. CASE ListTags(r)
  <2>1. PICK x \in Contexts : Answer(r, Finds(x, {t \in Tags : FindTag(x.org, t)}), 200)
    BY <1>3 DEF ListTags
  <2> DEFINE found == {t \in Tags : FindTag(x.org, t)}
  <2>2. found \in SUBSET (Contacts \union Tags)
    OBVIOUS
  <2> HIDE DEF found
  <2> QED
    BY <1>3, <2>1, <2>2, FindsTyped, PlainAnswer DEF ListTags, Codes, found
<1>4. CASE Reply(r)
  <2>1. Holds(contact', tag', "idle", Blank)
    BY BlankTyped DEF Holds, RefusalHolds, Awaits
  <2> QED
    BY <1>4, <2>1, BlankTyped, ReadOnlyRows, AwaitHolds DEF Reply, Places
<1>5. CASE Fail(r)
  BY <1>5, Suspended, PlainAnswer DEF Fail, Codes
<1> QED
  BY <1>1, <1>2, <1>3, <1>4, <1>5

LEMMA CreateStartKeepsInv ==
  ASSUME Inv, NEW r \in Requests, CreateStart(r)
  PROVE  Inv'
<1>1. PICK x \in Contexts, p \in Phones, a \in TagIds :
        LET l == NewContact(x, p, a) IN
        \/ FindByPhone(x.org, p) # {} /\ Answer(r, l, 409)
        \/ Await(r, IF a.ids = {} THEN "create.insert" ELSE "create.tags", l)
  BY DEF CreateStart
<1> DEFINE l == NewContact(x, p, a)
<1>2. l \in Locals /\ l.org = x.org /\ l.phone = p /\ l.tagIds = a
  BY NewContactTyped
<1>3. ReadOnly /\ RowsStep /\ contact' = contact
  BY ReadOnlyRows DEF CreateStart, ReadOnly, rows
<1> HIDE DEF l
<1>4. CASE FindByPhone(x.org, p) # {} /\ Answer(r, l, 409)
  <2>1. \E k \in Contacts : contact'[k].org = l.org /\ contact'[k].phone = l.phone
    BY <1>2, <1>3, <1>4 DEF FindByPhone, FindContact
  <2> QED
    BY <1>2, <1>3, <1>4, <2>1, AnswerHolds DEF Codes
<1>5. CASE Await(r, IF a.ids = {} THEN "create.insert" ELSE "create.tags", l)
  <2>1. CASE a.ids = {}
    <3>1. Holds(contact', tag', "create.insert", l)
      BY <1>2, <2>1 DEF Holds, RefusalHolds, Awaits
    <3> QED
      BY <1>2, <1>3, <1>5, <2>1, <3>1, AwaitHolds DEF Places, Awaits
  <2>2. CASE a.ids # {}
    <3>1. Holds(contact', tag', "create.tags", l)
      BY <1>2, <2>2 DEF Holds, RefusalHolds, Awaits
    <3> QED
      BY <1>2, <1>3, <1>5, <2>2, <3>1, AwaitHolds DEF Places, Awaits
  <2> QED
    BY <2>1, <2>2
<1> QED
  BY <1>1, <1>4, <1>5 DEF l

\* The test of the tags: what it saw is what the write relies on.
LEMMA TagTestsKeepInv ==
  ASSUME Inv, NEW r \in Requests, CreateTags(r) \/ UpdateTags(r)
  PROVE  Inv'
<1> DEFINE l == local[r]
<1>1. ReadOnly /\ RowsStep /\ contact' = contact /\ tag' = tag
  BY ReadOnlyRows DEF CreateTags, UpdateTags, ReadOnly, rows
<1>2. l \in Locals /\ Holds(contact, tag, pc[r], l)
  BY Suspended
<1>3. CASE TagsBelong(l.org, l.tagIds.ids)
  <2>1. \A t \in l.tagIds.ids : TagSeen(tag', t, l.org) /\ l.org # None
    BY <1>1, <1>3 DEF TagsBelong, FindTag, TagExists, TagSeen
  <2>2. l.org \in Orgs \/ l.tagIds.ids = {}
    BY <1>2, <2>1 DEF Locals
  <2>3. CASE pc[r] = "create.tags" /\ Await(r, "create.insert", l)
    <3>1. Holds(contact', tag', "create.insert", l)
      BY <1>2, <2>2, <2>1, <2>3 DEF Holds, RefusalHolds, Awaits
    <3> QED
      BY <1>1, <1>2, <2>3, <3>1, AwaitHolds DEF Places, Awaits
  <2>4. CASE pc[r] = "update.tags" /\ Await(r, "update.write", l)
    <3>1. Holds(contact', tag', "update.write", l)
      BY <1>1, <1>2, <2>1, <2>4 DEF Holds, RefusalHolds, Awaits
    <3> QED
      BY <1>1, <1>2, <2>4, <3>1, AwaitHolds DEF Places, Awaits
  <2> QED
    BY <1>3, <2>3, <2>4 DEF CreateTags, UpdateTags
<1>4. CASE ~TagsBelong(l.org, l.tagIds.ids)
  <2>1. Answer(r, l, 400)
    BY <1>4 DEF CreateTags, UpdateTags
  <2> QED
    BY <1>1, <1>2, <2>1, PlainAnswer DEF Codes
<1> QED
  BY <1>3, <1>4

LEMMA LinksAccepted ==
  ASSUME NEW a, LinksRefused(a) = 0
  PROVE  ~a.repeated /\ \A t \in a.ids : tag[t].org # None
BY DEF LinksRefused, TagExists

LEMMA LinksRefusedCode ==
  ASSUME NEW a, LinksRefused(a) # 0
  PROVE  LinksRefused(a) \in {400, 409} /\ (LinksRefused(a) = 409 => a.repeated)
BY DEF LinksRefused

LEMMA CreateInsertKeepsInv ==
  ASSUME Inv, NEW r \in Requests, CreateInsert(r)
  PROVE  Inv'
<1> DEFINE l == local[r]
<1>1. l \in Locals /\ Holds(contact, tag, pc[r], l) /\ pc[r] = "create.insert"
  BY Suspended DEF CreateInsert
<1>2. /\ l.org # None => l.org \in Orgs
      /\ l.phone \in Phones /\ \A t \in l.tagIds.ids : TagSeen(tag, t, l.org)
  BY <1>1 DEF Holds, Locals
<1>3. CASE PhoneTaken(l.org, l.phone) /\ Answer(r, l, 409) /\ ReadOnly
  <2>1. \E k \in Contacts : contact'[k].org = l.org /\ contact'[k].phone = l.phone
    BY <1>3 DEF PhoneTaken, ReadOnly, rows
  <2> QED
    BY <1>1, <1>3, <2>1, ReadOnlyRows, AnswerHolds DEF Codes
<1>4. CASE LinksRefused(l.tagIds) # 0 /\ Answer(r, l, LinksRefused(l.tagIds)) /\ ReadOnly
  BY <1>1, <1>4, LinksRefusedCode, ReadOnlyRows, AnswerHolds DEF Codes
<1>5. CASE l.org # None /\ LinksRefused(l.tagIds) = 0 /\ Answer(r, l, 201) /\ tag' = tag /\
           \E k \in Contacts :
             /\ contact[k] = NoContact
             /\ contact' = [contact EXCEPT ![k] =
                  [org |-> l.org, phone |-> l.phone, tags |-> l.tagIds.ids, deleted |-> FALSE]]
  <2>1. PICK k \in Contacts :
             /\ contact[k] = NoContact
             /\ contact' = [contact EXCEPT ![k] =
                  [org |-> l.org, phone |-> l.phone, tags |-> l.tagIds.ids, deleted |-> FALSE]]
    BY <1>5
  <2>2. RowsTyped(contact, tag) /\ LinksInTenant(contact, tag)
    BY DEF Inv
  <2>3. \A j \in Contacts \ {k} : contact'[j] = contact[j]
    BY <2>1, <2>2 DEF RowsTyped
  <2>4. contact'[k] = [org |-> l.org, phone |-> l.phone, tags |-> l.tagIds.ids, deleted |-> FALSE]
    BY <2>1, <2>2 DEF RowsTyped
  <2>5. l.tagIds.ids \subseteq Tags
    BY <1>1, IdsAreTags
  <2>6. contact' \in [Contacts -> ContactRows]
    BY <1>2, <1>5, <2>1, <2>2, <2>5 DEF RowsTyped, ContactRows
  <2>7. RowsTyped(contact', tag')
    BY <1>2, <1>5, <2>2, <2>3, <2>4, <2>6, ContactsAssumption DEF RowsTyped
  <2>8. \A t \in l.tagIds.ids : tag[t].org = l.org
    <3>1. \A t \in l.tagIds.ids : tag[t].org # None
      BY <1>5, LinksAccepted
    <3> QED
      BY <1>2, <3>1 DEF TagSeen, DeletedTag
  <2>9. LinksInTenant(contact', tag')
    BY <1>5, <2>2, <2>3, <2>4, <2>8 DEF LinksInTenant
  <2>10. Kept(contact, tag, contact', tag')
    BY <1>5, <2>1, <2>3 DEF Kept
  <2> QED
    BY <1>1, <1>5, <2>7, <2>9, <2>10, AnswerHolds DEF RowsStep, Codes
<1>6. CASE Answer(r, l, 400) /\ ReadOnly
  BY <1>1, <1>6, PlainAnswer DEF Codes
<1> QED
  BY <1>3, <1>4, <1>5, <1>6 DEF CreateInsert

LEMMA StartsKeepInv ==
  ASSUME Inv, NEW r \in Requests, UpdateStart(r) \/ RemoveStart(r)
  PROVE  Inv'
<1>1. ReadOnly /\ RowsStep /\ contact' = contact
  BY ReadOnlyRows DEF UpdateStart, RemoveStart, ReadOnly, rows
<1>2. PICK x \in Contexts, k \in Contacts, a \in TagIds \union {NoTagIds} :
        \/ Answer(r, With(x), 404)
        \/ /\ FindContact(x.org, k)
           /\ \/ a.ids = {} /\ Await(r, "update.write", OnContact(x, k, a))
              \/ a.ids # {} /\ Await(r, "update.tags", OnContact(x, k, a))
              \/ a = NoTagIds /\ Await(r, "remove.write", OnContact(x, k, a))
  <2>1. CASE UpdateStart(r)
    BY <2>1 DEF UpdateStart
  <2>2. CASE RemoveStart(r)
    BY <2>2 DEF RemoveStart
  <2> QED
    BY <2>1, <2>2
<1> DEFINE l == OnContact(x, k, a)
<1>3. /\ l \in Locals /\ l.org = x.org /\ l.phone = None /\ l.contact = k /\ l.tagIds = a
      /\ FindContact(x.org, k) => l.org \in Orgs
  BY OnContactTyped, FoundInTenant
<1> HIDE DEF l
<1>4. CASE Answer(r, With(x), 404)
  BY <1>1, <1>4, WithTyped, PlainAnswer DEF Codes
<1>5. CASE FindContact(x.org, k) /\ a.ids = {} /\ Await(r, "update.write", l)
  <2>1. Holds(contact', tag', "update.write", l)
    BY <1>1, <1>3, <1>5 DEF Holds, RefusalHolds, Awaits, FindContact
  <2> QED
    BY <1>1, <1>3, <1>5, <2>1, AwaitHolds DEF Places, Awaits
<1>6. CASE FindContact(x.org, k) /\ a.ids # {} /\ Await(r, "update.tags", l)
  <2>1. Holds(contact', tag', "update.tags", l)
    BY <1>1, <1>3, <1>6 DEF Holds, RefusalHolds, Awaits, FindContact
  <2> QED
    BY <1>1, <1>3, <1>6, <2>1, AwaitHolds DEF Places, Awaits
<1>7. CASE FindContact(x.org, k) /\ Await(r, "remove.write", l)
  <2>1. Holds(contact', tag', "remove.write", l)
    BY <1>1, <1>3, <1>7 DEF Holds, RefusalHolds, Awaits, FindContact
  <2> QED
    BY <1>1, <1>3, <1>7, <2>1, AwaitHolds DEF Places, Awaits
<1> QED
  BY <1>2, <1>4, <1>5, <1>6, <1>7 DEF l

LEMMA WritesKeepInv ==
  ASSUME Inv, NEW r \in Requests, UpdateWrite(r) \/ RemoveWrite(r)
  PROVE  Inv'
<1> DEFINE l == local[r]
           k == l.contact
<1>1. /\ l \in Locals /\ Holds(contact, tag, pc[r], l)
      /\ pc[r] \in {"update.write", "remove.write"}
  BY Suspended DEF UpdateWrite, RemoveWrite
<1>2. /\ l.org \in Orgs /\ l.phone = None /\ k \in Contacts /\ contact[k].org = l.org
      /\ pc[r] = "update.write" => \A t \in l.tagIds.ids : TagSeen(tag, t, l.org)
  BY <1>1 DEF Holds, Awaits
<1>3. RowsTyped(contact, tag) /\ LinksInTenant(contact, tag) /\ contact[k] \in ContactRows
  BY <1>2 DEF Inv, RowsTyped
<1>4. CASE ReadOnly /\ \E code \in {200, 400, 409} : Answer(r, l, code)
  BY <1>1, <1>2, <1>4, PlainAnswer DEF Codes
\* A row written over by one of the same tenant and number.
<1>5. ASSUME NEW d \in ContactRows, contact' = [contact EXCEPT ![k] = d], tag' = tag,
             d.org = contact[k].org, d.phone = contact[k].phone,
             \A t \in d.tags : tag[t].org = d.org
      PROVE  RowsStep
  <2>1. contact'[k] = d /\ \A j \in Contacts \ {k} : contact'[j] = contact[j]
    BY <1>2, <1>3, <1>5 DEF RowsTyped
  <2>2. RowsTyped(contact', tag')
    BY <1>2, <1>3, <1>5, <2>1, ContactsAssumption DEF RowsTyped
  <2>3. LinksInTenant(contact', tag')
    BY <1>3, <1>5, <2>1 DEF LinksInTenant
  <2>4. Kept(contact, tag, contact', tag')
    BY <1>5, <2>1 DEF Kept
  <2> QED
    BY <2>2, <2>3, <2>4 DEF RowsStep
<1>6. CASE /\ pc[r] = "update.write" /\ LinksRefused(l.tagIds) = 0
           /\ contact' = [contact EXCEPT ![k] = [@ EXCEPT !.tags = l.tagIds.ids]]
           /\ Answer(r, l, 200) /\ tag' = tag
  <2> DEFINE d == [contact[k] EXCEPT !.tags = l.tagIds.ids]
  <2>1. l.tagIds.ids \subseteq Tags
    BY <1>1, IdsAreTags
  <2>2. d \in ContactRows /\ d.org = contact[k].org /\ d.phone = contact[k].phone
        /\ d.tags = l.tagIds.ids
    BY <1>3, <2>1 DEF ContactRows
  <2>3. contact' = [contact EXCEPT ![k] = d]
    BY <1>6
  <2> HIDE DEF d
  <2>4. \A t \in d.tags : tag[t].org = d.org
    <3>1. \A t \in l.tagIds.ids : tag[t].org # None
      BY <1>6, LinksAccepted
    <3> QED
      BY <1>2, <1>6, <2>2, <3>1 DEF TagSeen, DeletedTag
  <2>5. RowsStep
    BY <1>5, <1>6, <2>2, <2>3, <2>4
  <2> QED
    BY <1>1, <1>2, <1>6, <2>5, AnswerHolds DEF Codes
<1>7. CASE RemoveWrite(r)
  <2> DEFINE d == [contact[k] EXCEPT !.deleted = TRUE]
  <2>1. d \in ContactRows /\ d.org = contact[k].org /\ d.phone = contact[k].phone
        /\ d.tags = contact[k].tags
    BY <1>3 DEF ContactRows
  <2>2. contact' = [contact EXCEPT ![k] = d] /\ tag' = tag /\ Answer(r, l, 204)
    BY <1>7 DEF RemoveWrite
  <2> HIDE DEF d
  <2>3. RowsStep
    BY <1>2, <1>3, <1>5, <2>1, <2>2 DEF LinksInTenant
  <2> QED
    BY <1>1, <1>2, <2>2, <2>3, AnswerHolds DEF Codes
<1>8. CASE UpdateWrite(r)
  <2>1. \/ Answer(r, l, 200) /\ ReadOnly
        \/ LinksRefused(l.tagIds) # 0 /\ Answer(r, l, LinksRefused(l.tagIds)) /\ ReadOnly
        \/ /\ pc[r] = "update.write" /\ LinksRefused(l.tagIds) = 0
           /\ contact' = [contact EXCEPT ![k] = [@ EXCEPT !.tags = l.tagIds.ids]]
           /\ Answer(r, l, 200) /\ tag' = tag
    BY <1>8 DEF UpdateWrite
  <2>2. CASE LinksRefused(l.tagIds) # 0 /\ Answer(r, l, LinksRefused(l.tagIds)) /\ ReadOnly
    BY <1>4, <2>2, LinksRefusedCode
  <2> QED
    BY <1>4, <1>6, <2>1, <2>2
<1> QED
  BY <1>7, <1>8

-----------------------------------------------------------------------------
(* Tags.                                                                   *)

LEMMA TagStartsKeepInv ==
  ASSUME Inv, NEW r \in Requests, CreateTagStart(r) \/ UpdateTagStart(r) \/ RemoveTagStart(r)
  PROVE  Inv'
<1>1. ReadOnly /\ RowsStep /\ tag' = tag
  BY ReadOnlyRows DEF CreateTagStart, UpdateTagStart, RemoveTagStart, ReadOnly, rows
<1>2. CASE CreateTagStart(r)
  <2>1. PICK x \in Contexts, n \in Names :
          /\ HasPermission(x.role, "tag:create")
          /\ \/ Await(r, "tag.insert", NewTag(x, n))
             \/ Answer(r, NewTag(x, n), 409)
    BY <1>2 DEF CreateTagStart, Admitted
  <2> DEFINE l == NewTag(x, n)
  <2>2. l \in Locals /\ l.org \in Orgs /\ l.phone = None /\ l.name = n
    BY <2>1, NewTagTyped, ContextTyped
  <2> HIDE DEF l
  <2>3. Holds(contact', tag', "tag.insert", l)
    BY <2>2 DEF Holds, RefusalHolds, Awaits
  <2>4. CASE Await(r, "tag.insert", l)
    BY <1>1, <2>2, <2>3, <2>4, AwaitHolds DEF Places, Awaits
  <2>5. CASE Answer(r, l, 409)
    BY <1>1, <2>2, <2>5, PlainAnswer DEF Codes
  <2> QED
    BY <2>1, <2>4, <2>5 DEF l
<1>3. CASE UpdateTagStart(r) \/ RemoveTagStart(r)
  <2>1. PICK x \in Contexts, t \in Tags, n \in Names \union {Undefined}, at \in {"tag.update", "tag.delete"} :
          \/ FindTag(x.org, t) /\ Await(r, at, OnTag(x, t, n))
          \/ Answer(r, With(x), 404)
    <3>1. CASE UpdateTagStart(r)
      BY <3>1 DEF UpdateTagStart
    <3>2. CASE RemoveTagStart(r)
      BY <3>2 DEF RemoveTagStart
    <3> QED
      BY <1>3, <3>1, <3>2
  <2> DEFINE l == OnTag(x, t, n)
  <2>2. /\ l \in Locals /\ l.org = x.org /\ l.phone = None /\ l.tag = t
        /\ FindTag(x.org, t) => l.org \in Orgs
    BY OnTagTyped, FoundInTenant
  <2> HIDE DEF l
  <2>3. CASE FindTag(x.org, t) /\ Await(r, at, l)
    <3>1. Holds(contact', tag', at, l)
      BY <1>1, <2>2, <2>3 DEF Holds, RefusalHolds, Awaits, FindTag, TagSeen
    <3> QED
      BY <1>1, <2>2, <2>3, <3>1, AwaitHolds DEF Places, Awaits
  <2>4. CASE Answer(r, With(x), 404)
    BY <1>1, <2>4, WithTyped, PlainAnswer DEF Codes
  <2> QED
    BY <2>1, <2>3, <2>4 DEF l
<1> QED
  BY <1>2, <1>3

LEMMA TagRowsDiffer == NoTag # DeletedTag /\ NoTag.org = None /\ DeletedTag.org = None
BY ContactsAssumption DEF NoTag, DeletedTag

LEMMA CreateTagInsertKeepsInv ==
  ASSUME Inv, NEW r \in Requests, CreateTagInsert(r)
  PROVE  Inv'
<1> DEFINE l == local[r]
<1>1. l \in Locals /\ Holds(contact, tag, pc[r], l) /\ pc[r] = "tag.insert"
  BY Suspended DEF CreateTagInsert
<1>2. l.org \in Orgs /\ l.name \in Names /\ l.phone = None
  BY <1>1 DEF Holds, Awaits
<1>3. CASE Answer(r, l, 409) /\ ReadOnly
  BY <1>1, <1>2, <1>3, PlainAnswer DEF Codes
<1>4. CASE /\ \E t \in Tags :
                /\ tag[t] = NoTag
                /\ tag' = [tag EXCEPT ![t] = [org |-> l.org, slug |-> SlugOf[l.name]]]
           /\ Answer(r, l, 201) /\ contact' = contact
  <2> DEFINE d == [org |-> l.org, slug |-> SlugOf[l.name]]
  <2>1. PICK t \in Tags : tag[t] = NoTag /\ tag' = [tag EXCEPT ![t] = d]
    BY <1>4
  <2>2. d \in TagRows /\ d.org = l.org
    BY <1>2 DEF TagRows, Slugs
  <2> HIDE DEF d
  <2>3. RowsTyped(contact, tag) /\ LinksInTenant(contact, tag)
    BY DEF Inv
  <2>4. tag'[t] = d /\ \A u \in Tags \ {t} : tag'[u] = tag[u]
    BY <2>1, <2>3 DEF RowsTyped
  <2>5. RowsTyped(contact', tag')
    BY <1>4, <2>1, <2>2, <2>3 DEF RowsTyped
  <2>6. \A k \in Contacts : t \notin contact[k].tags
    BY <2>1, <2>3, TagRowsDiffer DEF LinksInTenant, RowsTyped, NoContact
  <2>7. LinksInTenant(contact', tag')
    <3>1. \A k \in Contacts : contact[k].tags \subseteq Tags
      BY <2>3 DEF RowsTyped, ContactRows
    <3> QED
      BY <1>4, <2>3, <2>4, <2>6, <3>1 DEF LinksInTenant
  <2>8. Kept(contact, tag, contact', tag')
    BY <1>4, <2>1, <2>4, TagRowsDiffer DEF Kept
  <2> QED
    BY <1>1, <1>2, <1>4, <2>5, <2>7, <2>8, AnswerHolds DEF RowsStep, Codes
<1> QED
  BY <1>3, <1>4 DEF CreateTagInsert

LEMMA UpdateTagWriteKeepsInv ==
  ASSUME Inv, NEW r \in Requests, UpdateTagWrite(r)
  PROVE  Inv'
<1> DEFINE l == local[r]
           t == l.tag
<1>1. l \in Locals /\ Holds(contact, tag, pc[r], l) /\ pc[r] = "tag.update"
  BY Suspended DEF UpdateTagWrite
<1>2. t \in Tags /\ TagSeen(tag, t, l.org) /\ l.org \in Orgs /\ l.phone = None
  BY <1>1 DEF Holds, Awaits
<1>3. CASE ReadOnly /\ \E code \in {200, 404, 409} : Answer(r, l, code)
  BY <1>1, <1>2, <1>3, PlainAnswer DEF Codes
<1>4. CASE /\ TagExists(t) /\ l.name # Undefined
           /\ tag' = [tag EXCEPT ![t] = [@ EXCEPT !.slug = SlugOf[l.name]]]
           /\ Answer(r, l, 200) /\ contact' = contact
  <2> DEFINE d == [tag[t] EXCEPT !.slug = SlugOf[l.name]]
  <2>1. RowsTyped(contact, tag) /\ LinksInTenant(contact, tag) /\ tag[t] \in TagRows
    BY <1>2 DEF Inv, RowsTyped
  <2>2. tag[t] \in [org : Orgs, slug : Slugs]
    BY <1>4, <2>1, TagRowsDiffer DEF TagExists, TagRows
  <2>3. SlugOf[l.name] \in Slugs
    BY <1>1, <1>4 DEF Locals, Slugs
  <2>4. d \in TagRows /\ d.org = tag[t].org
    BY <2>2, <2>3 DEF TagRows
  <2>5. tag' = [tag EXCEPT ![t] = d]
    BY <1>4
  <2> HIDE DEF d
  <2>6. tag'[t] = d /\ \A u \in Tags \ {t} : tag'[u] = tag[u]
    BY <1>2, <2>1, <2>5 DEF RowsTyped
  <2>7. RowsTyped(contact', tag')
    BY <1>2, <1>4, <2>1, <2>4, <2>5 DEF RowsTyped
  <2>8. LinksInTenant(contact', tag')
    <3>1. \A k \in Contacts : contact[k].tags \subseteq Tags
      BY <2>1 DEF RowsTyped, ContactRows
    <3> QED
      BY <1>4, <2>1, <2>4, <2>6, <3>1 DEF LinksInTenant
  <2>9. Kept(contact, tag, contact', tag')
    BY <1>2, <1>4, <2>4, <2>6, TagRowsDiffer DEF Kept, TagExists
  <2> QED
    BY <1>1, <1>2, <1>4, <2>7, <2>8, <2>9, AnswerHolds DEF RowsStep, Codes
<1> QED
  BY <1>3, <1>4 DEF UpdateTagWrite

LEMMA RemoveTagWriteKeepsInv ==
  ASSUME Inv, NEW r \in Requests, RemoveTagWrite(r)
  PROVE  Inv'
<1> DEFINE l == local[r]
           t == l.tag
<1>1. l \in Locals /\ Holds(contact, tag, pc[r], l) /\ pc[r] = "tag.delete"
  BY Suspended DEF RemoveTagWrite
<1>2. t \in Tags /\ TagSeen(tag, t, l.org) /\ l.org \in Orgs /\ l.phone = None
  BY <1>1 DEF Holds, Awaits
<1>3. CASE Answer(r, l, 404) /\ ReadOnly
  BY <1>1, <1>2, <1>3, PlainAnswer DEF Codes
<1>4. CASE /\ TagExists(t)
           /\ tag' = [tag EXCEPT ![t] = DeletedTag]
           /\ contact' = [k \in Contacts |-> [contact[k] EXCEPT !.tags = @ \ {t}]]
           /\ Answer(r, l, 204)
  <2>1. RowsTyped(contact, tag) /\ LinksInTenant(contact, tag)
    BY DEF Inv
  <2>2. tag'[t] = DeletedTag /\ \A u \in Tags \ {t} : tag'[u] = tag[u]
    BY <1>2, <1>4, <2>1 DEF RowsTyped
  <2>3. ASSUME NEW k \in Contacts
        PROVE  /\ contact'[k] \in ContactRows
               /\ contact'[k].org = contact[k].org /\ contact'[k].phone = contact[k].phone
               /\ contact'[k].tags = contact[k].tags \ {t}
               /\ contact[k] = NoContact => contact'[k] = NoContact
    <3>1. contact[k] \in ContactRows /\ contact'[k] = [contact[k] EXCEPT !.tags = contact[k].tags \ {t}]
      BY <1>4, <2>1 DEF RowsTyped
    <3>2. /\ contact'[k] \in ContactRows
          /\ contact'[k].org = contact[k].org /\ contact'[k].phone = contact[k].phone
          /\ contact'[k].deleted = contact[k].deleted
          /\ contact'[k].tags = contact[k].tags \ {t}
      BY <3>1 DEF ContactRows
    <3>3. contact[k] = NoContact => contact'[k] = NoContact
      <4>1. contact[k] = NoContact => contact[k].tags \ {t} = contact[k].tags
        BY DEF NoContact
      <4>2. [contact[k] EXCEPT !.tags = contact[k].tags] = contact[k]
        BY <3>1 DEF ContactRows
      <4> QED
        BY <3>1, <4>1, <4>2
    <3> QED
      BY <3>2, <3>3
  <2>4. contact' \in [Contacts -> ContactRows]
    BY <1>4, <2>3
  <2>5. tag' \in [Tags -> TagRows]
    BY <1>2, <1>4, <2>1 DEF RowsTyped, TagRows
  <2>6. RowsTyped(contact', tag')
    BY <2>1, <2>3, <2>4, <2>5 DEF RowsTyped
  <2>7. LinksInTenant(contact', tag')
    <3>1. \A k \in Contacts : contact[k].tags \subseteq Tags
      BY <2>1 DEF RowsTyped, ContactRows
    <3> QED
      BY <2>1, <2>2, <2>3, <3>1 DEF LinksInTenant
  <2>8. Kept(contact, tag, contact', tag')
    BY <1>2, <2>2, <2>3, TagRowsDiffer DEF Kept
  <2> QED
    BY <1>1, <1>2, <1>4, <2>6, <2>7, <2>8, AnswerHolds DEF RowsStep, Codes
<1> QED
  BY <1>3, <1>4 DEF RemoveTagWrite

-----------------------------------------------------------------------------
(* The theorems.                                                           *)

LEMMA NextKeepsInv == Inv /\ [Next]_vars => Inv'
<1> SUFFICES ASSUME Inv, [Next]_vars PROVE Inv'
  OBVIOUS
<1>1. CASE UNCHANGED vars
  BY <1>1 DEF vars, Inv, RequestsTyped
<1>2. ASSUME NEW r \in Requests, Handle(r) PROVE Inv'
  BY <1>2, ReadsKeepInv, CreateStartKeepsInv, TagTestsKeepInv, CreateInsertKeepsInv,
     StartsKeepInv, WritesKeepInv, TagStartsKeepInv, CreateTagInsertKeepsInv,
     UpdateTagWriteKeepsInv, RemoveTagWriteKeepsInv DEF Handle
<1> QED
  BY <1>1, <1>2 DEF Next

LEMMA InvHolds == Spec => []Inv
BY InitInv, NextKeepsInv, PTL DEF Spec

\* Contacts is type correct.
THEOREM TypeCorrect == Spec => []TypeOK
BY InvHolds, InvImplies, PTL

\* assertTagsBelongToOrg and the writes after it keep the tags of a contact those
\* of its tenant, whatever runs between the test and the write.
THEOREM TagsOfTheTenant == Spec => []TagsStayInTenant
BY InvHolds, InvImplies, PTL

\* A 409 for a number tells of the tenant's own rows only.
THEOREM RefusalsOfTheTenant == Spec => []RefusedMeansTaken
BY InvHolds, InvImplies, PTL

-----------------------------------------------------------------------------
(* What a step may never do.                                               *)

StepsFor(r, o) == pc'[r] # pc[r] /\ local'[r].org = o

\* The answer of a handler that was suspended is a step for its tenant.
LEMMA AnswerStepsFor ==
  ASSUME Inv, NEW r \in Requests, pc[r] # "done", NEW code \in Codes, Answer(r, local[r], code)
  PROVE  StepsFor(r, local[r].org)
<1>1. local[r] \in Locals /\ pc \in [Requests -> Places] /\ local \in [Requests -> Locals]
  BY DEF Inv, RequestsTyped
<1> DEFINE m == [local[r] EXCEPT !.code = code]
<1>2. m.org = local[r].org
  BY <1>1 DEF Locals
<1>3. pc' = [pc EXCEPT ![r] = "done"] /\ local' = [local EXCEPT ![r] = m]
  BY DEF Answer, Await
<1> HIDE DEF m
<1> QED
  BY <1>1, <1>2, <1>3 DEF StepsFor

Writes(r) ==
  \/ CreateInsert(r) \/ UpdateWrite(r) \/ RemoveWrite(r)
  \/ CreateTagInsert(r) \/ UpdateTagWrite(r) \/ RemoveTagWrite(r)

LEMMA WritersStep ==
  ASSUME Inv, [Next]_vars, rows' # rows
  PROVE  \E r \in Requests : Writes(r) /\ StepsFor(r, local[r].org)
<1>1. PICK r \in Requests : Writes(r)
  BY DEF Next, vars, rows, ReadOnly, Writes, Handle, Refuse, Read, ListTags, CreateStart,
         CreateTags, UpdateStart, UpdateTags, RemoveStart, CreateTagStart, UpdateTagStart,
         RemoveTagStart, Fail, Reply
<1>2. pc[r] # "done"
  BY <1>1 DEF Writes, CreateInsert, UpdateWrite, RemoveWrite, CreateTagInsert, UpdateTagWrite,
              RemoveTagWrite
<1>3. \E code \in Codes : Answer(r, local[r], code)
  BY <1>1, LinksRefusedCode
     DEF Writes, CreateInsert, UpdateWrite, RemoveWrite, CreateTagInsert, UpdateTagWrite,
         RemoveTagWrite, Codes
<1> QED
  BY <1>1, <1>2, <1>3, AnswerStepsFor

\* A changed contact is of the tenant of the request.
LEMMA ContactWrites ==
  ASSUME Inv, NEW r \in Requests, Writes(r), NEW k \in Contacts, contact'[k] # contact[k]
  PROVE  contact'[k].org = local[r].org
<1> DEFINE l == local[r]
<1>1. l \in Locals /\ Holds(contact, tag, pc[r], l) /\ contact \in [Contacts -> ContactRows]
      /\ LinksInTenant(contact, tag) /\ tag \in [Tags -> TagRows]
  BY Suspended DEF Inv, RowsTyped
<1>2. CASE CreateInsert(r)
  BY <1>1, <1>2 DEF CreateInsert, ReadOnly, rows
<1>3. CASE UpdateWrite(r)
  <2>1. contact' = [contact EXCEPT ![l.contact] = [contact[l.contact] EXCEPT !.tags = l.tagIds.ids]]
        /\ l.contact \in Contacts /\ contact[l.contact].org = l.org
    BY <1>1, <1>3 DEF UpdateWrite, ReadOnly, rows, Holds
  <2> DEFINE d == [contact[l.contact] EXCEPT !.tags = l.tagIds.ids]
  <2>2. d.org = l.org
    BY <1>1, <2>1 DEF ContactRows
  <2> HIDE DEF d
  <2>3. contact' = [contact EXCEPT ![l.contact] = d]
    BY <2>1 DEF d
  <2> QED
    BY <1>1, <2>1, <2>2, <2>3
<1>4. CASE RemoveWrite(r)
  <2>1. contact' = [contact EXCEPT ![l.contact] = [contact[l.contact] EXCEPT !.deleted = TRUE]]
        /\ l.contact \in Contacts /\ contact[l.contact].org = l.org
    BY <1>1, <1>4 DEF RemoveWrite, Holds
  <2> DEFINE d == [contact[l.contact] EXCEPT !.deleted = TRUE]
  <2>2. d.org = l.org
    BY <1>1, <2>1 DEF ContactRows
  <2> HIDE DEF d
  <2>3. contact' = [contact EXCEPT ![l.contact] = d]
    BY <2>1 DEF d
  <2> QED
    BY <1>1, <2>1, <2>2, <2>3
<1>5. CASE RemoveTagWrite(r)
  <2> DEFINE t == l.tag
  <2>1. /\ TagExists(t) /\ t \in Tags /\ TagSeen(tag, t, l.org)
        /\ contact'[k] = [contact[k] EXCEPT !.tags = contact[k].tags \ {t}]
    BY <1>1, <1>5 DEF RemoveTagWrite, ReadOnly, rows, Holds
  <2>2. contact'[k].org = contact[k].org
    BY <1>1, <2>1 DEF ContactRows
  <2>3. t \in contact[k].tags
    <3> SUFFICES ASSUME t \notin contact[k].tags PROVE contact'[k] = contact[k]
      OBVIOUS
    <3>1. contact[k].tags \ {t} = contact[k].tags
      OBVIOUS
    <3>2. [contact[k] EXCEPT !.tags = contact[k].tags] = contact[k]
      BY <1>1 DEF ContactRows
    <3> QED
      BY <2>1, <3>1, <3>2
  <2>4. tag[t].org = l.org
    BY <2>1, TagRowsDiffer DEF TagSeen, TagExists
  <2> QED
    BY <1>1, <2>2, <2>3, <2>4 DEF LinksInTenant
<1> QED
  BY <1>2, <1>3, <1>4, <1>5 DEF Writes, CreateTagInsert, UpdateTagWrite, ReadOnly, rows

\* A changed tag is, or was, of the tenant of the request.
LEMMA TagWrites ==
  ASSUME Inv, NEW r \in Requests, Writes(r), NEW t \in Tags, tag'[t] # tag[t]
  PROVE  local[r].org \in {tag[t].org, tag'[t].org}
<1> DEFINE l == local[r]
<1>1. l \in Locals /\ Holds(contact, tag, pc[r], l) /\ tag \in [Tags -> TagRows]
  BY Suspended DEF Inv, RowsTyped
<1>2. CASE CreateTagInsert(r)
  BY <1>1, <1>2 DEF CreateTagInsert, ReadOnly, rows
<1>3. CASE UpdateTagWrite(r) \/ RemoveTagWrite(r)
  <2>1. TagExists(l.tag) /\ l.tag \in Tags /\ TagSeen(tag, l.tag, l.org) /\ t = l.tag
    BY <1>1, <1>3 DEF UpdateTagWrite, RemoveTagWrite, ReadOnly, rows, Holds
  <2> QED
    BY <2>1, TagRowsDiffer DEF TagSeen, TagExists
<1> QED
  BY <1>2, <1>3 DEF Writes, CreateInsert, UpdateWrite, RemoveWrite, ReadOnly, rows

\* Every write to a contact or a tag is one of a request of its tenant.
THEOREM WritesIsolated == Spec => WritesStayInTenant
<1>1. Inv /\ [Next]_vars =>
        [/\ \A k \in Contacts : contact'[k] # contact[k] =>
              \E r \in Requests : pc'[r] # pc[r] /\ local'[r].org = contact'[k].org
         /\ \A t \in Tags : tag'[t] # tag[t] =>
              \E r \in Requests : pc'[r] # pc[r] /\ local'[r].org \in {tag[t].org, tag'[t].org}]_rows
  BY WritersStep, ContactWrites, TagWrites DEF StepsFor
<1> QED
  BY <1>1, InvHolds, PTL DEF Spec, WritesStayInTenant
=============================================================================
