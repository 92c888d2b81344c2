------------------------------- MODULE Contacts -------------------------------
(***************************************************************************)
(* The contacts module of the API (ContactsController and TagsController -> *)
(* ContactsService -> PrismaService) as the set of its requests in flight. *)
(* As in Conversations, a step is one awaited database call with the code  *)
(* that runs on its result.  What the handlers leave open between a check  *)
(* and a write, the constraints of schema.prisma decide: the unique phone  *)
(* and slug, the key of contact_tag and its two foreign keys.  A violated  *)
(* constraint rejects the write, and HttpExceptionFilter turns P2002 into  *)
(* 409, P2003 into 400 and P2025 into 404.                                 *)
(***************************************************************************)
EXTENDS Rbac, FiniteSets

CONSTANTS
  Orgs,       \* tenants
  Contacts,   \* identifiers of Contact rows
  Tags,       \* identifiers of Tag rows
  Phones,     \* phone numbers
  Names,      \* the names tags may be given
  SlugOf,     \* toSlug: the slug of each name; several names may share one
  Requests,   \* the HTTP requests that may be in flight at once
  Contexts,   \* the request contexts AuthService.resolveContext can produce
  None,       \* null; the orgId '' of a session without an active organization
  Undefined   \* a field the request body leaves out

ASSUME ContactsAssumption ==
  /\ Contexts \subseteq [org : Orgs, role : Roles] \union [org : {None}, role : {"member"}]
  /\ DOMAIN SlugOf = Names
  /\ None \notin Orgs \union Contacts \union Tags \union Phones
  /\ Undefined \notin Names \union {None}
  /\ Contacts \intersect Tags = {}

VARIABLES
  contact,  \* tables contact and contact_tag
  tag,      \* table tag
  pc,       \* the await each request is suspended at
  local     \* its context, arguments and results

rows == <<contact, tag>>
vars == <<contact, tag, pc, local>>

Awaits == {"create.tags", "create.insert", "update.tags", "update.write", "remove.write",
           "tag.insert", "tag.update", "tag.delete"}

NoContact == [org |-> None, phone |-> None, tags |-> {}, deleted |-> FALSE]
NoTag     == [org |-> None, slug |-> None]
DeletedTag == [org |-> None, slug |-> Undefined]  \* identifiers are not used again
NoTagIds  == [given |-> FALSE, ids |-> {}, repeated |-> FALSE]
Blank     == [org |-> None, contact |-> None, tag |-> None, phone |-> None, tagIds |-> NoTagIds,
              name |-> Undefined, found |-> {}, code |-> 0]

Init ==
  /\ contact = [k \in Contacts |-> NoContact]
  /\ tag = [t \in Tags |-> NoTag]
  /\ pc = [r \in Requests |-> "idle"]
  /\ local = [r \in Requests |-> Blank]

-----------------------------------------------------------------------------
(* Reads and control flow shared by the handlers.                          *)

\* A row the soft-delete middleware lets a read see.
Live(k) == contact[k] # NoContact /\ ~contact[k].deleted

TagExists(t) == tag[t].org # None

\* findByIdWithTags, and the findFirst of a tag.
MutFindContactAnyTenant(org, k) == Live(k)
FindContact(org, k) == Live(k) /\ contact[k].org = org
FindTag(org, t) == TagExists(t) /\ tag[t].org = org

\* findByPhone: the tenant's live contacts with this number.
MutFindByPhoneAnyTenant(org, p) == {k \in Contacts : Live(k) /\ contact[k].phone = p}
FindByPhone(org, p) == {k \in Contacts : FindContact(org, k) /\ contact[k].phone = p}

FindBySlug(org, slug) == {t \in Tags : FindTag(org, t) /\ tag[t].slug = slug}

\* Rows of any kind with the number: what the unique index knows.
PhoneTaken(org, p) == \E k \in Contacts : contact[k].org = org /\ contact[k].phone = p

Await(r, at, l) ==
  /\ pc' = [pc EXCEPT ![r] = at]
  /\ local' = [local EXCEPT ![r] = l]

\* The response: the tenant, what was asked for, the rows read and the code.
Answer(r, l, code) == Await(r, "done", [l EXCEPT !.code = code])

\* What a request brings along: its tenant, then what its path and body name.
With(x) == [Blank EXCEPT !.org = x.org]
NewContact(x, p, a) == [With(x) EXCEPT !.phone = p, !.tagIds = a]
OnContact(x, k, a) == [With(x) EXCEPT !.contact = k, !.tagIds = a]
NewTag(x, n) == [With(x) EXCEPT !.name = n]
OnTag(x, t, n) == [With(x) EXCEPT !.tag = t, !.name = n]
Finds(x, found) == [With(x) EXCEPT !.found = found]

Admitted(r, x, p) == pc[r] = "idle" /\ HasPermission(x.role, p)

\* The step changes no row.
ReadOnly == UNCHANGED rows

Refuse(r) ==
  /\ pc[r] = "idle"
  /\ \E x \in Contexts, p \in {"contact:delete", "tag:create", "tag:update", "tag:delete"} :
       ~HasPermission(x.role, p) /\ Answer(r, With(x), 403)
  /\ ReadOnly

\* assertTagsBelongToOrg, which counts each identifier once.
MutTagsBelong(org, ts) == \A t \in ts : TagExists(t)
TagsBelong(org, ts) == \A t \in ts : FindTag(org, t)

\* The arrays tagIds of a body: the tags they name, and whether they name one
\* of them twice.
TagIds == {a \in [given : {TRUE}, ids : SUBSET Tags, repeated : BOOLEAN] : a.repeated => a.ids # {}}

\* Whether the keys of contact_tag refuse the rows of an array: 409, 400, or 0.
LinksRefused(a) ==
  IF a.repeated THEN 409 ELSE IF \E t \in a.ids : ~TagExists(t) THEN 400 ELSE 0

-----------------------------------------------------------------------------
(* /contacts                                                               *)

\* search and findOne.
Read(r) ==
  /\ \E x \in Contexts :
       /\ Admitted(r, x, "contact:read")
       /\ \/ Answer(r, Finds(x, {k \in Contacts : FindContact(x.org, k)}), 200)
          \/ \E k \in Contacts :
               \/ FindContact(x.org, k)  /\ Answer(r, Finds(x, {k}), 200)
               \/ ~FindContact(x.org, k) /\ Answer(r, With(x), 404)
  /\ ReadOnly

CreateStart(r) ==
  /\ \E x \in Contexts, p \in Phones, a \in TagIds :
       LET l == NewContact(x, p, a) IN
       /\ Admitted(r, x, "contact:create")
       /\ \/ FindByPhone(x.org, p) # {} /\ Answer(r, l, 409)
          \/ /\ FindByPhone(x.org, p) = {}
             /\ Await(r, IF a.ids = {} THEN "create.insert" ELSE "create.tags", l)
  /\ ReadOnly

CreateTags(r) ==
  /\ pc[r] = "create.tags"
  /\ \/ TagsBelong(local[r].org, local[r].tagIds.ids)  /\ Await(r, "create.insert", local[r])
     \/ ~TagsBelong(local[r].org, local[r].tagIds.ids) /\ Answer(r, local[r], 400)
  /\ ReadOnly

\* contact.create with its contact_tag rows, one transaction: the number may be
\* taken by now, or by a deleted contact; a tag may be gone, or named twice.  The
\* foreign key refuses an organizationId of no tenant.
CreateInsert(r) ==
  LET l == local[r] IN
  /\ pc[r] = "create.insert"
  /\ \/ PhoneTaken(l.org, l.phone) /\ Answer(r, l, 409) /\ ReadOnly
     \/ l.org = None /\ Answer(r, l, 400) /\ ReadOnly
     \/ LinksRefused(l.tagIds) # 0 /\ Answer(r, l, LinksRefused(l.tagIds)) /\ ReadOnly
     \/ /\ ~PhoneTaken(l.org, l.phone) /\ l.org # None /\ LinksRefused(l.tagIds) = 0
        /\ \E k \in Contacts :
             /\ contact[k] = NoContact
             /\ contact' = [contact EXCEPT ![k] =
                  [org |-> l.org, phone |-> l.phone, tags |-> l.tagIds.ids, deleted |-> FALSE]]
        /\ Answer(r, l, 201)
        /\ UNCHANGED tag

UpdateStart(r) ==
  /\ \E x \in Contexts, k \in Contacts, a \in TagIds \union {NoTagIds} :
       /\ Admitted(r, x, "contact:update")
       /\ \/ ~FindContact(x.org, k) /\ Answer(r, With(x), 404)
          \/ /\ FindContact(x.org, k)
             /\ Await(r, IF a.ids = {} THEN "update.write" ELSE "update.tags", OnContact(x, k, a))
  /\ ReadOnly

UpdateTags(r) ==
  /\ pc[r] = "update.tags"
  /\ \/ TagsBelong(local[r].org, local[r].tagIds.ids)  /\ Await(r, "update.write", local[r])
     \/ ~TagsBelong(local[r].org, local[r].tagIds.ids) /\ Answer(r, local[r], 400)
  /\ ReadOnly

\* contact.update by id alone; tagIds, when given, replace the whole set.
UpdateWrite(r) ==
  LET l == local[r] IN
  /\ pc[r] = "update.write"
  /\ \/ ~l.tagIds.given /\ Answer(r, l, 200) /\ ReadOnly
     \/ LinksRefused(l.tagIds) # 0 /\ Answer(r, l, LinksRefused(l.tagIds)) /\ ReadOnly
     \/ /\ l.tagIds.given /\ LinksRefused(l.tagIds) = 0
        /\ contact' = [contact EXCEPT ![l.contact] = [@ EXCEPT !.tags = l.tagIds.ids]]
        /\ Answer(r, l, 200)
        /\ UNCHANGED tag

RemoveStart(r) ==
  /\ \E x \in Contexts, k \in Contacts :
       /\ Admitted(r, x, "contact:delete")
       /\ \/ FindContact(x.org, k)  /\ Await(r, "remove.write", OnContact(x, k, NoTagIds))
          \/ ~FindContact(x.org, k) /\ Answer(r, With(x), 404)
  /\ ReadOnly

RemoveWrite(r) ==
  /\ pc[r] = "remove.write"
  /\ contact' = [contact EXCEPT ![local[r].contact] = [@ EXCEPT !.deleted = TRUE]]
  /\ Answer(r, local[r], 204)
  /\ UNCHANGED tag

-----------------------------------------------------------------------------
(* /tags                                                                   *)

ListTags(r) ==
  /\ \E x \in Contexts :
       /\ Admitted(r, x, "contact:read")
       /\ Answer(r, Finds(x, {t \in Tags : FindTag(x.org, t)}), 200)
  /\ ReadOnly

CreateTagStart(r) ==
  /\ \E x \in Contexts, n \in Names :
       LET l == NewTag(x, n) IN
       /\ Admitted(r, x, "tag:create")
       /\ \/ FindBySlug(x.org, SlugOf[n]) = {} /\ Await(r, "tag.insert", l)
          \/ FindBySlug(x.org, SlugOf[n]) # {} /\ Answer(r, l, 409)
  /\ ReadOnly

\* A session without an active organization, a member's, never gets here.
CreateTagInsert(r) ==
  LET l == local[r] IN
  /\ pc[r] = "tag.insert"
  /\ \/ FindBySlug(l.org, SlugOf[l.name]) # {} /\ Answer(r, l, 409) /\ ReadOnly
     \/ /\ FindBySlug(l.org, SlugOf[l.name]) = {}
        /\ \E t \in Tags :
             /\ tag[t] = NoTag
             /\ tag' = [tag EXCEPT ![t] = [org |-> l.org, slug |-> SlugOf[l.name]]]
        /\ Answer(r, l, 201)
        /\ UNCHANGED contact

UpdateTagStart(r) ==
  /\ \E x \in Contexts, t \in Tags, n \in Names \union {Undefined} :
       /\ Admitted(r, x, "tag:update")
       /\ \/ FindTag(x.org, t)  /\ Await(r, "tag.update", OnTag(x, t, n))
          \/ ~FindTag(x.org, t) /\ Answer(r, With(x), 404)
  /\ ReadOnly

MutUpdateTagWriteUpserts(r) ==
  LET l == local[r] IN
  /\ pc[r] = "tag.update"
  /\ l.name # Undefined
  /\ tag' = [tag EXCEPT ![l.tag] = [@ EXCEPT !.slug = SlugOf[l.name]]]
  /\ Answer(r, l, 200)
  /\ UNCHANGED contact

\* tag.update by id alone: the tag may be gone, the new slug another tag's.
\* Without a name only the colour changes.
UpdateTagWrite(r) ==
  LET l == local[r]
      others == FindBySlug(tag[l.tag].org, SlugOf[l.name]) \ {l.tag} IN
  /\ pc[r] = "tag.update"
  /\ \/ ~TagExists(l.tag) /\ Answer(r, l, 404) /\ ReadOnly
     \/ TagExists(l.tag) /\ l.name = Undefined /\ Answer(r, l, 200) /\ ReadOnly
     \/ /\ TagExists(l.tag) /\ l.name # Undefined
        /\ others # {} /\ Answer(r, l, 409) /\ ReadOnly
     \/ /\ TagExists(l.tag) /\ l.name # Undefined
        /\ others = {}
        /\ tag' = [tag EXCEPT ![l.tag] = [@ EXCEPT !.slug = SlugOf[l.name]]]
        /\ Answer(r, l, 200)
        /\ UNCHANGED contact

RemoveTagStart(r) ==
  /\ \E x \in Contexts, t \in Tags :
       /\ Admitted(r, x, "tag:delete")
       /\ \/ FindTag(x.org, t)  /\ Await(r, "tag.delete", OnTag(x, t, Undefined))
          \/ ~FindTag(x.org, t) /\ Answer(r, With(x), 404)
  /\ ReadOnly

\* tag.delete: the row goes, and its contact_tag rows with it (onDelete: Cascade).
RemoveTagWrite(r) ==
  LET t == local[r].tag IN
  /\ pc[r] = "tag.delete"
  /\ \/ ~TagExists(t) /\ Answer(r, local[r], 404) /\ ReadOnly
     \/ /\ TagExists(t)
        /\ tag' = [tag EXCEPT ![t] = DeletedTag]
        /\ contact' = [k \in Contacts |-> [contact[k] EXCEPT !.tags = @ \ {t}]]
        /\ Answer(r, local[r], 204)

-----------------------------------------------------------------------------
\* The awaited call rejects for a reason of its own, or the process dies.
Fail(r) ==
  /\ pc[r] \in Awaits
  /\ Answer(r, local[r], 500)
  /\ ReadOnly

Reply(r) ==
  /\ pc[r] = "done"
  /\ Await(r, "idle", Blank)
  /\ ReadOnly

Handle(r) ==
  \/ Refuse(r) \/ Read(r) \/ ListTags(r)
  \/ CreateStart(r) \/ CreateTags(r) \/ CreateInsert(r)
  \/ UpdateStart(r) \/ UpdateTags(r) \/ UpdateWrite(r)
  \/ RemoveStart(r) \/ RemoveWrite(r)
  \/ CreateTagStart(r) \/ CreateTagInsert(r)
  \/ UpdateTagStart(r) \/ UpdateTagWrite(r)
  \/ RemoveTagStart(r) \/ RemoveTagWrite(r)
  \/ Fail(r) \/ Reply(r)

Next == \E r \in Requests : Handle(r)

Spec == Init /\ [][Next]_vars

-----------------------------------------------------------------------------
(* Properties.                                                             *)

Slugs == {SlugOf[n] : n \in Names}

\* Every variable has its type, and only an array that names a tag is tested.
TypeOK ==
  /\ contact \in [Contacts -> [org : Orgs \union {None}, phone : Phones \union {None},
                               tags : SUBSET Tags, deleted : BOOLEAN]]
  /\ tag \in [Tags -> [org : Orgs, slug : Slugs] \union {NoTag, DeletedTag}]
  /\ pc \in [Requests -> Awaits \union {"idle", "done"}]
  /\ local \in [Requests ->
       [org : Orgs \union {None}, contact : Contacts \union {None}, tag : Tags \union {None},
        phone : Phones \union {None}, tagIds : TagIds \union {NoTagIds},
        name : Names \union {Undefined},
        found : SUBSET (Contacts \union Tags), code : {0, 200, 201, 204, 400, 403, 404, 409, 500}]]
  /\ \A r \in Requests : pc[r] \in {"create.tags", "update.tags"} => local[r].tagIds.ids # {}

\* A contact carries only tags that exist and belong to its own tenant.  No
\* constraint ties a contact's organizationId to its tags': the handlers read
\* the tags before they write, and tags are renamed and deleted in between.
TagsStayInTenant ==
  \A k \in Contacts : \A t \in contact[k].tags : tag[t].org = contact[k].org

\* A row changes only in a step of a request of the row's tenant, although
\* every write but the inserts names it by id alone: a contact through its
\* handlers, and through the deletion of a tag it carries.
WritesStayInTenant ==
  [][/\ \A k \in Contacts : contact'[k] # contact[k] =>
          \E r \in Requests : pc'[r] # pc[r] /\ local'[r].org = contact'[k].org
     /\ \A t \in Tags : tag'[t] # tag[t] =>
          \E r \in Requests : pc'[r] # pc[r] /\ local'[r].org \in {tag[t].org, tag'[t].org}]_rows

\* A number is refused as a duplicate only when a contact of the same tenant
\* has it (a deleted one, perhaps) or the body names a tag twice: what another
\* tenant stores never shows.
RefusedMeansTaken ==
  \A r \in Requests :
    (pc[r] = "done" /\ local[r].code = 409 /\ local[r].phone # None) =>
      PhoneTaken(local[r].org, local[r].phone) \/ local[r].tagIds.repeated
=============================================================================
