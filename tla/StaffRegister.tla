--------------------------- MODULE StaffRegister ---------------------------
(***************************************************************************)
(* StaffService: the accounts of the staff, and an admin who pages through *)
(* the list of them while others change it.                                *)
(*                                                                         *)
(* An account is removed softly and keeps its email and its phone, which   *)
(* UNIQUE indexes cover; the checks before a write look at all accounts    *)
(* for the email and at the live ones for the phone.  Names, roles, hours, *)
(* passwords, PINs and isActive are left out: no check of this service      *)
(* depends on them.                                                        *)
(***************************************************************************)
EXTENDS Integers, Sequences, FiniteSets

CONSTANTS
    Editors,   \* slots for requests in flight
    Emails,
    SeedEmail, \* the email of an account of the seed script
    Phones,
    NoPhone,   \* an account without a phone
    Keep,      \* an update that leaves a column out
    PageSize,  \* the limit of a listing
    MaxStaff   \* bound on the accounts ever made

ASSUME StaffAssumption ==
    /\ SeedEmail \in Emails
    /\ Keep \notin Emails \cup Phones
    /\ NoPhone \notin Phones /\ NoPhone # Keep
    /\ PageSize \in Nat \ {0}
    /\ MaxStaff \in Nat

VARIABLES
    users,     \* the accounts, in the order of their creation
    edit,      \* handlers in flight
    walk,      \* the admin's way through the pages of the list
    seen,      \* the accounts the walk has shown
    start,     \* history: the live accounts when the walk began
    twice,     \* history: the walk has shown an account again
    grown,     \* history: an account was made during the walk
    shrunk,    \* history: an account was removed during the walk
    slipped    \* history: an account was made between the count of a page and
               \* the reading of its rows

staff == <<users, edit>>
listing == <<walk, seen, start, twice, grown, shrunk, slipped>>
staffVars == <<users, edit, walk, seen, start, twice, grown, shrunk, slipped>>

User == [email: Emails, phone: Phones \cup {NoPhone}, live: BOOLEAN]
Ids == 1..MaxStaff
New == 0

NoEdit == [at |-> "idle"]
Edit == [at: {"email", "phone", "write"}, who: Ids \cup {New}, email: Emails \cup {Keep},
         phone: Phones \cup {NoPhone, Keep}, late: BOOLEAN]
         \cup [at: {"remove"}, who: Ids]

NoWalk == [at |-> "none"]
Unread == -1
Walk == [at: {"page", "end"}, page: 1..(MaxStaff + 1), total: 0..MaxStaff \cup {Unread},
         read: BOOLEAN]

StaffTypeOK ==
    /\ users \in Seq(User) /\ Len(users) <= MaxStaff
    /\ edit \in [Editors -> Edit \cup {NoEdit}]
    /\ walk \in Walk \cup {NoWalk}
    /\ seen \subseteq Ids
    /\ start \subseteq DOMAIN users
    /\ <<twice, grown, shrunk, slipped>> \in BOOLEAN \X BOOLEAN \X BOOLEAN \X BOOLEAN

-----------------------------------------------------------------------------
(* Accounts.                                                               *)

Live(u) == u \in DOMAIN users /\ users[u].live

\* A check that overlooks removed accounts.
LiveEmailTaken(email, who) ==
    \E u \in DOMAIN users \ {who} : users[u].live /\ users[u].email = email

\* user.findUnique({ email }): removed accounts count.
EmailTaken(email, who) == \E u \in DOMAIN users \ {who} : users[u].email = email

\* user.findFirst({ phone, deletedAt: null }): removed accounts do not count.
PhoneTaken(phone, who) ==
    \E u \in DOMAIN users \ {who} : users[u].live /\ users[u].phone = phone

\* The UNIQUE indexes; what is left out, and no phone, is not in their way.
Free(j) ==
    /\ \A u \in DOMAIN users \ {j.who} : users[u].email # j.email
    /\ j.phone \in Phones => \A u \in DOMAIN users \ {j.who} : users[u].phone # j.phone

Start(h, j) == edit[h] = NoEdit /\ edit' = [edit EXCEPT ![h] = j]
Continue(h, j) == edit' = [edit EXCEPT ![h] = j]
Done(h) == Continue(h, NoEdit)

AfterEmail(phone) == IF phone \in Phones THEN "phone" ELSE "write"

CreateStaff(h, email, phone) ==
    /\ ~ EmailTaken(email, New)
    /\ Start(h, [at |-> AfterEmail(phone), who |-> New,
                 email |-> email, phone |-> phone, late |-> FALSE])
    /\ UNCHANGED <<users, listing>>

UpdateStaff(h, u, email, phone) ==
    /\ Live(u)
    /\ Start(h, [at |-> IF email = Keep THEN AfterEmail(phone) ELSE "email", who |-> u,
                 email |-> email, phone |-> phone, late |-> FALSE])
    /\ UNCHANGED <<users, listing>>

CheckEmail(h) ==
    /\ edit[h].at = "email"
    /\ IF EmailTaken(edit[h].email, edit[h].who)
       THEN Done(h)
       ELSE Continue(h, [edit[h] EXCEPT !.at = AfterEmail(edit[h].phone)])
    /\ UNCHANGED <<users, listing>>

CheckPhone(h) ==
    /\ edit[h].at = "phone"
    /\ IF PhoneTaken(edit[h].phone, edit[h].who)
       THEN Done(h)
       ELSE Continue(h, [edit[h] EXCEPT !.at = "write"])
    /\ UNCHANGED <<users, listing>>

\* Another handler has checked what this write takes.
Overtaken(j, email, phone) ==
    \/ j.at \in {"phone", "write"} /\ j.email \in Emails /\ j.email = email
    \/ j.at = "write" /\ j.phone \in Phones /\ j.phone = phone

\* The handlers after h has written an email and a phone.
Written(h, email, phone) ==
    edit' = [g \in Editors |->
              CASE g = h -> NoEdit
                [] g # h /\ Overtaken(edit[g], email, phone) -> [edit[g] EXCEPT !.late = TRUE]
                [] OTHER -> edit[g]]

\* The list gets one more account at its head, perhaps in the middle of a page.
Grows ==
    /\ grown' = (grown \/ walk.at = "page")
    /\ slipped' = (slipped \/ (walk.at = "page" /\ walk.total # Unread /\ ~ walk.read))
    /\ UNCHANGED <<walk, seen, start, twice, shrunk>>

AddStaff(email, phone) ==
    /\ Len(users) < MaxStaff
    /\ users' = Append(users, [email |-> email, phone |-> phone, live |-> TRUE])
    /\ Grows

\* user.create; with an email or a phone that is not free the request ends with 409.
InsertStaff(h) ==
    /\ edit[h].at = "write" /\ edit[h].who = New
    /\ IF Free(edit[h])
       THEN /\ AddStaff(edit[h].email, edit[h].phone)
            /\ Written(h, edit[h].email, edit[h].phone)
       ELSE Done(h) /\ UNCHANGED <<users, listing>>

\* An update that writes a column it was not sent.
Sent(new, old) == new

Chosen(new, old) == IF new = Keep THEN old ELSE new

Updated(row, j) == [row EXCEPT !.email = Chosen(j.email, row.email),
                               !.phone = Chosen(j.phone, row.phone)]

\* user.update by id, of an account that may be removed by now.
WriteStaff(h) ==
    /\ edit[h].at = "write" /\ edit[h].who # New
    /\ IF Free(edit[h])
       THEN /\ users' = [users EXCEPT ![edit[h].who] = Updated(@, edit[h])]
            /\ Written(h, edit[h].email, edit[h].phone)
       ELSE Done(h) /\ UNCHANGED users
    /\ UNCHANGED listing

RemoveStaff(h, u) ==
    /\ Live(u)
    /\ Start(h, [at |-> "remove", who |-> u])
    /\ UNCHANGED <<users, listing>>

\* The account goes out of the list and keeps its email and its phone.
DeactivateStaff(h) ==
    /\ edit[h].at = "remove"
    /\ users' = [users EXCEPT ![edit[h].who].live = FALSE]
    /\ Done(h)
    /\ shrunk' = (shrunk \/ walk.at = "page")
    /\ UNCHANGED <<walk, seen, start, twice, grown, slipped>>

\* user.upsert by email: an account that is there, removed or not, stays as it is.
SeedStaff ==
    /\ ~ EmailTaken(SeedEmail, New)
    /\ AddStaff(SeedEmail, NoPhone)
    /\ edit' = [g \in Editors |-> IF Overtaken(edit[g], SeedEmail, NoPhone)
                                  THEN [edit[g] EXCEPT !.late = TRUE] ELSE edit[g]]

\* A handler ends where it is: a statement fails or the server is gone.
CutOff(h) ==
    /\ edit[h] # NoEdit
    /\ Done(h)
    /\ UNCHANGED <<users, listing>>

-----------------------------------------------------------------------------
(* The list, newest account first, read page by page.                      *)

\* Pages as if they were counted from 0.
SkipWhole(page) == page * PageSize

Skip(page) == (page - 1) * PageSize

\* Math.ceil(totalItems / limit) || 1
TotalPages(total) == IF total = 0 THEN 1 ELSE (total + PageSize - 1) \div PageSize

Listed == {u \in DOMAIN users : users[u].live}
Place(u) == Cardinality({v \in Listed : v > u})

\* A page that takes one row too many.
RowsAndOne(page) == {u \in Listed : Place(u) \in Skip(page)..(Skip(page) + PageSize)}

\* findMany({ skip, take })
Rows(page) == {u \in Listed : Place(u) \in Skip(page)..(Skip(page) + PageSize - 1)}

Page(n) == [at |-> "page", page |-> n, total |-> Unread, read |-> FALSE]

StartWalk ==
    /\ walk = NoWalk
    /\ walk' = Page(1)
    /\ start' = Listed
    /\ UNCHANGED <<staff, seen, twice, grown, shrunk, slipped>>

\* The count and the rows of a page are two queries, in either order.
CountStaff ==
    /\ walk.at = "page" /\ walk.total = Unread
    /\ walk' = [walk EXCEPT !.total = Cardinality(Listed)]
    /\ UNCHANGED <<staff, seen, start, twice, grown, shrunk, slipped>>

ReadRows ==
    /\ walk.at = "page" /\ ~ walk.read
    /\ walk' = [walk EXCEPT !.read = TRUE]
    /\ seen' = seen \cup Rows(walk.page)
    /\ twice' = (twice \/ Rows(walk.page) \cap seen # {})
    /\ UNCHANGED <<staff, start, grown, shrunk, slipped>>

\* The admin goes on while meta.hasNextPage.
TurnPage ==
    /\ walk.at = "page" /\ walk.total # Unread /\ walk.read
    /\ walk' = IF walk.page < TotalPages(walk.total)
               THEN Page(walk.page + 1)
               ELSE [walk EXCEPT !.at = "end"]
    /\ UNCHANGED <<staff, seen, start, twice, grown, shrunk, slipped>>

LeaveList ==
    /\ walk.at = "end"
    /\ walk' = NoWalk
    /\ seen' = {} /\ start' = {}
    /\ twice' = FALSE /\ grown' = FALSE /\ shrunk' = FALSE /\ slipped' = FALSE
    /\ UNCHANGED staff

-----------------------------------------------------------------------------

StaffInit ==
    /\ users = <<>>
    /\ edit = [h \in Editors |-> NoEdit]
    /\ walk = NoWalk
    /\ seen = {} /\ start = {}
    /\ twice = FALSE /\ grown = FALSE /\ shrunk = FALSE /\ slipped = FALSE

StaffNext(h) ==
    \/ \E email \in Emails, phone \in Phones \cup {NoPhone} : CreateStaff(h, email, phone)
    \/ \E u \in DOMAIN users, email \in Emails \cup {Keep}, phone \in Phones \cup {NoPhone, Keep} :
          UpdateStaff(h, u, email, phone)
    \/ CheckEmail(h) \/ CheckPhone(h) \/ InsertStaff(h) \/ WriteStaff(h)
    \/ \E u \in DOMAIN users : RemoveStaff(h, u)
    \/ DeactivateStaff(h) \/ CutOff(h)

ListNext == StartWalk \/ CountStaff \/ ReadRows \/ TurnPage \/ LeaveList

RegisterNext == (\E h \in Editors : StaffNext(h)) \/ SeedStaff \/ ListNext

StaffSpec == StaffInit /\ [][RegisterNext]_staffVars

-----------------------------------------------------------------------------
(* Properties.                                                             *)

\* Who has passed the checks is refused by an index for a reason the admin can see
\* coming: another request was faster, or another account that is removed still has
\* the phone that the request asks for.
RefusalsAreExplained ==
    \A h \in Editors :
        edit[h].at = "write" /\ ~ Free(edit[h]) =>
            \/ edit[h].late
            \/ /\ edit[h].phone \in Phones
               /\ \E u \in DOMAIN users \ {edit[h].who} :
                    ~ users[u].live /\ users[u].phone = edit[h].phone

\* While accounts are only added, who pages to the end sees every account that was
\* there at the start, unless one was added between the count and the rows of a page.
GrowingListIsCovered ==
    walk.at = "end" /\ ~ shrunk /\ ~ slipped => start \subseteq seen

\* While accounts are only removed, no account is shown twice.
ShrinkingListDoesNotRepeat == ~ grown => ~ twice

\* Two accounts have two emails, and two phones if both have one, whatever the checks
\* before the writes overlook.
ColumnsAreUnique ==
    \A u, v \in DOMAIN users : u # v =>
        /\ users[u].email # users[v].email
        /\ users[u].phone = users[v].phone => users[u].phone = NoPhone

\* Who pages to the end of a list that nobody changes meanwhile has seen exactly its
\* accounts, and each of them once.
UnchangedListIsExact == walk.at = "end" /\ ~ grown /\ ~ shrunk => seen = start /\ ~ twice
=============================================================================
