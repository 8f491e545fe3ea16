---------------------------- MODULE ContentStudio ----------------------------
(***************************************************************************)
(* The Content Studio of the admin routes, one website page of it: sys     *)
(* admins edit the page and its sections, publish it (which first stores   *)
(* a snapshot as a revision), archive it, and roll it back to a revision.  *)
(*                                                                         *)
(* A publish and a rollback are transactions of several statements under   *)
(* READ COMMITTED; the others are one statement and its commit.  Nobody    *)
(* locks anything by hand, so what excludes what is left to PostgreSQL:    *)
(* the UPDATE of the page row locks the page until the commit, a deleted   *)
(* section stays locked, and UNIQUE (page_id, position) makes an INSERT    *)
(* wait for, or fail on, the section that has the position.                *)
(***************************************************************************)
EXTENDS Naturals, FiniteSets

CONSTANTS
  Sections,       \* ids a section of the page can get
  Positions,      \* positions; the one field of a section that is modelled
  Texts,          \* values of the page's own texts
  Revisions,      \* ids a revision can get: the bound on publishes
  Requests,       \* requests that may be in progress at once
  None,           \* no position, no snapshot, no revision
  MaxEdits        \* bound: edits of the page and its sections

\* published and archived: whether published_at and archived_at have a date.
Pages == [text : Texts, status : {"draft", "published", "archived"},
          published : BOOLEAN, archived : BOOLEAN]
Layouts == [Sections -> Positions \cup {None}]
Snapshots == [page : Pages, sections : Layouts]

ASSUME StudioAssumption ==
  /\ None \notin Positions \cup Texts \cup Revisions \cup Snapshots
  /\ MaxEdits \in Nat

VARIABLES
  page,           \* the website_pages row
  sections,       \* website_page_sections: each section's position, or None
  revisions,      \* content_page_revisions: each revision's snapshot, or None
  pc, rev, snap,  \* each request: how far, its revision, the snapshot it holds
  deleted,        \* sections the open DELETE of a rollback has locked
  used,           \* section ids given out: uuid4 never repeats
  edits,          \* edits so far
  changed         \* history: requests in whose time another one committed

rows == <<page, sections, revisions>>
request == <<pc, rev, snap, deleted>>
vars == <<rows, request, used, edits, changed>>

NoSections == [s \in Sections |-> None]

\* create_website_page: a draft without dates and without sections.
Init ==
  /\ page \in [text : Texts, status : {"draft"},
               published : {FALSE}, archived : {FALSE}]
  /\ sections = NoSections
  /\ revisions = [v \in Revisions |-> None]
  /\ pc = [r \in Requests |-> "idle"]
  /\ rev = [r \in Requests |-> None]
  /\ snap = [r \in Requests |-> None]
  /\ deleted = [r \in Requests |-> {}]
  /\ used = {} /\ edits = 0 /\ changed = {}

Live(layout) == {s \in Sections : layout[s] # None}

-----------------------------------------------------------------------------
(* What PostgreSQL locks.                                                  *)

\* Between its UPDATE of the page and its commit, only a rollback is open.
PageFree == \A r \in Requests : pc[r] \notin {"updated", "deleted", "inserted"}

\* An UPDATE or a DELETE of the section waits, and then finds it gone.
SectionFree(s) == \A r \in Requests : s \notin deleted[r]

\* An INSERT at the position waits for the end of the rollback that holds it.
PositionFree(p) ==
  \A r \in Requests :
    /\ \A s \in deleted[r] : sections[s] # p
    /\ pc[r] = "inserted" => \A s \in Sections : snap[r].sections[s] # p

\* UNIQUE (page_id, position).
Taken(p) == \E s \in Sections : sections[s] = p

-----------------------------------------------------------------------------
(* Single statements: patch_website_page and the routes of sections.       *)

Edit ==
  /\ edits < MaxEdits /\ edits' = edits + 1
  /\ changed' = changed \cup {r \in Requests : pc[r] # "idle"}
  /\ UNCHANGED <<revisions, request>>

PatchPage(t) ==
  /\ PageFree
  /\ page' = [page EXCEPT !.text = t]
  /\ Edit
  /\ UNCHANGED <<sections, used>>

\* The INSERT shares the page row, as its foreign key asks: it does not wait
\* for a rollback of the page, unless it wants a position the rollback has.
CreateSection(s, p) ==
  /\ s \notin used /\ used' = used \cup {s}
  /\ PositionFree(p) /\ ~Taken(p)
  /\ sections' = [sections EXCEPT ![s] = p]
  /\ Edit
  /\ UNCHANGED page

PatchSection(s, p) ==
  /\ s \in Live(sections) /\ SectionFree(s)
  /\ PositionFree(p) /\ ~Taken(p)
  /\ sections' = [sections EXCEPT ![s] = p]
  /\ Edit
  /\ UNCHANGED <<page, used>>

DeleteSection(s) ==
  /\ s \in Live(sections) /\ SectionFree(s)
  /\ sections' = [sections EXCEPT ![s] = None]
  /\ Edit
  /\ UNCHANGED <<page, used>>

-----------------------------------------------------------------------------
(* The requests of several statements.                                     *)

Goto(r, from, to) == pc[r] = from /\ pc' = [pc EXCEPT ![r] = to]

\* COMMIT, or ROLLBACK when the handler raised.
Done(r) ==
  /\ pc' = [pc EXCEPT ![r] = "idle"]
  /\ rev' = [rev EXCEPT ![r] = None]
  /\ snap' = [snap EXCEPT ![r] = None]
  /\ deleted' = [deleted EXCEPT ![r] = {}]

Others(r) == {q \in Requests \ {r} : pc[q] # "idle"}

\* Any error, or the death of the process, between two statements.
Fail(r) ==
  /\ pc[r] # "idle"
  /\ Done(r)
  /\ changed' = changed \ {r}
  /\ UNCHANGED <<rows, used, edits>>

\* _create_page_revision: one SELECT of the page and its sections; the INSERT
\* is visible to nobody before the commit.
CreatePageRevision(r, v) ==
  /\ Goto(r, "idle", "publishing")
  /\ revisions[v] = None /\ \A q \in Requests : rev[q] # v
  /\ rev' = [rev EXCEPT ![r] = v]
  /\ snap' = [snap EXCEPT ![r] = [page |-> page, sections |-> sections]]
  /\ UNCHANGED <<rows, deleted, used, edits, changed>>

\* Mutant: a publish leaves published_at as it is.
WithStatus_Bug(pg, status) ==
  [pg EXCEPT !.status = status,
             !.archived = @ \/ status = "archived"]

\* published_at and archived_at are set, never cleared.
WithStatus(pg, status) ==
  [pg EXCEPT !.status = status,
             !.published = @ \/ status = "published",
             !.archived = @ \/ status = "archived"]

\* Mutant: the page is published and its revision is not stored.
Publish_Bug(r) ==
  /\ pc[r] = "publishing" /\ PageFree
  /\ page' = WithStatus(page, "published")
  /\ changed' = (changed \cup Others(r)) \ {r}
  /\ Done(r)
  /\ UNCHANGED <<sections, revisions, used, edits>>

\* The UPDATE, and the commit that shows the revision too.
Publish(r) ==
  /\ pc[r] = "publishing" /\ PageFree
  /\ page' = WithStatus(page, "published")
  /\ revisions' = [revisions EXCEPT ![rev[r]] = snap[r]]
  /\ changed' = (changed \cup Others(r)) \ {r}
  /\ Done(r)
  /\ UNCHANGED <<sections, used, edits>>

\* To draft or to archived: no revision.
PatchStatus(status) ==
  /\ PageFree
  /\ page' = WithStatus(page, status)
  /\ changed' = changed \cup {r \in Requests : pc[r] # "idle"}
  /\ UNCHANGED <<sections, revisions, request, used, edits>>

\* rollback_website_page_revision: the SELECT of the revision.
ReadRevision(r, v) ==
  /\ Goto(r, "idle", "read")
  /\ revisions[v] # None
  /\ snap' = [snap EXCEPT ![r] = revisions[v]]
  /\ UNCHANGED <<rows, rev, deleted, used, edits, changed>>

\* The dates of a snapshot are JSON strings, which the driver refuses as
\* timestamps: a snapshot with one cannot be restored.
Restorable(sn) == ~sn.page.published /\ ~sn.page.archived

\* The UPDATE of the page; it locks the row until the commit.
UpdatePage(r) ==
  /\ Goto(r, "read", "updated")
  /\ PageFree
  /\ Restorable(snap[r])
  /\ UNCHANGED <<rows, rev, snap, deleted, used, edits, changed>>

\* Mutant: only the sections of the snapshot make way.
DeleteSections_Bug(r) ==
  /\ Goto(r, "updated", "deleted")
  /\ deleted' = [deleted EXCEPT
                   ![r] = Live(sections) \cap Live(snap[r].sections)]
  /\ changed' = changed \ {r}
  /\ UNCHANGED <<rows, rev, snap, used, edits>>

\* DELETE of every section it sees; what is created from now on survives it.
DeleteSections(r) ==
  /\ Goto(r, "updated", "deleted")
  /\ deleted' = [deleted EXCEPT ![r] = Live(sections)]
  /\ changed' = changed \ {r}
  /\ UNCHANGED <<rows, rev, snap, used, edits>>

Kept(r) == Live(sections) \ deleted[r]

\* The INSERTs, ids and positions of the snapshot: none may be taken by a
\* section that was created since the DELETE.
InsertSections(r) ==
  /\ Goto(r, "deleted", "inserted")
  /\ \A s \in Kept(r), o \in Live(snap[r].sections) :
       s # o /\ sections[s] # snap[r].sections[o]
  /\ UNCHANGED <<rows, rev, snap, deleted, used, edits, changed>>

CommitRollback(r) ==
  /\ pc[r] = "inserted"
  /\ page' = snap[r].page
  /\ sections' = [s \in Sections |->
                    IF s \in Kept(r) THEN sections[s] ELSE snap[r].sections[s]]
  /\ changed' = (changed \cup Others(r)) \ {r}
  /\ Done(r)
  /\ UNCHANGED <<revisions, used, edits>>

-----------------------------------------------------------------------------
Step(r) ==
  \/ \E v \in Revisions : CreatePageRevision(r, v) \/ ReadRevision(r, v)
  \/ Publish(r)
  \/ UpdatePage(r) \/ DeleteSections(r) \/ InsertSections(r)
  \/ CommitRollback(r)
  \/ Fail(r)

Next ==
  \/ \E t \in Texts : PatchPage(t)
  \/ \E s \in Sections, p \in Positions : CreateSection(s, p)
                                            \/ PatchSection(s, p)
  \/ \E s \in Sections : DeleteSection(s)
  \/ \E status \in {"draft", "archived"} : PatchStatus(status)
  \/ \E r \in Requests : Step(r)

Spec == Init /\ [][Next]_vars

-----------------------------------------------------------------------------
(* Properties.                                                             *)

TypeOK ==
  /\ page \in Pages /\ sections \in Layouts
  /\ revisions \in [Revisions -> Snapshots \cup {None}]
  /\ pc \in [Requests -> {"idle", "publishing", "read", "updated", "deleted",
                          "inserted"}]
  /\ rev \in [Requests -> Revisions \cup {None}]
  /\ snap \in [Requests -> Snapshots \cup {None}]
  /\ deleted \in [Requests -> SUBSET Sections]
  /\ used \subseteq Sections /\ edits \in 0..MaxEdits
  /\ changed \subseteq Requests

\* The row locks keep rollbacks, publishes and edits of one page apart: a
\* rollback leaves the page and the sections of its snapshot, and no others
\* unless another request committed one after its DELETE.
RollbackRestores ==
  [][\A r \in Requests : CommitRollback(r) =>
       /\ page' = snap[r].page
       /\ \A s \in Live(snap[r].sections) :
            sections'[s] = snap[r].sections[s]
       /\ sections' = snap[r].sections \/ r \in changed]_vars

\* A publish stores its snapshot before it sets the status, and a snapshot
\* with a date cannot be restored (admin.py:1174, 1394): so no rollback puts
\* a page online, or leaves it archived.
RollbackLeavesDraft ==
  [][\A r \in Requests : CommitRollback(r) =>
       page'.status = "draft" /\ ~page'.published /\ ~page'.archived]_vars

\* Whatever a publish puts online is the content of a revision, unless another
\* request committed between the snapshot and the UPDATE (admin.py:1174-1176).
PublishedIsRecorded ==
  [][\A r \in Requests :
       Publish(r) =>
         \/ r \in changed
         \/ \E v \in Revisions :
              /\ revisions'[v] # None
              /\ revisions'[v].sections = sections'
              /\ revisions'[v].page.text = page'.text]_vars
=============================================================================
