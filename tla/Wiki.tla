-------------------------------- MODULE Wiki --------------------------------
(***************************************************************************)
(* The pages of the wiki (wiki/views.py, models.py): a page is created,    *)
(* edited, moved to another space, restored to one of its revisions and    *)
(* deleted with everything below it.                                       *)
(*                                                                         *)
(* Every writer reads the row of its page, records what it read as a       *)
(* revision, saves the whole row and rewrites the links of the page, each  *)
(* in statements of its own and without a transaction around them.  The    *)
(* requests of several people interleave between them, and each may break  *)
(* off anywhere.                                                           *)
(***************************************************************************)
EXTENDS Integers, FiniteSets

CONSTANTS
  Pages,        (* primary keys                                            *)
  Spaces,
  Titles,       (* titles; a slug is a title and a number                  *)
  Bodies,
  Mentions,     (* Mentions[b]: the titles body b has [[wikilinks]] to     *)
  Editors,      (* threads that serve the forms                            *)
  MaxEdits,     (* forms posted (bound)                                    *)
  NoPage,       (* no row yet; NULL                                        *)
  Deleted       (* no row any more                                         *)

(* A row: its slug is a title and a number, its parent may be NULL.        *)
PageRows == [title : Titles, slug : Titles \X Int, space : Spaces,
             parent : Pages \union {NoPage}, body : Bodies]

ASSUME WikiAssumption ==
  /\ \A b \in Bodies : Mentions[b] \subseteq Titles
  /\ MaxEdits \in Nat
  /\ {NoPage, Deleted} \intersect Pages = {} /\ NoPage # Deleted
  /\ NoPage \notin PageRows /\ Deleted \notin PageRows

VARIABLES
  page,       (* Page rows                                                 *)
  revisions,  (* PageRevision rows of each page                            *)
  links,      (* PageLink rows                                             *)
  editor,     (* what each thread does                                     *)
  written,    (* history: the bodies each page has had                     *)
  exposed,    (* history: those an older copy may overwrite unseen         *)
  torn,       (* history: pages whose last save was not the last to write  *)
              (* their links, or did not get to it                         *)
  edits       (* forms posted so far                                       *)

wikiHistory == <<written, exposed, torn>>
wikiVars == <<page, revisions, links, editor, written, exposed, torn, edits>>

----------------------------------------------------------------------------
Exists(p) == page[p] \notin {NoPage, Deleted}

Rows == {p \in Pages : Exists(p)}

(* A request that edits holds the row it read, the row it will save, the   *)
(* number of the last revision and the links it has yet to create.  A      *)
(* fresh one has inserted its page itself.                                 *)
Reading == [pc |-> "idle", page |-> NoPage, fresh |-> FALSE, row |-> NoPage,
            new |-> NoPage, last |-> 0, todo |-> {}]

At(e, p, pcs) == editor[e].page = p /\ editor[e].pc \in pcs

(* Between the save of a page and the last of its links.                   *)
Linking(e, p) ==
  \/ At(e, p, {"unlink", "link"})
  \/ editor[e].fresh /\ At(e, p, {"number", "snapshot"})

(* The request is over, complete or not.                                   *)
Done(e)  == editor' = [editor EXCEPT ![e] = Reading]
Fails(e) ==
  /\ torn' = torn \union {p \in Pages : Linking(e, p)}
  /\ Done(e)
  /\ UNCHANGED <<page, revisions, links, written, exposed>>

Goes(e, pc) == editor' = [editor EXCEPT ![e].pc = pc]

WikiInit ==
  /\ page      = [p \in Pages |-> NoPage]
  /\ revisions = [p \in Pages |-> {}]
  /\ links     = {}
  /\ editor    = [e \in Editors |-> Reading]
  /\ written   = {}
  /\ exposed   = {}
  /\ torn      = {}
  /\ edits     = 0

Posted(e) ==
  /\ editor[e].pc = "idle"
  /\ edits < MaxEdits
  /\ edits' = edits + 1
  /\ UNCHANGED <<page, revisions, links, wikiHistory>>

----------------------------------------------------------------------------
(***************************************************************************)
(* New pages                                                               *)
(***************************************************************************)

SlugTaken(space, slug, p) ==
  \E q \in Rows \ {p} : page[q].space = space /\ page[q].slug = slug

(* _unique_page_slug: the first slug of the title that is free.            *)
IsUniqueSlug(space, slug, p) ==
  /\ ~SlugTaken(space, slug, p)
  /\ \A j \in 1..(slug[2] - 1) : SlugTaken(space, <<slug[1], j>>, p)

(* page_new.  The parent, if any, may be a page of another space.          *)
New(e, p) ==
  /\ page[p] = NoPage
  /\ \A o \in Editors : editor[o].page # p
  /\ \E t \in Titles, b \in Bodies, s \in Spaces, up \in Rows \union {NoPage},
        k \in 1..(Cardinality(Pages) + 1) :
       LET row == [title |-> t, slug |-> <<t, k>>, space |-> s, parent |-> up,
                   body |-> b]
       IN  /\ IsUniqueSlug(s, row.slug, p)
           /\ editor' = [editor EXCEPT ![e] =
                [Reading EXCEPT !.pc = "insert", !.page = p, !.fresh = TRUE,
                                !.row = row, !.new = row]]
  /\ Posted(e)

(* The constraints of the database on a row about to be saved: its slug is *)
(* free in its space, its parent is there.                                 *)
Refused(row, p) ==
  \/ SlugTaken(row.space, row.slug, p)
  \/ row.parent # NoPage /\ ~Exists(row.parent)

Writes(e, p, row) ==
  /\ page' = [page EXCEPT ![p] = row]
  /\ written' = written \union {<<p, row.body>>}

Insert(e) ==
  LET v == editor[e] IN
  /\ v.pc = "insert"
  /\ IF Refused(v.row, v.page) THEN Fails(e)
     ELSE /\ Writes(e, v.page, v.row)
          /\ Goes(e, "number")
          /\ UNCHANGED <<revisions, links, exposed, torn>>
  /\ UNCHANGED edits

----------------------------------------------------------------------------
(***************************************************************************)
(* Edits                                                                   *)
(***************************************************************************)

(* page_edit (_save_page) and page_edit_inline: a new title and body, and  *)
(* perhaps another space; what is below the page stays where it is.        *)
Edit(e, p) ==
  /\ Exists(p)
  /\ \E t \in Titles, b \in Bodies, s \in Spaces :
       editor' = [editor EXCEPT ![e] =
         [Reading EXCEPT !.pc = "number", !.page = p, !.row = page[p],
            !.new = [page[p] EXCEPT !.title = t, !.body = b, !.space = s]]]
  /\ Posted(e)

(* Mutant: what the page says is not recorded before it is overwritten.    *)
Restore_NoSnapshot(e, p) ==
  /\ Exists(p)
  /\ \E r \in revisions[p] :
       editor' = [editor EXCEPT ![e] =
         [Reading EXCEPT !.pc = "save", !.page = p, !.row = page[p],
            !.new = [page[p] EXCEPT !.title = r.title, !.body = r.body]]]
  /\ Posted(e)

(* revision_restore                                                        *)
Restore(e, p) ==
  /\ Exists(p)
  /\ \E r \in revisions[p] :
       editor' = [editor EXCEPT ![e] =
         [Reading EXCEPT !.pc = "number", !.page = p, !.row = page[p],
            !.new = [page[p] EXCEPT !.title = r.title, !.body = r.body]]]
  /\ Posted(e)

(* snapshot_revision: one more than the highest number of the page ...     *)
Number(e) ==
  LET numbers == {r.number : r \in revisions[editor[e].page]} IN
  /\ editor[e].pc = "number"
  /\ \E last \in numbers \union {0} :
       /\ \A n \in numbers : n <= last
       /\ editor' = [editor EXCEPT ![e].last = last, ![e].pc = "snapshot"]
  /\ UNCHANGED <<page, revisions, links, wikiHistory, edits>>

(* ... under which the copy this request read is recorded, unless another  *)
(* one has taken the number or the page is gone.                           *)
Snapshot(e) ==
  LET v == editor[e]
      n == v.last + 1
  IN
  /\ v.pc = "snapshot"
  /\ IF ~Exists(v.page) \/ \E r \in revisions[v.page] : r.number = n
     THEN Fails(e)
     ELSE /\ revisions' = [revisions EXCEPT ![v.page] =
               @ \union {[number |-> n, title |-> v.row.title, body |-> v.row.body]}]
          /\ Goes(e, IF v.fresh THEN "unlink" ELSE "save")
          /\ UNCHANGED <<page, links, wikiHistory>>
  /\ UNCHANGED edits

(* page.save() writes every column.  A page that was deleted in the        *)
(* meantime is inserted again, without the rows that went with it.         *)
Save(e) ==
  LET v == editor[e]
      p == v.page
      kept == \E r \in revisions[p] : r.body = v.new.body
      older == {o \in Editors \ {e} :
                  \/ /\ At(o, p, {"number", "snapshot", "save"})
                     /\ editor[o].row.body # v.new.body
                  \/ At(o, p, {"save"}) /\ ~kept}
  IN
  /\ v.pc = "save"
  /\ IF Refused(v.new, p) THEN Fails(e)
     ELSE /\ Writes(e, p, v.new)
          /\ exposed' = IF older # {} THEN exposed \union {<<p, v.new.body>>}
                                      ELSE exposed \ {<<p, v.new.body>>}
          /\ torn' = IF \E o \in Editors \ {e} : Linking(o, p)
                     THEN torn \union {p} ELSE torn \ {p}
          /\ Goes(e, "unlink")
          /\ UNCHANGED <<revisions, links>>
  /\ UNCHANGED edits

----------------------------------------------------------------------------
(***************************************************************************)
(* _sync_links                                                             *)
(***************************************************************************)

LinkRest(e, todo) ==
  IF todo = {} THEN Done(e)
  ELSE editor' = [editor EXCEPT ![e].pc = "link", ![e].todo = todo]

(* Mutant: the links of the old body stay.                                 *)
Unlink_KeepsOld(e) ==
  /\ editor[e].pc = "unlink"
  /\ LinkRest(e, Mentions[editor[e].new.body])
  /\ UNCHANGED <<page, revisions, links, wikiHistory, edits>>

Unlink(e) ==
  /\ editor[e].pc = "unlink"
  /\ links' = {l \in links : l.source # editor[e].page}
  /\ LinkRest(e, Mentions[editor[e].new.body])
  /\ UNCHANGED <<page, revisions, wikiHistory, edits>>

(* The pages a link may mean: of that title, or of the slug of that title. *)
(* Of several it takes the first by title, which is left open.             *)
Meant(t, p) == {q \in Rows \ {p} : page[q].title = t \/ page[q].slug = <<t, 1>>}

(* A link nobody has a page for is red, and stays so when there is one.    *)
Link(e) ==
  LET v == editor[e] IN
  /\ v.pc = "link"
  /\ IF ~Exists(v.page) THEN Fails(e)
     ELSE \E t \in v.todo :
            \E to \in IF Meant(t, v.page) = {} THEN {NoPage} ELSE Meant(t, v.page) :
              /\ links' = links \union {[source |-> v.page, target |-> to, title |-> t]}
              /\ LinkRest(e, v.todo \ {t})
              /\ UNCHANGED <<page, revisions, wikiHistory>>
  /\ UNCHANGED edits

----------------------------------------------------------------------------
Children(ps) == {q \in Rows : page[q].parent \in ps}

(* Everything below a page, whatever its space.                            *)
Subtree(p) ==
  LET down[n \in Nat] == IF n = 0 THEN {p} ELSE down[n - 1] \union Children(down[n - 1])
  IN  down[Cardinality(Pages)]

(* page_delete: the rows below it, revisions and links go with a page; the *)
(* links of others to it lose their target.                                *)
Delete(e, p) ==
  LET gone == Subtree(p) IN
  /\ Exists(p)
  /\ page' = [q \in Pages |-> IF q \in gone THEN Deleted ELSE page[q]]
  /\ revisions' = [q \in Pages |-> IF q \in gone THEN {} ELSE revisions[q]]
  /\ links' = {[l EXCEPT !.target = IF @ \in gone THEN NoPage ELSE @] :
                 l \in {k \in links : k.source \notin gone}}
  /\ written' = {w \in written : w[1] \notin gone}
  /\ editor[e].pc = "idle" /\ edits < MaxEdits /\ edits' = edits + 1
  /\ UNCHANGED <<editor, exposed, torn>>

(* A statement raises, or the process is restarted.                        *)
BreaksOff(e) == editor[e].pc # "idle" /\ Fails(e) /\ UNCHANGED edits

WikiNext ==
  \E e \in Editors :
    \/ \E p \in Pages : New(e, p) \/ Edit(e, p) \/ Restore(e, p) \/ Delete(e, p)
    \/ Insert(e) \/ Number(e) \/ Snapshot(e) \/ Save(e) \/ Unlink(e) \/ Link(e)
    \/ BreaksOff(e)

WikiSpec == WikiInit /\ [][WikiNext]_wikiVars

----------------------------------------------------------------------------
(***************************************************************************)
(* Properties                                                              *)
(***************************************************************************)

(* No text is lost: whatever a page has ever said is what it says or in    *)
(* its history, through edits, restores and requests that break off.  The  *)
(* exception is a text saved while another request held an older copy of   *)
(* the page: that one records its own copy as the state it replaces        *)
(* (views.py:317, 435, models.py:162), and the text in between is gone     *)
(* without a trace.                                                        *)
EveryBodyIsKept ==
  \A w \in written \ exposed :
    LET p == w[1] IN
      \/ page[p].body = w[2]
      \/ \E r \in revisions[p] : r.body = w[2]

(* Once nobody is at work on it, the links of a page are those its text    *)
(* asks for and none of them leads to a page that is gone, unless two      *)
(* requests rewrote them at the same time or one broke off halfway         *)
(* (views.py:471-486).                                                     *)
LinksMatchBody ==
  \A p \in Rows \ torn :
    (\A e \in Editors : ~Linking(e, p)) =>
      LET own == {l \in links : l.source = p} IN
        /\ {l.title : l \in own} = Mentions[page[p].body]
        /\ \A l \in own : l.target = NoPage \/ Exists(l.target)
=============================================================================
