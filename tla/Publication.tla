----------------------------- MODULE Publication -----------------------------
(***************************************************************************)
(* How a text reaches telegra.ph.  A text that is too big for one page is  *)
(* cut and published in parts; a page cannot be deleted.                   *)
(*                                                                         *)
(*   "synopsis"  the last two parts are merged while the result fits, and  *)
(*               every part is edited to get an outline and a link to the  *)
(*               next one (services/telegraph.py)                          *)
(*   "expanded"  Study and Reflection: the same without the merging, and a *)
(*               long section is cut between paragraphs                    *)
(*               (services/telegraph_pages.py)                             *)
(*   "compact"   _telegraph_post: a part that fails is left out, and a     *)
(*               page of contents leads to the others                      *)
(*                                                                         *)
(* add_navigation (pipelines/telegraph_nav.py) then reads the pages back   *)
(* and writes them with a footer.  A step is one request to telegra.ph,    *)
(* which may fail, or be carried out while its answer is lost.             *)
(***************************************************************************)
EXTENDS Integers, Sequences, SequencesExt

CONSTANTS
  Text,         \* a sequence of sections, each a sequence of paragraphs
  LongSection,  \* a section of more paragraphs can be cut: 5
  Room,         \* bound: the size that telegra.ph accepts is in 1..Room
  Posts,        \* requests of one createPage or editPage: 3
  Calls,        \* calls of _edit_telegraph_page with the outline: 3
  MaxTroubles   \* bound: requests that fail

ASSUME PublicationAssumption ==
  /\ Text # <<>> /\ \A i \in DOMAIN Text : Text[i] # <<>>
  /\ LongSection \in Nat \ {0} /\ Room \in Nat \ {0}
  /\ Posts \in Nat \ {0} /\ Calls \in Nat \ {0} /\ MaxTroubles \in Nat

VARIABLES
  kind,      \* which of the three
  limit,     \* the largest page that is not CONTENT_TOO_BIG
  related,   \* materials for "read next" at the end of the last part
  doing,     \* the stage of the work
  todo,      \* runs of sections that are still to be published, in order
  parts,     \* published_parts: sections and the page they are on
  dropped,   \* paragraphs of the parts that _telegraph_post gave up
  at,        \* the part or, for add_navigation, the page that is edited
  outlined,  \* whether the edit has its optional nodes
  posted,    \* requests of the call that failed
  round,     \* calls of _edit_telegraph_page that failed
  missed,    \* parts whose edit was given up
  read,      \* the page that add_navigation has read, or Unread
  visited,   \* pages that _walk_chain has visited
  result,    \* the page that is returned, 0 for None
  pages,     \* what telegra.ph shows
  troubles   \* requests that failed so far

pubVars == <<kind, limit, related, doing, todo, parts, dropped, at, outlined,
             posted, round, missed, read, visited, result, pages, troubles>>

Unread == <<>>
Whole == FlattenSeq(Text)
Paragraphs == {Whole[i] : i \in DOMAIN Whole}

\* A paragraph stands for its place in the text: no two are the same one.
ASSUME TextAssumption ==
  /\ Text \in Seq(Seq(Paragraphs))
  /\ \A i, j \in DOMAIN Whole : Whole[i] = Whole[j] => i = j

Page(text, outline, links, foot) ==
  [text |-> text, outline |-> outline, links |-> links, foot |-> foot]

IsPage(p) ==
  /\ p.text \in Seq(Paragraphs) /\ p.outline \in BOOLEAN
  /\ p.links \in Seq(DOMAIN pages)
  /\ p.foot \in Seq({"related", "nav", "short"})

PublicationTypeOK ==
  /\ kind \in {"synopsis", "expanded", "compact"}
  /\ limit \in 1..Room /\ related \in 0..3
  /\ doing \in {"create", "toc", "merge", "edit", "nav", "done", "failed"}
  /\ \A i \in DOMAIN pages : IsPage(pages[i])
  /\ \A i \in DOMAIN parts : parts[i].page \in DOMAIN pages
  /\ \A i, j \in DOMAIN parts : parts[i].page = parts[j].page => i = j
  /\ dropped \subseteq Paragraphs /\ missed \subseteq DOMAIN parts
  /\ doing = "edit" => at \in DOMAIN parts
  /\ doing = "nav" => at \in DOMAIN pages
  /\ outlined \in BOOLEAN /\ posted \in 0..Posts /\ round \in 0..(Calls - 1)
  /\ read = Unread \/ IsPage(read)
  /\ visited \subseteq DOMAIN pages
  /\ result \in {0} \cup DOMAIN pages
  /\ troubles \in 0..MaxTroubles

PublicationInit ==
  /\ kind \in {"synopsis", "expanded", "compact"}
  /\ limit \in 1..Room /\ related \in {0, 2, 3}
  /\ doing = "create" /\ todo = <<Text>> /\ parts = <<>>
  /\ dropped = {} /\ at = 1 /\ outlined = TRUE /\ posted = 0 /\ round = 0
  /\ missed = {} /\ read = Unread /\ visited = {} /\ result = 0
  /\ pages = <<>> /\ troubles = 0

-----------------------------------------------------------------------------
(* telegra.ph.                                                             *)

Weight(p) == (IF p.outline THEN 1 ELSE 0) + (IF p.links # <<>> THEN 1 ELSE 0)

Size(p) ==
  Len(p.text) + Weight(p) + Len(p.foot) + Len(SelectSeq(p.foot, LAMBDA f : f = "nav"))

Fits(p) == Size(p) <= limit

\* A request for page p fails.  telegra.ph may have carried it out when no
\* answer came, which is worth another request, or when the answer cannot be
\* read, which some callers do not repeat.
Fails(p, again, carriedOut) ==
  /\ troubles < MaxTroubles /\ troubles' = troubles + 1
  /\ carriedOut =>
       /\ Fits(p)
       /\ again \/ kind = "compact" \/ (kind = "synopsis" /\ doing \in {"merge", "edit"})

Repeats(again) == again /\ posted + 1 < Posts

CreatedAnyway(p, carriedOut) == pages' = IF carriedOut THEN Append(pages, p) ELSE pages
WrittenAnyway(i, p, carriedOut) == pages' = IF carriedOut THEN [pages EXCEPT ![i] = p] ELSE pages

-----------------------------------------------------------------------------
(* Creating the parts.                                                     *)

Body(secs) == Page(FlattenSeq(secs), FALSE, <<>>, <<>>)

Halves(s, n) == <<SubSeq(s, 1, n), SubSeq(s, n + 1, Len(s))>>

\* Mutant: the second half begins one section late.
CutsLate(secs) ==
  {<<SubSeq(secs, 1, n), SubSeq(secs, n + 2, Len(secs))>> : n \in 1..(Len(secs) \div 2)}

\* Where a run of sections that is too big may be cut: in the middle, or before
\* a heading in the first half of a compact text.
Cuts(secs) ==
  LET middle == Len(secs) \div 2
      paragraphs == secs[1]
  IN IF Len(secs) > 1
     THEN {Halves(secs, n) : n \in IF kind = "compact" THEN 1..middle ELSE {middle}}
     ELSE IF kind = "expanded" /\ Len(paragraphs) > LongSection
     THEN {LET h == Halves(paragraphs, Len(paragraphs) \div 2) IN <<<<h[1]>>, <<h[2]>>>>}
     ELSE {}

NextRun == todo' = Tail(todo) /\ posted' = 0

\* What follows when the last run is published or given up.
AfterRuns(ps) ==
  IF Len(todo) > 1 THEN doing' = "create" /\ UNCHANGED result
  ELSE IF ps = <<>> THEN doing' = "failed" /\ UNCHANGED result
  ELSE IF kind = "synopsis" THEN doing' = "merge" /\ UNCHANGED result
  ELSE IF kind = "expanded" THEN doing' = "edit" /\ UNCHANGED result
  ELSE IF Len(ps) > 1 THEN doing' = "toc" /\ UNCHANGED result
  ELSE doing' = "done" /\ result' = ps[1].page

Creating == doing = "create" /\ todo # <<>>

Created ==
  /\ Creating /\ Fits(Body(Head(todo)))
  /\ pages' = Append(pages, Body(Head(todo)))
  /\ parts' = Append(parts, [secs |-> Head(todo), page |-> Len(pages) + 1])
  /\ NextRun /\ AfterRuns(parts')
  /\ UNCHANGED <<kind, limit, related, dropped, at, outlined, round, missed, read, visited,
                 troubles>>

\* CONTENT_TOO_BIG.
Cut ==
  /\ Creating /\ ~Fits(Body(Head(todo)))
  /\ \E cut \in Cuts(Head(todo)) : todo' = cut \o Tail(todo)
  /\ posted' = 0
  /\ UNCHANGED <<kind, limit, related, doing, parts, dropped, at, outlined, round, missed, read,
                 visited, result, pages, troubles>>

\* The run cannot be published: the whole text has failed, but for a compact
\* one whose first request was CONTENT_TOO_BIG.
GiveUpRun ==
  IF kind = "compact" /\ Head(todo) # Text
  THEN /\ dropped' = dropped \cup {FlattenSeq(Head(todo))[i] : i \in DOMAIN FlattenSeq(Head(todo))}
       /\ NextRun /\ AfterRuns(parts)
  ELSE /\ doing' = "failed" /\ posted' = 0
       /\ UNCHANGED <<todo, dropped, result>>

\* One section, or one block, is too big.
CannotCut ==
  /\ Creating /\ ~Fits(Body(Head(todo))) /\ Cuts(Head(todo)) = {}
  /\ GiveUpRun
  /\ UNCHANGED <<kind, limit, related, parts, at, outlined, round, missed, read, visited, pages,
                 troubles>>

CreateFails ==
  /\ Creating
  /\ \E again, carriedOut \in BOOLEAN :
       /\ Fails(Body(Head(todo)), again, carriedOut)
       /\ CreatedAnyway(Body(Head(todo)), carriedOut)
       /\ IF Repeats(again)
          THEN posted' = posted + 1 /\ UNCHANGED <<todo, dropped, doing, result>>
          ELSE GiveUpRun
  /\ UNCHANGED <<kind, limit, related, parts, at, outlined, round, missed, read, visited>>

-----------------------------------------------------------------------------
(* The page of contents of a compact text.                                 *)

Contents == Page(<<>>, FALSE, [i \in DOMAIN parts |-> parts[i].page], <<>>)

TocRests ==
  UNCHANGED <<kind, limit, related, todo, parts, dropped, at, outlined, round, missed, read, visited>>

TocCreated ==
  /\ doing = "toc" /\ Fits(Contents)
  /\ pages' = Append(pages, Contents)
  /\ result' = Len(pages') /\ doing' = "done" /\ posted' = 0
  /\ TocRests /\ UNCHANGED troubles

TocFails ==
  /\ doing = "toc"
  /\ \E again, carriedOut \in BOOLEAN :
       /\ Fails(Contents, again, carriedOut)
       /\ CreatedAnyway(Contents, carriedOut)
       /\ IF Repeats(again)
          THEN posted' = posted + 1 /\ UNCHANGED doing
          ELSE posted' = 0 /\ doing' = "failed"
  /\ TocRests /\ UNCHANGED result

-----------------------------------------------------------------------------
(* Merging the last two parts of a synopsis.                               *)

Tail2 == Len(parts) - 1
Merged == [secs |-> parts[Tail2].secs \o parts[Tail2 + 1].secs, page |-> parts[Tail2].page]

MergeRests ==
  UNCHANGED <<kind, limit, related, todo, dropped, at, outlined, round, missed, read, visited,
              result>>

Merging == doing = "merge" /\ Len(parts) > 1

MergeAccepted ==
  /\ Merging /\ Fits(Body(Merged.secs))
  /\ pages' = [pages EXCEPT ![Merged.page] = Body(Merged.secs)]
  /\ parts' = Append(SubSeq(parts, 1, Tail2 - 1), Merged)
  /\ posted' = 0
  /\ MergeRests /\ UNCHANGED <<doing, troubles>>

MergeFails ==
  /\ Merging
  /\ \E again, carriedOut \in BOOLEAN :
       /\ Fails(Body(Merged.secs), again, carriedOut)
       /\ WrittenAnyway(Merged.page, Body(Merged.secs), carriedOut)
       /\ IF Repeats(again)
          THEN posted' = posted + 1 /\ UNCHANGED doing
          ELSE posted' = 0 /\ doing' = "edit"
  /\ MergeRests /\ UNCHANGED parts

\* One part is left, or the last two do not fit on one page.
MergeEnds ==
  /\ doing = "merge" /\ (Merging => ~Fits(Body(Merged.secs)))
  /\ doing' = "edit" /\ posted' = 0
  /\ MergeRests /\ UNCHANGED <<parts, pages, troubles>>

-----------------------------------------------------------------------------
(* Editing the parts.                                                      *)

\* Mutant: the next part is taken to be on the next page that was created.
NextBySuffix(i) == IF i < Len(parts) THEN <<parts[i].page + 1>> ELSE <<>>

\* The link to the next part.
NextPart(i) == IF i < Len(parts) THEN <<parts[i + 1].page>> ELSE <<>>

\* _build_part_nodes_edit and _build_expanded_part_nodes.
PartNodes(i, full) ==
  Page(FlattenSeq(parts[i].secs),
       full /\ (i = 1 \/ kind = "synopsis"),
       NextPart(i),
       IF i = Len(parts) /\ related > 0 THEN <<"related">> ELSE <<>>)

EditRests == UNCHANGED <<kind, limit, related, todo, parts, dropped, read, visited>>

NextEdit ==
  /\ outlined' = TRUE /\ posted' = 0 /\ round' = 0
  /\ IF at < Len(parts)
     THEN at' = at + 1 /\ UNCHANGED <<doing, result>>
     ELSE doing' = "done" /\ at' = 1 /\ result' = parts[1].page

Plain == outlined' = FALSE /\ posted' = 0 /\ UNCHANGED <<at, doing, result, round, missed>>

\* What follows when a call has failed, because the page is too big or for
\* another reason.
EditAgain(tooBig) ==
  IF kind = "expanded" /\ outlined /\ round + 1 < Calls
  THEN round' = round + 1 /\ posted' = 0 /\ UNCHANGED <<at, doing, result, outlined, missed>>
  ELSE IF outlined /\ (tooBig \/ kind = "expanded")
  THEN Plain
  ELSE missed' = missed \cup {at} /\ NextEdit

EditAccepted ==
  /\ doing = "edit" /\ Fits(PartNodes(at, outlined))
  /\ pages' = [pages EXCEPT ![parts[at].page] = PartNodes(at, outlined)]
  /\ NextEdit
  /\ EditRests /\ UNCHANGED <<missed, troubles>>

EditTooBig ==
  /\ doing = "edit" /\ ~Fits(PartNodes(at, outlined))
  /\ EditAgain(TRUE)
  /\ EditRests /\ UNCHANGED <<pages, troubles>>

EditFails ==
  /\ doing = "edit"
  /\ \E again, carriedOut \in BOOLEAN :
       /\ Fails(PartNodes(at, outlined), again, carriedOut)
       /\ WrittenAnyway(parts[at].page, PartNodes(at, outlined), carriedOut)
       /\ IF Repeats(again)
          THEN posted' = posted + 1 /\ UNCHANGED <<at, doing, result, outlined, round, missed>>
          ELSE EditAgain(FALSE)
  /\ EditRests

-----------------------------------------------------------------------------
(* add_navigation, when there is a second text to link to.                 *)

NavRests == UNCHANGED <<kind, limit, related, todo, parts, dropped, round, missed, result>>

Navigate ==
  /\ doing = "done" /\ result # 0 /\ visited = {}
  /\ doing' = "nav" /\ at' = result /\ visited' = {result}
  /\ outlined' = TRUE /\ posted' = 0
  /\ NavRests /\ UNCHANGED <<read, pages, troubles>>

NavEnds == doing' = "done" /\ read' = Unread /\ posted' = 0 /\ UNCHANGED <<at, outlined, visited>>

\* The next page of the chain, found on page p as it was read; the links of a
\* page of contents do not say "next".
Onward(p) ==
  LET next == {p.links[i] : i \in DOMAIN p.links} \ visited
  IN IF kind = "compact" \/ next = {} THEN NavEnds
     ELSE /\ at' \in next /\ visited' = visited \cup next
          /\ read' = Unread /\ outlined' = TRUE /\ posted' = 0 /\ UNCHANGED doing

\* has_nav looks at the last three nodes: the heading of one or two related
\* materials is taken for a footer.
HasNav(p) ==
  \E i \in DOMAIN p.foot : p.foot[i] = "nav" \/ (p.foot[i] = "related" /\ related < 3)

NavReads ==
  /\ doing = "nav" /\ read = Unread
  /\ IF at # result /\ HasNav(pages[at])
     THEN Onward(pages[at])
     ELSE read' = pages[at] /\ posted' = 0 /\ UNCHANGED <<doing, at, outlined, visited>>
  /\ NavRests /\ UNCHANGED <<pages, troubles>>

\* An exception while the first page is read is worth a second try; a page that
\* cannot be had ends the walk.
NavReadFails ==
  /\ doing = "nav" /\ read = Unread
  /\ troubles < MaxTroubles /\ troubles' = troubles + 1
  /\ \/ /\ at = result /\ posted = 0 /\ posted' = 1
        /\ UNCHANGED <<doing, at, outlined, read, visited>>
     \/ NavEnds
  /\ NavRests /\ UNCHANGED pages

\* Mutant: hr and p are taken off whatever they are.
StripAny(p) == [p EXCEPT !.text = SubSeq(@, 1, Len(@) - 1)]

\* strip_trailing_nav.
Strip(p) ==
  IF p.foot # <<>> /\ Last(p.foot) = "nav" THEN [p EXCEPT !.foot = Front(@)] ELSE p

\* The page with the footer, and with the short one when that was refused.
Footed(full) ==
  LET p == IF at = result THEN Strip(read) ELSE read
  IN [p EXCEPT !.foot = Append(@, IF full THEN "nav" ELSE "short")]

NavRefused ==
  IF outlined THEN outlined' = FALSE /\ posted' = 0 /\ UNCHANGED <<doing, at, read, visited>>
  ELSE Onward(read)

NavAccepted ==
  /\ doing = "nav" /\ read # Unread /\ Fits(Footed(outlined))
  /\ pages' = [pages EXCEPT ![at] = Footed(outlined)]
  /\ Onward(read)
  /\ NavRests /\ UNCHANGED troubles

NavTooBig ==
  /\ doing = "nav" /\ read # Unread /\ ~Fits(Footed(outlined))
  /\ NavRefused
  /\ NavRests /\ UNCHANGED <<pages, troubles>>

NavFails ==
  /\ doing = "nav" /\ read # Unread
  /\ \E again, carriedOut \in BOOLEAN :
       /\ Fails(Footed(outlined), again, carriedOut)
       /\ WrittenAnyway(at, Footed(outlined), carriedOut)
       /\ IF Repeats(again)
          THEN posted' = posted + 1 /\ UNCHANGED <<doing, at, outlined, read, visited>>
          ELSE NavRefused
  /\ NavRests

-----------------------------------------------------------------------------
CreateStep == Created \/ Cut \/ CannotCut \/ CreateFails \/ TocCreated \/ TocFails
EditStep   == MergeAccepted \/ MergeFails \/ MergeEnds \/ EditAccepted \/ EditTooBig \/ EditFails
NavStep    == NavReads \/ NavReadFails \/ NavAccepted \/ NavTooBig \/ NavFails

PublicationNext == CreateStep \/ EditStep \/ Navigate \/ NavStep

PublicationSpec == PublicationInit /\ [][PublicationNext]_pubVars

-----------------------------------------------------------------------------
PartText(i) == FlattenSeq(parts[i].secs)
PartsText == FlattenSeq([i \in DOMAIN parts |-> PartText(i)])
TodoText == FlattenSeq([i \in DOMAIN todo |-> FlattenSeq(todo[i])])

\* The paragraphs of s that are not in D.
Without(s, D) == FlattenSeq([i \in DOMAIN s |-> IF s[i] \in D THEN <<>> ELSE <<s[i]>>])

\* The parts hold the text in its order, whatever was cut, merged and tried
\* again, without what _telegraph_post reports as left out, and no edit, merge
\* or footer takes a paragraph of a part off its page.
NoParagraphLost ==
  /\ doing # "failed" => PartsText \o TodoText = Without(Whole, dropped)
  /\ kind # "compact" => dropped = {}
  /\ \A i \in DOMAIN parts : IsPrefix(PartText(i), pages[parts[i].page].text)

\* The parts whose edit has ended.
Edited ==
  IF doing = "edit" THEN 1..(at - 1) ELSE IF doing \in {"nav", "done"} THEN DOMAIN parts ELSE {}

\* Who follows the links reads the text once and in order: a page leads to the
\* page of the next part, never to one that was merged away or whose creation
\* went unanswered, and shows its own part only.  This may fail for a part whose
\* edit was given up, which has then no other link.
LinksReadTheText ==
  /\ kind # "compact" =>
       \A i \in DOMAIN parts :
         LET p == pages[parts[i].page]
             next == IF i = Len(parts) THEN <<>> ELSE <<parts[i + 1].page>>
         IN /\ p.links \in {<<>>, next}
            /\ i \in Edited \ missed => p.links = next /\ p.text = PartText(i)
  /\ kind = "compact" /\ result # 0 =>
       \/ pages[result].links = [i \in DOMAIN parts |-> parts[i].page]
       \/ Len(parts) = 1 /\ result = parts[1].page
=============================================================================
