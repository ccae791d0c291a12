---------------------------- MODULE PageSelection ----------------------------
(***************************************************************************)
(* Which pages of a document a job renders and a delivery sends: page      *)
(* ranges of a REST or IPP manifest, the frames an interpreter streams      *)
(* back, the source pages recorded with the artifacts, and the ranges a    *)
(* delivery selects from what was rendered.                                *)
(***************************************************************************)
EXTENDS Integers, Sequences, SequencesExt

CONSTANTS MaxPages,      \* pages of a document: 100
          MaxPosition,   \* last position an IPP range may name: 2^31 - 1
          MaxRanges      \* bound on the ranges of a request

ASSUME PageAssumption ==
  {MaxPages, MaxPosition, MaxRanges} \subseteq Nat /\ MaxPages > 0 /\ MaxPosition > MaxPages

VARIABLES
  rendering,     \* control state of the job
  manifest,      \* its page_ranges
  document,      \* the format, and the pages it really has
  frames,        \* pages the interpreter announced, frames received so far
  pageArtifacts, \* the artifacts, each with source_page and source_page_count
  dispatch       \* a delivery that was asked for

pageVars == <<rendering, manifest, document, frames, pageArtifacts, dispatch>>

----------------------------------------------------------------------------
(* PageRanges::bounded: ascending, disjoint; neighbours become one range.  *)
PageRange == [first : 0..MaxPosition + 1, last : 0..MaxPosition + 1]

WellFormed(ranges, maximum) ==
  \A n \in DOMAIN ranges :
    /\ 1 <= ranges[n].first /\ ranges[n].first <= ranges[n].last /\ ranges[n].last <= maximum
    /\ n > 1 => ranges[n].first > ranges[n - 1].last

Joined(done, range) ==
  IF done # <<>> /\ range.first = Last(done).last + 1
  THEN [done EXCEPT ![Len(done)].last = range.last]
  ELSE Append(done, range)

Canonical(ranges) ==
  LET upTo[n \in 0..Len(ranges)] == IF n = 0 THEN <<>> ELSE Joined(upTo[n - 1], ranges[n])
  IN  upTo[Len(ranges)]

(* Without ranges, of either kind, all pages are meant.  REST refuses a    *)
(* position outside the document, IPP ignores it.                          *)
IsAll(selection) == selection.ranges = <<>>

WithinBounds(selection, total) ==
  /\ total \in 1..MaxPages
  /\ ~selection.ipp => \A n \in DOMAIN selection.ranges : selection.ranges[n].last <= total

From(first, last) == IF last < first THEN <<>> ELSE [n \in 1..(last - first + 1) |-> first + n - 1]

Clipped(range, selection, total) ==
  From(range.first, IF selection.ipp /\ range.last > total THEN total ELSE range.last)

Indices(selection, total) ==
  IF IsAll(selection) THEN From(1, total)
  ELSE FlattenSeq([n \in DOMAIN selection.ranges |-> Clipped(selection.ranges[n], selection, total)])

(* source_mapping and delivery_indices. *)
MappingHolds(selection, artifacts) ==
  /\ artifacts # <<>>
  /\ IF IsAll(selection) THEN \A n \in DOMAIN artifacts : artifacts[n] = [source |-> 0, of |-> 0]
     ELSE LET total == artifacts[1].of IN
          /\ WithinBounds(selection, total)
          /\ artifacts = [n \in DOMAIN Indices(selection, total) |->
                            [source |-> Indices(selection, total)[n], of |-> total]]

SourcePages(selection, artifacts) ==
  [n \in DOMAIN artifacts |-> IF IsAll(selection) THEN n ELSE artifacts[n].source]
SourceTotal(selection, artifacts) == IF IsAll(selection) THEN Len(artifacts) ELSE artifacts[1].of

(* Variant of DeliveryIndices, source positions taken for output positions. *)
SourceIndices(request, mapping, total) ==
  IF IsAll(request) THEN From(1, Len(mapping))
  ELSE [n \in DOMAIN Indices(request, total) |->
          IF Indices(request, total)[n] \in DOMAIN mapping THEN Indices(request, total)[n] ELSE Len(mapping)]

DeliveryIndices(request, mapping, total) ==
  IF IsAll(request) THEN From(1, Len(mapping))
  ELSE [n \in DOMAIN Indices(request, total) |->
          CHOOSE i \in DOMAIN mapping : mapping[i] = Indices(request, total)[n]]

----------------------------------------------------------------------------
(* What the ranges of a request name, and what each frame really shows.    *)
Named(ranges) ==
  IF ranges = <<>> THEN 1..MaxPosition
  ELSE {p \in 1..MaxPosition : \E n \in DOMAIN ranges : ranges[n].first <= p /\ p <= ranges[n].last}

Ascending(pages) ==
  CHOOSE q \in [1..Cardinality(pages) -> pages] : \A i, k \in DOMAIN q : i < k => q[i] < q[k]
Shown == Ascending(manifest.named \cap (1..document.pages))

NoSelection == [ipp |-> FALSE, ranges |-> <<>>, named |-> {}]
NoDispatch == [state |-> "none", named |-> {}, sent |-> <<>>]

PageTypeOK ==
  /\ rendering \in {"none", "queued", "announcing", "streaming", "rendered", "completed", "failed"}
  /\ manifest.ipp \in BOOLEAN /\ WellFormed(manifest.ranges, MaxPosition)
  /\ document \in [pdf : BOOLEAN, pages : 0..MaxPages]
  /\ frames \in [announced : 0..MaxPages, received : 0..MaxPages]
  /\ pageArtifacts \in Seq([source : 0..MaxPages, of : 0..MaxPages])
  /\ dispatch.state \in {"none", "refused", "sent"}

PageInit ==
  /\ rendering = "none" /\ manifest = NoSelection
  /\ document = [pdf |-> TRUE, pages |-> 0]
  /\ frames = [announced |-> 0, received |-> 0]
  /\ pageArtifacts = <<>> /\ dispatch = NoDispatch

(* A well-formed manifest arrives, and only a PDF has pages to select; the *)
(* pages of another document are those its interpreter makes of it.        *)
AskPages(ipp, ranges, pdf) ==
  /\ rendering = "none"
  /\ WellFormed(ranges, IF ipp THEN MaxPosition ELSE MaxPages)
  /\ ranges # <<>> => pdf
  /\ rendering' = "queued"
  /\ manifest' = [ipp |-> ipp /\ ranges # <<>>, ranges |-> Canonical(ranges), named |-> Named(ranges)]
  /\ \E pages \in 1..MaxPages : document' = [pdf |-> pdf, pages |-> IF pdf THEN pages ELSE 0]
  /\ UNCHANGED <<frames, pageArtifacts, dispatch>>

(* render: a PDF is inspected first, and its selection must fit. *)
BeginRender ==
  /\ rendering = "queued"
  /\ rendering' = IF document.pdf => WithinBounds(manifest, document.pages)
                  THEN "announcing" ELSE "failed"
  /\ UNCHANGED <<manifest, document, frames, pageArtifacts, dispatch>>

(* read_selected_page_stream.  The interpreter announces the pages of the  *)
(* document if it was told a selection; frames are numbered from 1.  It is *)
(* not trusted with any number.                                            *)
Announce(total) ==
  /\ rendering = "announcing"
  /\ IF IsAll(manifest) THEN rendering' = "streaming" /\ UNCHANGED frames
     ELSE IF WithinBounds(manifest, total)
     THEN rendering' = "streaming" /\ frames' = [frames EXCEPT !.announced = total]
     ELSE rendering' = "failed" /\ UNCHANGED frames
  /\ UNCHANGED <<manifest, document, pageArtifacts, dispatch>>

Expected == Len(Indices(manifest, frames.announced))

ReceiveFrame(page) ==
  /\ rendering = "streaming"
  /\ IF page = frames.received + 1 /\ page <= MaxPages /\ (IsAll(manifest) \/ page <= Expected)
     THEN frames' = [frames EXCEPT !.received = page] /\ UNCHANGED rendering
     ELSE rendering' = "failed" /\ UNCHANGED frames
  /\ UNCHANGED <<manifest, document, pageArtifacts, dispatch>>

(* The last frame, and what render compares with the inspection. *)
EndFrames ==
  /\ rendering = "streaming"
  /\ rendering' = IF /\ IF IsAll(manifest) THEN frames.received > 0 ELSE frames.received = Expected
                     /\ document.pdf => frames.received = Len(Indices(manifest, document.pages))
                     /\ ~IsAll(manifest) => frames.announced = document.pages
                  THEN "rendered" ELSE "failed"
  /\ document' = IF document.pdf THEN document ELSE [document EXCEPT !.pages = frames.received]
  /\ UNCHANGED <<manifest, frames, pageArtifacts, dispatch>>

(* The worker: an artifact per frame, with the page of the source it is of *)
(* if the interpreter announced a total.                                   *)
Attributed ==
  [n \in 1..frames.received |->
     IF frames.announced = 0 THEN [source |-> 0, of |-> 0]
     ELSE [source |-> Indices(manifest, frames.announced)[n], of |-> frames.announced]]

(* complete_with_artifacts.  IPP completes without output if it named no   *)
(* page the document has.                                                  *)
CompletePages ==
  /\ rendering = "rendered"
  /\ IF \/ MappingHolds(manifest, Attributed)
        \/ manifest.ipp /\ frames.received = 0 /\ Indices(manifest, frames.announced) = <<>>
     THEN rendering' = "completed" /\ pageArtifacts' = Attributed
     ELSE rendering' = "failed" /\ UNCHANGED pageArtifacts
  /\ UNCHANGED <<manifest, document, frames, dispatch>>

(* prepare: the delivery of a completed job, of all its output or of some  *)
(* source pages, which must all be there.                                  *)
PrepareDelivery(ranges) ==
  LET request == [ipp |-> FALSE, ranges |-> Canonical(ranges)]
      mapping == SourcePages(manifest, pageArtifacts)
      total == SourceTotal(manifest, pageArtifacts) IN
  /\ rendering = "completed" /\ dispatch = NoDispatch /\ WellFormed(ranges, MaxPages)
  /\ IF /\ MappingHolds(manifest, pageArtifacts)
        /\ WithinBounds(request, total)
        /\ ~IsAll(request) => ToSet(Indices(request, total)) \subseteq ToSet(mapping)
     THEN LET indices == DeliveryIndices(request, mapping, total) IN
          dispatch' = [state |-> "sent", named |-> Named(ranges),
                       sent |-> [n \in DOMAIN indices |-> Shown[indices[n]]]]
     ELSE dispatch' = [state |-> "refused", named |-> Named(ranges), sent |-> <<>>]
  /\ UNCHANGED <<rendering, manifest, document, frames, pageArtifacts>>

PageNext ==
  \/ \E ranges \in BoundedSeq(PageRange, MaxRanges) :
       \/ \E ipp, pdf \in BOOLEAN : AskPages(ipp, ranges, pdf)
       \/ PrepareDelivery(ranges)
  \/ BeginRender \/ EndFrames \/ CompletePages
  \/ \E n \in 0..MaxPages + 1 : Announce(n) \/ ReceiveFrame(n)

PageSpec == PageInit /\ [][PageNext]_pageVars

----------------------------------------------------------------------------
(* PageRanges, source_mapping and delivery_indices, across the worker and  *)
(* the delivery: a job that completed rendered the pages its ranges name,  *)
(* in order and each once, and knows which is which, whatever totals and   *)
(* frames the interpreter sends; only IPP leaves out pages the document    *)
(* does not have.  A delivery sends the pages its own ranges name, in      *)
(* order, and is refused only if one of them was not rendered.             *)
PagesAsAsked ==
  /\ rendering = "completed" =>
       /\ SourcePages(manifest, pageArtifacts) = Shown
       /\ manifest.ipp \/ manifest.named = 1..MaxPosition \/ manifest.named \subseteq 1..document.pages
  /\ dispatch.state = "sent" =>
       dispatch.sent = Ascending(dispatch.named \cap
         IF dispatch.named = 1..MaxPosition THEN ToSet(Shown) ELSE 1..MaxPosition)
  /\ dispatch.state = "refused" /\ Shown # <<>> =>
       dispatch.named # 1..MaxPosition /\ ~(dispatch.named \subseteq ToSet(Shown))
=============================================================================
