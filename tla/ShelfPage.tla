------------------------------- MODULE ShelfPage ------------------------------
(***************************************************************************)
(* A shelf of the home page: the customer's recent products, a few of them *)
(* drawn at a time, more of them fetched when the end is near.             *)
(*                                                                         *)
(* A click runs in the drawing it was made in: it captures the products,   *)
(* the position and the size of the slide of that drawing, and page, which *)
(* is a variable of the drawing and begins at 1 in each.  The answer of a  *)
(* fetch is put behind what was captured.  The server's pages move when a  *)
(* product is viewed in another tab, or its listing is removed.            *)
(***************************************************************************)
EXTENDS Naturals, Sequences, SequencesExt, FiniteSetsExt, Filters, Calls

CONSTANTS
  Shelved,               \* products
  PerPage, SlideSizes,   \* the server's pages; the sizes of the slide
  MaxFetches, MaxViews   \* bounds: fetches after the first; views elsewhere

ASSUME ShelfAssumption ==
  /\ IsFiniteSet(Shelved)
  /\ PerPage \in Nat \ {0} /\ SlideSizes \subseteq Nat \ {0}
  /\ MaxFetches \in Nat /\ MaxViews \in Nat

VARIABLES
  viewed,        \* the server's list, the most recent first
  views,         \* how often it changed
  loading,       \* the fetch of the mount
  products,
  start_pos, SLIDE_SIZE,
  clicks,        \* fetches begun in the present drawing: page is one more
  fetches,       \* calls of FetchMore
  \* history, read by no action
  overtaken      \* an answer was put behind products that were no longer shown

drawn == <<products, start_pos, SLIDE_SIZE, clicks>>
shelfVars == <<viewed, views, loading, drawn, fetches, overtaken>>

Some == UNION {[1..n -> Shelved] : n \in 0..PerPage}
Fetch == [captured : Seq(Shelved), start : Nat, slide : SlideSizes, page : Nat,
          at : {"sent", "resolved", "rejected", "used"}, answer : Some]

ShelfTypeOK ==
  /\ viewed \in Seq(Shelved) /\ views \in 0..MaxViews
  /\ loading \in {"sent", "over"}
  /\ products \in Seq(Shelved) /\ start_pos \in Nat /\ SLIDE_SIZE \in SlideSizes
  /\ clicks \in 0..MaxFetches
  /\ fetches \in Seq(Fetch) /\ Len(fetches) <= MaxFetches
  /\ overtaken \in BOOLEAN

ShelfInit ==
  /\ viewed = SetToSeq(Shelved) /\ views = 0
  /\ loading = "sent" /\ products = <<>>
  /\ start_pos = 0 /\ SLIDE_SIZE \in SlideSizes /\ clicks = 0
  /\ fetches = <<>> /\ overtaken = FALSE

PageOf(n) == SubSeq(viewed, (n - 1) * PerPage + 1, Min({n * PerPage, Len(viewed)}))
-----------------------------------------------------------------------------
(* The products of the mount; without them the shelf stays empty. *)
Load ==
  /\ loading = "sent" /\ loading' = "over"
  /\ products' \in {PageOf(1), <<>>} /\ clicks' = 0
  /\ UNCHANGED <<viewed, views, start_pos, SLIDE_SIZE, fetches, overtaken>>

(* The window's width changes. *)
checkResponsitivy(size) ==
  /\ size # SLIDE_SIZE /\ SLIDE_SIZE' = size /\ clicks' = 0
  /\ UNCHANGED <<viewed, views, loading, products, start_pos, fetches, overtaken>>

Prev ==
  /\ start_pos >= 1
  /\ start_pos' = Max({0, start_pos - SLIDE_SIZE}) /\ clicks' = 0
  /\ UNCHANGED <<viewed, views, loading, products, SLIDE_SIZE, fetches, overtaken>>

(* Mutation: the index of the last product is taken for their number. *)
LastPastEnd(list) == Len(list)

LastOf(list) == Len(list) - 1

(* Three products are turned one at a time, two by two. *)
Step(list, slide, grow) == IF slide = 2 /\ LastOf(list) = 2 THEN 1 ELSE grow

NextWithin ==
  /\ products # <<>> /\ start_pos < LastOf(products)
  /\ start_pos + SLIDE_SIZE <= LastOf(products)
  /\ start_pos' = start_pos + Step(products, SLIDE_SIZE, SLIDE_SIZE) /\ clicks' = 0
  /\ UNCHANGED <<viewed, views, loading, products, SLIDE_SIZE, fetches, overtaken>>

NextBeyond ==
  /\ products # <<>> /\ start_pos < LastOf(products)
  /\ start_pos + SLIDE_SIZE > LastOf(products)
  /\ Len(fetches) < MaxFetches
  /\ clicks' = clicks + 1
  /\ fetches' = Append(fetches,
       [captured |-> products, start |-> start_pos, slide |-> SLIDE_SIZE,
        page |-> 1 + clicks', at |-> "sent", answer |-> <<>>])
  /\ UNCHANGED <<viewed, views, loading, products, start_pos, SLIDE_SIZE, overtaken>>

AnswerMore(n) ==
  /\ n \in DOMAIN fetches /\ fetches[n].at = "sent"
  /\ \E outcome \in Outcomes(TRUE) :
       fetches' = [fetches EXCEPT ![n].at = outcome,
         ![n].answer = IF outcome = "resolved" THEN PageOf(fetches[n].page) ELSE <<>>]
  /\ UNCHANGED <<viewed, views, loading, drawn, overtaken>>

(* Mutation: what is shown already is not looked for. *)
AddedUnseen(call) == call.answer

(* The products of the answer that were not captured. *)
Added(call) == Kept(call.answer, Shelved \ ToSet(call.captured))

FetchMore(call) == products' = call.captured \o Added(call)

(* The window of the slide follows what came; a rejection is not caught. *)
MoreAnswered(n) ==
  /\ n \in DOMAIN fetches /\ fetches[n].at \in {"resolved", "rejected"}
  /\ LET call == fetches[n]
         grow == Min({Len(Added(call)), call.slide}) IN
     IF call.at = "resolved"
       THEN /\ FetchMore(call) /\ clicks' = 0
            /\ start_pos' = IF grow = 0 THEN start_pos
                            ELSE call.start + Step(call.captured, call.slide, grow)
            /\ overtaken' = (overtaken \/ products # call.captured)
       ELSE UNCHANGED <<products, start_pos, clicks, overtaken>>
  /\ fetches' = [fetches EXCEPT ![n].at = "used", ![n].answer = <<>>]
  /\ UNCHANGED <<viewed, views, loading, SLIDE_SIZE>>
-----------------------------------------------------------------------------
(* In another tab a product is viewed, or its seller removes it. *)
ViewElsewhere(p) ==
  /\ views < MaxViews /\ views' = views + 1
  /\ LET others == Kept(viewed, Shelved \ {p}) IN viewed' \in {<<p>> \o others, others}
  /\ UNCHANGED <<loading, drawn, fetches, overtaken>>

ShelfNext ==
  \/ Load \/ Prev \/ NextWithin \/ NextBeyond
  \/ \E size \in SlideSizes : checkResponsitivy(size)
  \/ \E n \in 1..MaxFetches : AnswerMore(n) \/ MoreAnswered(n)
  \/ \E p \in Shelved : ViewElsewhere(p)

ShelfSpec == ShelfInit /\ [][ShelfNext]_shelfVars
-----------------------------------------------------------------------------
(* Properties.                                                             *)

(* No product is on the shelf twice ("evita duplicatas"), although the     *)
(* server's pages move between two fetches and fetches may overlap: the    *)
(* products are drawn by their ids.                                        *)
NoTwins == IsInjective(products)

(* The slide always begins at a product, so the shelf is not drawn empty,  *)
(* unless the answer of one click took back what another had fetched.      *)
SlideHasProducts == products # <<>> /\ ~overtaken => start_pos < Len(products)
=============================================================================
